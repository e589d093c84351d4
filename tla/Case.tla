-------------------------------- MODULE Case --------------------------------
(***************************************************************************)
(* A case between the agent and the backend: the handlers of SENTENCE,     *)
(* TEXT_RETRY and JURY_VOTE jobs, the HTTP client under them, and the      *)
(* backend's verdict and votes.  Every request may be lost, its answer may *)
(* be lost, and a copy that was given up may still arrive when its sender  *)
(* has gone on, has been cut off, or has been replaced by a later claim.   *)
(*                                                                         *)
(* The backend is the one the repository tests against                     *)
(* (tests/fakes/backend_app.py); what only its contract says is marked.    *)
(* The graph that writes the texts is module Sentencing; here it gives a   *)
(* draft or a failure.                                                     *)
(***************************************************************************)
EXTENDS Integers, Sequences, FiniteSets

CONSTANTS
    MaxGen,     \* bound: claims, each with a generation of its own
    Repairs,    \* IMMEDIATE_REPAIR_MAX
    Rounds,     \* MAX_TEXT_RETRY_ROUND
    NULL

VARIABLES
    jobs,       \* ai.jobs of the case, in the order of their inserts
    run,        \* the handlers, by generation
    net,        \* requests sent: copies may arrive at any time, or never
    verdict,    \* VerdictState
    votes,      \* PostState: what the juror voted, and whether voting is closed
    due,        \* the verdict's deadline has passed
    withdrawn   \* the post was deleted or is shared no more

vars == <<jobs, run, net, verdict, votes, due, withdrawn>>

Kind == {"SENTENCE", "TEXT_RETRY", "JURY_VOTE"}

\* JOB_ROUTES
MaxAttempts == [SENTENCE |-> 2, TEXT_RETRY |-> 1, JURY_VOTE |-> 2]

Gen == 1..MaxGen
Verdicts == {"favour", "against"}       \* VERDICTS_BY_POST_TYPE of the post
TemplateVerdict == "favour"             \* TEMPLATE_VERDICT_BY_POST_TYPE of the post

ASSUME CaseAssumption ==
    /\ MaxGen \in Nat /\ Repairs \in Nat /\ Rounds \in Nat
    /\ NULL \notin Gen /\ NULL \notin Verdicts

Row == [kind : Kind,
        status : {"QUEUED", "RUNNING", "SUCCEEDED", "FAILED", "CANCELLED"},
        attempts : Nat,
        gen : Gen \cup {NULL},
        leased : BOOLEAN]               \* lease_until > now()

\* Who fixed the sentence: the fallback rule or the model of a generation.
Rule == 0
Sentence == Gen \cup {Rule}

\* finalize: the sentence, whether every text is the model's, whether the draft
\* passes the backend's checks.  generation-failed: whether the code asks for
\* another round.  jury-votes: the vote.
Draft == [sentence : Sentence, ai : BOOLEAN, valid : BOOLEAN]
Failure == {"another round", "no round"}
Output == [verdict : Verdicts \cup {"other"},
           reason : {"good", "ungrounded", "blank", "long", "broken"}]
Body == Draft \cup [code : Failure] \cup Output \cup {NULL}

Requests == {"begin_generation", "finalize", "generation_failed", "cast_jury_vote"}
Settlements == {"complete", "cancel", "fail"}

Run == [job : 1..Rounds + 2,
        stub : BOOLEAN,                 \* no vendor key: SentenceStubHandler
        at : Requests \cup Settlements \cup {"snapshot", "draft", "juror", "ended"},
        body : Body,
        fixed : Sentence \cup {NULL},   \* begin.fixed_sentencing
        repairs : 0..Repairs,
        skipped : BOOLEAN,
        refused : BOOLEAN]              \* history: a vote was answered 422

Copy == [gen : Gen, to : Requests, body : Body]

VerdictState ==
    [status : {"PENDING", "FINAL"}, sentence : Sentence \cup {NULL},
     text : {"NONE", "TEMPLATE_READY", "AI_READY"}, version : Nat,
     job : Nat, gen : Gen \cup {NULL},
     failed : SUBSET (Gen \X Failure), committed : SUBSET (Gen \X Draft),
     began : 0..MaxGen,             \* history: the latest generation to begin
     rounds : 0..Rounds]

TypeOK ==
    /\ jobs \in Seq(Row)
    /\ run \in Seq(Run)
    /\ net \subseteq Copy
    /\ verdict \in VerdictState
    /\ votes \in [cast : Verdicts \cup {NULL}, closed : BOOLEAN]
    /\ due \in BOOLEAN /\ withdrawn \in BOOLEAN

NewRow(kind) ==
    [kind |-> kind, status |-> "QUEUED", attempts |-> 0, gen |-> NULL, leased |-> FALSE]

\* A verdict to be sentenced, or a post voted on from two rooms: the dedupe_key
\* of JURY_VOTE names the room, the backend's vote does not.
Init ==
    /\ jobs \in {<<NewRow("SENTENCE")>>, <<NewRow("JURY_VOTE"), NewRow("JURY_VOTE")>>}
    /\ run = <<>> /\ net = {}
    /\ verdict = [status |-> "PENDING", sentence |-> NULL, text |-> "NONE", version |-> 0,
                  job |-> 0, gen |-> NULL, failed |-> {}, committed |-> {}, began |-> 0,
                  rounds |-> 0]
    /\ votes = [cast |-> NULL, closed |-> FALSE]
    /\ due = FALSE /\ withdrawn = FALSE

Started(j, stub, at) ==
    [job |-> j, stub |-> stub, at |-> at, body |-> NULL, fixed |-> NULL,
     repairs |-> 0, skipped |-> FALSE, refused |-> FALSE]

-----------------------------------------------------------------------------
(* The queue: the statements of postgres_jobs, with leases as flags.       *)

OwnsByWorker(g) == jobs[run[g].job].status = "RUNNING" /\ jobs[run[g].job].leased
OwnsUnleased(g) == jobs[run[g].job].status = "RUNNING" /\ jobs[run[g].job].gen = g

\* OWNERSHIP_WHERE
Owns(g) ==
    LET row == jobs[run[g].job] IN
    row.status = "RUNNING" /\ row.gen = g /\ row.leased

Close(j, status) ==
    jobs' = [jobs EXCEPT ![j].status = status, ![j].gen = NULL, ![j].leased = FALSE]

\* CLAIM_SQL, and the handler that starts: with a vendor key at its snapshot.
Claim(j) ==
    LET g == Len(run) + 1 IN
    /\ g <= MaxGen
    /\ jobs[j].status = "QUEUED" /\ jobs[j].attempts < MaxAttempts[jobs[j].kind]
    /\ jobs[j].kind = "SENTENCE" => ~due
    /\ jobs' = [jobs EXCEPT ![j].status = "RUNNING", ![j].attempts = @ + 1,
                            ![j].gen = g, ![j].leased = TRUE]
    /\ \/ run' = Append(run, Started(j, FALSE, "snapshot")) /\ UNCHANGED net
       \/ /\ jobs[j].kind # "JURY_VOTE"
          /\ run' = Append(run, Started(j, TRUE, "begin_generation"))
          /\ net' = net \cup {[gen |-> g, to |-> "begin_generation", body |-> NULL]}
    /\ UNCHANGED <<verdict, votes, due, withdrawn>>

LeaseExpires(j) ==
    /\ jobs[j].status = "RUNNING" /\ jobs[j].leased
    /\ jobs' = [jobs EXCEPT ![j].leased = FALSE]
    /\ UNCHANGED <<run, net, verdict, votes, due, withdrawn>>

\* REAPER_SQL
Reap(j) ==
    LET row == jobs[j] IN
    /\ row.status = "RUNNING" /\ ~row.leased
    /\ Close(j, IF row.kind = "TEXT_RETRY" THEN "FAILED"
                ELSE IF row.kind = "SENTENCE" /\ due THEN "CANCELLED"
                ELSE IF row.attempts >= MaxAttempts[row.kind] THEN "FAILED" ELSE "QUEUED")
    /\ UNCHANGED <<run, net, verdict, votes, due, withdrawn>>

\* COMPLETE_SQL, CANCEL_SQL, FAIL_SQL: of the row it owns, or of none.
Settle(g) ==
    LET j == run[g].job
        row == jobs[j]
    IN
    /\ run[g].at \in Settlements
    /\ run' = [run EXCEPT ![g].at = "ended"]
    /\ IF ~Owns(g) THEN UNCHANGED jobs
       ELSE CASE run[g].at = "complete" -> jobs' = [jobs EXCEPT ![j].status = "SUCCEEDED"]
              [] run[g].at = "cancel"   -> Close(j, "CANCELLED")
              [] run[g].at = "fail"     ->
                   \/ row.kind = "SENTENCE" /\ Close(j, "CANCELLED")
                   \/ /\ row.kind = "SENTENCE" => ~due
                      /\ Close(j, IF row.attempts >= MaxAttempts[row.kind]
                                  THEN "FAILED" ELSE "QUEUED")
    /\ UNCHANGED <<net, verdict, votes, due, withdrawn>>

-----------------------------------------------------------------------------
(* The handlers: what each answer leads to.                                *)

\* A handler's next request puts a copy of it on the net.
Asks(g, to, body, handler) ==
    /\ run' = [run EXCEPT ![g] = [handler EXCEPT !.at = to, !.body = body]]
    /\ net' = net \cup {[gen |-> g, to |-> to, body |-> body]}

Goes(g, at, handler) ==
    /\ run' = [run EXCEPT ![g] = [handler EXCEPT !.at = at, !.body = NULL]]
    /\ UNCHANGED net

\* The outcome is known; what else the handler held goes with it.
Ends(g, settlement) ==
    Goes(g, settlement, [run[g] EXCEPT !.stub = FALSE, !.fixed = NULL, !.repairs = 0])

Regenerate(g) == jobs[run[g].job].kind = "TEXT_RETRY"

\* settle_backend_error, for codes that have no override.
SettleError(g, code) == Ends(g, IF code = "STALE_GENERATION" THEN "complete" ELSE "fail")

AfterSnapshot(g, code) ==
    CASE code = "OK" ->
           IF jobs[run[g].job].kind = "JURY_VOTE" THEN Goes(g, "juror", run[g])
           ELSE Asks(g, "begin_generation", NULL, run[g])
      [] code = "NOT_FOUND" -> Ends(g, "cancel")
      [] OTHER -> SettleError(g, code)

\* The graph discards a run refused with 409; the stub lets its caller settle it.
AfterBegin(g, code) ==
    CASE code = "OK" ->
           IF run[g].stub THEN Asks(g, "generation_failed", [code |-> "no round"], run[g])
           ELSE Goes(g, "draft", [run[g] EXCEPT !.fixed = verdict.sentence])
      [] code \in {"STALE_GENERATION", "DEADLINE_EXCEEDED"} /\ ~run[g].stub ->
           Ends(g, "complete")
      [] OTHER -> SettleError(g, code)

AfterFinalize(g, code) ==
    CASE code \in {"OK", "STALE_GENERATION", "DEADLINE_EXCEEDED"} -> Ends(g, "complete")
      [] code = "EVIDENCE_INVALIDATED" ->
           Asks(g, "generation_failed", [code |-> "no round"], run[g])
      [] code = "INVALID_DRAFT" ->
           \/ /\ ~Regenerate(g) /\ run[g].repairs < Repairs
              /\ Goes(g, "draft", [run[g] EXCEPT !.repairs = @ + 1])
           \/ Asks(g, "generation_failed", [code |-> "another round"], run[g])
      [] OTHER -> SettleError(g, code)

AfterFailure(g, code) ==
    IF code = "OK" THEN Ends(g, "complete") ELSE SettleError(g, code)

\* _BACKEND_ERROR_OVERRIDES of the jury vote.
AfterVote(g, code) ==
    CASE code \in {"OK", "VOTING_CLOSED", "ALREADY_VOTED"} -> Ends(g, "complete")
      [] code = "NOT_FOUND" -> Ends(g, "cancel")
      [] code = "INVALID_REQUEST" -> Goes(g, "fail", [run[g] EXCEPT !.refused = TRUE])
      [] OTHER -> SettleError(g, code)

After(g, code) ==
    CASE run[g].at = "begin_generation"  -> AfterBegin(g, code)
      [] run[g].at = "finalize"          -> AfterFinalize(g, code)
      [] run[g].at = "generation_failed" -> AfterFailure(g, code)
      [] run[g].at = "cast_jury_vote"    -> AfterVote(g, code)

\* A handler is cut off at any await: it lost its lease, or its process stops
\* (RELEASE_SQL) or is killed.
CutOff(g) ==
    /\ run[g].at # "ended"
    /\ Ends(g, "ended")
    /\ \/ UNCHANGED jobs
       \/ /\ Owns(g)
          /\ LET j == run[g].job IN
             jobs' = [jobs EXCEPT ![j].status = "QUEUED", ![j].attempts = @ - 1,
                                  ![j].gen = NULL, ![j].leased = FALSE]
    /\ UNCHANGED <<verdict, votes, due, withdrawn>>

\* The sentencing graph between begin-generation and its last request.
Writes(g) ==
    /\ run[g].at = "draft"
    /\ \/ \E ai, valid \in BOOLEAN :
            Asks(g, "finalize",
                 [sentence |-> IF run[g].fixed = NULL THEN g ELSE run[g].fixed,
                  ai |-> ai, valid |-> valid], run[g])
       \/ \E code \in Failure : Asks(g, "generation_failed", [code |-> code], run[g])
    /\ UNCHANGED <<jobs, verdict, votes, due, withdrawn>>

AcceptsAnyVerdict(output) == output.reason = "good"

\* validate_juror_output and has_grounded_amounts
Accepts(output) == output.verdict \in Verdicts /\ output.reason = "good"

TemplateVote == [verdict |-> TemplateVerdict, reason |-> "good"]

\* call_juror: any output, or none (no key, an error, a timeout, a refusal,
\* evidence withdrawn).
JurorAnswers == Output \cup {NULL}

\* room, juror, validate: what is not accepted becomes the template.
Juror(g) ==
    /\ run[g].at = "juror"
    /\ \/ Goes(g, "complete", [run[g] EXCEPT !.skipped = TRUE])
       \/ \E output \in JurorAnswers :
            Asks(g, "cast_jury_vote",
                 IF output # NULL /\ Accepts(output) THEN output ELSE TemplateVote, run[g])
    /\ UNCHANGED <<jobs, verdict, votes, due, withdrawn>>

-----------------------------------------------------------------------------
(* BackendHttp._send: the same bytes are sent until there is an answer, up *)
(* to len(RETRY_BACKOFF_S) times again.                                    *)

\* BackendUnavailable after the last copy.
GiveUp(g) ==
    /\ run[g].at \in Requests \cup {"snapshot"}
    /\ Ends(g, "fail")
    /\ UNCHANGED <<jobs, verdict, votes, due, withdrawn>>

Awaits(m) == run[m.gen].at = m.to /\ run[m.gen].body = m.body

\* The backend has handled a copy.  Its answer arrives; or it is lost, and the
\* client sends again or gives up, or has gone already.  Another copy may be on
\* its way in any case.
Answer(m, code) ==
    \/ UNCHANGED <<run, net>>
    \/ Awaits(m) /\ After(m.gen, code)

-----------------------------------------------------------------------------
(* The backend.                                                            *)

Current(g) == jobs[run[g].job].status = "RUNNING" /\ jobs[run[g].job].gen = g

Refuse(m, code) == Answer(m, code) /\ UNCHANGED <<jobs, verdict, votes>>

\* 401, to any request; a body that does not parse ends the handler likewise.
Unauthorized(m) == Refuse(m, "UNAUTHORIZED")

\* A read: its copies change nothing.  404 is the contract's: the post is deleted.
Snapshot(g) ==
    /\ run[g].at = "snapshot"
    /\ \/ AfterSnapshot(g, IF Current(g) THEN "OK" ELSE "STALE_GENERATION")
       \/ withdrawn /\ AfterSnapshot(g, "NOT_FOUND")
       \/ AfterSnapshot(g, "UNAUTHORIZED")
    /\ UNCHANGED <<jobs, verdict, votes, due, withdrawn>>

ActiveIsValid ==
    /\ verdict.gen # NULL
    /\ LET row == jobs[verdict.job] IN
         row.status = "RUNNING" /\ row.gen = verdict.gen /\ row.leased

BeginGeneration(m) ==
    LET g == m.gen
        sameCurrent == verdict.job = run[g].job /\ verdict.gen = g
    IN
    IF \/ \E code \in Failure : <<g, code>> \in verdict.failed
       \/ ~sameCurrent /\ (~Current(g) \/ ActiveIsValid)
       \/ verdict.status = "FINAL" /\ verdict.text = "AI_READY"
    THEN Refuse(m, "STALE_GENERATION")
    ELSE IF verdict.status = "PENDING" /\ due
    THEN Refuse(m, "DEADLINE_EXCEEDED")
    ELSE /\ Answer(m, "OK")
         /\ verdict' = [verdict EXCEPT !.job = run[g].job, !.gen = g, !.began = g]
         /\ UNCHANGED <<jobs, votes>>

ScheduledAlways(again) == IF again THEN verdict.rounds + 1 ELSE verdict.rounds

\* _schedule_round
Scheduled(again) ==
    IF again /\ verdict.rounds < Rounds THEN verdict.rounds + 1 ELSE verdict.rounds

FallbackAgain(again) ==
    [verdict EXCEPT !.status = "FINAL", !.sentence = Rule, !.text = "TEMPLATE_READY",
                    !.job = 0, !.gen = NULL, !.rounds = Scheduled(again)]

\* apply_failure: the first failure fixes the fallback sentence.
Fallback(again) ==
    [verdict EXCEPT
        !.status = "FINAL",
        !.sentence = IF verdict.status = "PENDING" THEN Rule ELSE @,
        !.text = IF verdict.status = "PENDING" \/ @ = "NONE" THEN "TEMPLATE_READY" ELSE @,
        !.job = 0, !.gen = NULL,
        !.rounds = Scheduled(again)]

GenerationFailedAnyTime(m) ==
    IF <<m.gen, m.body.code>> \in verdict.failed THEN Refuse(m, "OK")
    ELSE /\ Answer(m, "OK")
         /\ verdict' = [Fallback(m.body.code = "another round") EXCEPT
                           !.failed = @ \cup {<<m.gen, m.body.code>>}]
         /\ UNCHANGED <<jobs, votes>>

GenerationFailed(m) ==
    IF <<m.gen, m.body.code>> \in verdict.failed THEN Refuse(m, "OK")
    ELSE IF verdict.gen # m.gen THEN Refuse(m, "STALE_GENERATION")
    ELSE /\ Answer(m, "OK")
         /\ verdict' = [Fallback(m.body.code = "another round") EXCEPT
                           !.failed = @ \cup {<<m.gen, m.body.code>>}]
         /\ UNCHANGED <<jobs, votes>>

Commits(g) == {d \in Draft : <<g, d>> \in verdict.committed}

\* Whether finalize closes the job in its transaction (the contract) or leaves
\* it to the handler (the fake) is open.
Saves(m) ==
    /\ Answer(m, "OK")
    /\ verdict' = [verdict EXCEPT
          !.status = "FINAL", !.sentence = m.body.sentence,
          !.text = IF m.body.ai THEN "AI_READY" ELSE "TEMPLATE_READY",
          !.version = @ + 1, !.job = 0, !.gen = NULL,
          !.committed = @ \cup {<<m.gen, m.body>>}]
    /\ \/ UNCHANGED jobs
       \/ Current(m.gen) /\ jobs' = [jobs EXCEPT ![run[m.gen].job].status = "SUCCEEDED"]
    /\ UNCHANGED votes

\* The commit record comes first.  That evidence is withdrawn is the contract's.
\* expected_text_version moves only when the active generation does.
Finalize(m) ==
    LET g == m.gen
        d == m.body
    IN
    CASE Commits(g) # {} ->
           Refuse(m, IF d \in Commits(g) THEN "OK" ELSE "IDEMPOTENCY_CONFLICT")
      [] Commits(g) = {} /\ verdict.gen # g ->
           Refuse(m, "STALE_GENERATION")
      [] OTHER ->
           \/ withdrawn /\ Refuse(m, "EVIDENCE_INVALIDATED")
           \/ /\ ~withdrawn /\ verdict.status = "PENDING" /\ due
              /\ Refuse(m, "DEADLINE_EXCEEDED")
           \/ /\ ~withdrawn /\ (verdict.status = "PENDING" => ~due)
              /\ IF ~d.valid \/ (verdict.status = "FINAL" /\ d.sentence # verdict.sentence)
                 THEN Refuse(m, "INVALID_DRAFT")
                 ELSE Saves(m)

\* The order of the checks is that of the contract.
CastJuryVote(m) ==
    IF ~(Current(m.gen) /\ jobs[run[m.gen].job].leased) THEN Refuse(m, "STALE_GENERATION")
    ELSE \/ withdrawn /\ Refuse(m, "NOT_FOUND")
         \/ Refuse(m, "NOT_AI_JUROR")
         \/ votes.closed /\ Refuse(m, "VOTING_CLOSED")
         \/ ~votes.closed /\ votes.cast # NULL /\ Refuse(m, "ALREADY_VOTED")
         \/ /\ ~votes.closed /\ votes.cast = NULL
            /\ IF m.body.verdict \notin Verdicts \/ m.body.reason \in {"blank", "long", "broken"}
               THEN Refuse(m, "INVALID_REQUEST")
               ELSE /\ Answer(m, "OK")
                    /\ votes' = [votes EXCEPT !.cast = m.body.verdict]
                    /\ UNCHANGED <<jobs, verdict>>

Handle(m) ==
    /\ \/ Unauthorized(m)
       \/ m.to = "begin_generation" /\ BeginGeneration(m)
       \/ m.to = "finalize" /\ Finalize(m)
       \/ m.to = "generation_failed" /\ GenerationFailed(m)
       \/ m.to = "cast_jury_vote" /\ CastJuryVote(m)
    /\ UNCHANGED <<due, withdrawn>>

\* run_watchdog: a verdict past its deadline gets the fallback.
Watchdog ==
    /\ jobs[1].kind = "SENTENCE" /\ verdict.status = "PENDING" /\ due
    /\ verdict' = Fallback(TRUE)
    /\ jobs' = [j \in DOMAIN jobs |->
                  IF j = verdict.job /\ jobs[j].status \in {"QUEUED", "RUNNING"}
                  THEN [jobs[j] EXCEPT !.status = "CANCELLED", !.gen = NULL, !.leased = FALSE]
                  ELSE jobs[j]]
    /\ UNCHANGED <<run, net, votes, due, withdrawn>>

InsertRetry ==
    /\ jobs[1].kind = "SENTENCE" /\ Len(jobs) - 1 < verdict.rounds
    /\ jobs' = Append(jobs, NewRow("TEXT_RETRY"))
    /\ UNCHANGED <<run, net, verdict, votes, due, withdrawn>>

\* invalidate_post: the jobs of the post are cancelled with the epochs raised.
Withdraw ==
    /\ ~withdrawn /\ withdrawn' = TRUE
    /\ jobs' = [j \in DOMAIN jobs |->
                  IF jobs[j].status \in {"QUEUED", "RUNNING"}
                  THEN [jobs[j] EXCEPT !.status = "CANCELLED", !.gen = NULL, !.leased = FALSE]
                  ELSE jobs[j]]
    /\ UNCHANGED <<run, net, verdict, votes, due>>

DeadlinePasses ==
    /\ jobs[1].kind = "SENTENCE" /\ ~due /\ due' = TRUE
    /\ UNCHANGED <<jobs, run, net, verdict, votes, withdrawn>>

VotingCloses ==
    /\ jobs[1].kind = "JURY_VOTE" /\ ~votes.closed /\ votes' = [votes EXCEPT !.closed = TRUE]
    /\ UNCHANGED <<jobs, run, net, verdict, due, withdrawn>>

-----------------------------------------------------------------------------
Next ==
    \/ \E j \in DOMAIN jobs : Claim(j) \/ LeaseExpires(j) \/ Reap(j)
    \/ \E g \in DOMAIN run :
         Settle(g) \/ CutOff(g) \/ Snapshot(g) \/ Writes(g) \/ Juror(g) \/ GiveUp(g)
    \/ \E m \in net : Handle(m)
    \/ Watchdog \/ InsertRetry \/ Withdraw \/ DeadlinePasses \/ VotingCloses

Spec == Init /\ [][Next]_vars

-----------------------------------------------------------------------------
(* Properties.                                                             *)

\* What stands stays, whatever arrives late or twice: a sentence once fixed by
\* the model, the fallback or the watchdog, texts that are all the model's, and
\* the vote that was cast first.
WhatStandsStays ==
    [][/\ verdict.status = "FINAL" => verdict'.sentence = verdict.sentence
       /\ verdict.text = "AI_READY" => verdict'.text = "AI_READY"
       /\ votes.cast # NULL => votes'.cast = votes.cast]_vars

\* Only the last generation to begin changes the texts, and each at most once:
\* copies of a finalize or of a failure that arrive after another claim began
\* find themselves stale, resent ones find their commit.
SavedOnceByTheLast ==
    [][/\ verdict'.version # verdict.version =>
            \E g \in Gen : /\ Commits(g) = {} /\ Commits(g)' # {}
                           /\ g = verdict.began
       /\ \A f \in verdict'.failed \ verdict.failed :
            f[1] = verdict.began /\ Commits(f[1]) = {}]_vars

\* A SENTENCE job that is done has its verdict fixed, or leaves it to the
\* watchdog whose time has come.
DoneIsDecided ==
    \A j \in DOMAIN jobs :
        jobs[j].kind = "SENTENCE" /\ jobs[j].status = "SUCCEEDED" =>
            verdict.status = "FINAL" \/ due

\* A JURY_VOTE job that is done has its juror's vote in the box, though perhaps
\* from another room's job, or the vote was closed or the room left out; and
\* the juror's own checks leave nothing the backend would refuse as malformed.
DoneHasVoted ==
    /\ \A g \in DOMAIN run : ~run[g].refused
    /\ \A j \in DOMAIN jobs :
          jobs[j].kind = "JURY_VOTE" /\ jobs[j].status = "SUCCEEDED" =>
            \/ votes.cast # NULL \/ votes.closed
            \/ \E g \in DOMAIN run : run[g].job = j /\ run[g].skipped
=============================================================================
