----------------------------- MODULE CaseProofs -----------------------------
(***************************************************************************)
(* What stands in a case stays, and the texts are saved once, by the last  *)
(* generation to begin: for any number of claims, repairs and retry        *)
(* rounds, and any requests lost, repeated or late.                        *)
(*                                                                         *)
(* The active generation is the last that began and has committed nothing. *)
(* That a failure never follows the commit of its own generation is a      *)
(* matter of the order of the handler's requests: it reports one only when *)
(* every finalize it has sent was refused for a reason that lasts, so no   *)
(* copy of them can commit any more.                                       *)
(*                                                                         *)
(* A job that is done has done what it is for, in the second part.         *)
(***************************************************************************)
EXTENDS Case, SequenceTheorems, TLAPS

Closed == Settlements \cup {"ended"}

\* What each request carries.
Fits(to, body) ==
    /\ to = "finalize" => body \in Draft
    /\ to = "generation_failed" => body \in [code : Failure]
    /\ to = "cast_jury_vote" => body \in Output

CopyOK(m) == m.gen \in DOMAIN run /\ Fits(m.to, m.body)

Shapes ==
    /\ Len(run) <= MaxGen /\ Len(jobs) <= Rounds + 2
    /\ \A g \in DOMAIN run : run[g].job \in DOMAIN jobs
    /\ \A j \in DOMAIN jobs : jobs[j].status = "RUNNING" => jobs[j].attempts # 0
    /\ \A m \in net : CopyOK(m)

TInv == TypeOK /\ Shapes

\* A finalize that will be refused whenever it arrives.
Dead(d) ==
    \/ withdrawn \/ ~d.valid
    \/ verdict.status = "FINAL" /\ d.sentence # verdict.sentence

AllDead(g) == \A m \in net : m.gen = g /\ m.to = "finalize" => Dead(m.body)

\* Who may still commit: the request a handler waits for, or the last one of a
\* handler that has stopped waiting.
LiveIsLast ==
    \A m \in net : m.to = "finalize" =>
        \/ Dead(m.body) \/ run[m.gen].at \in Closed
        \/ run[m.gen].at = "finalize" /\ run[m.gen].body = m.body

FailureIsLast ==
    \A m \in net : m.to = "generation_failed" =>
        /\ run[m.gen].at \in Closed \cup {"generation_failed"}
        /\ AllDead(m.gen)

CommitIsLast ==
    \A g \in Gen : Commits(g) # {} =>
        /\ g \in DOMAIN run
        /\ \A m \in net : m.gen = g => m.to # "generation_failed"
        /\ \/ run[g].at \in Closed
           \/ run[g].at = "finalize" /\ run[g].body \in Commits(g)

Order == LiveIsLast /\ FailureIsLast /\ CommitIsLast

\* Which generation is active, and what its being active says.
Standing ==
    /\ verdict.text = "AI_READY" => verdict.status = "FINAL" /\ verdict.gen = NULL
    /\ verdict.gen # NULL => verdict.gen = verdict.began

Inv == TInv /\ Order /\ Standing

-----------------------------------------------------------------------------
(* What a step of one handler does: it goes on, and asks or does not.  It   *)
(* goes on asking only while nothing it has sent can commit.                *)

Onward(g) ==
    /\ run[g].at \notin Closed \cup {"generation_failed"}
    /\ AllDead(g) /\ Commits(g) = {}

Turn(g) ==
    \E r \in Run :
        /\ r.job = run[g].job
        /\ run' = [run EXCEPT ![g] = r]
        /\ \/ r.at \notin Requests /\ net' = net
           \/ /\ r.at \in Requests /\ Fits(r.at, r.body)
              /\ net' = net \cup {[gen |-> g, to |-> r.at, body |-> r.body]}
        /\ r.at \notin Closed => Onward(g)

\* Nothing becomes committable again.
DeadLasts == \A d \in Draft : Dead(d) => Dead(d)'

LEMMA RunFacts ==
    ASSUME TInv, NEW g \in DOMAIN run
    PROVE  /\ g \in Gen /\ g \in Nat /\ g \in 1..Len(run) /\ run[g] \in Run
           /\ run \in Seq(Run) /\ Len(run) \in Nat /\ DOMAIN run = 1..Len(run)
           /\ run[g].job \in DOMAIN jobs
  <1>1. run \in Seq(Run) /\ Len(run) <= MaxGen /\ run[g].job \in DOMAIN jobs
    BY DEF TInv, TypeOK, Shapes
  <1>2. Len(run) \in Nat /\ DOMAIN run = 1..Len(run)
    BY <1>1, LenProperties
  <1>3. run[g] \in Run
    BY <1>1, <1>2, ElementOfSeq
  <1>4. g \in 1..MaxGen /\ g \in Nat
    BY <1>1, <1>2, CaseAssumption
  <1> QED
    BY <1>1, <1>2, <1>3, <1>4 DEF Gen

LEMMA EndsTurns ==
    ASSUME TInv, NEW g \in DOMAIN run, NEW settlement \in Closed, Ends(g, settlement)
    PROVE  Turn(g)
  <1> DEFINE r == [[run[g] EXCEPT !.stub = FALSE, !.fixed = NULL, !.repairs = 0]
                     EXCEPT !.at = settlement, !.body = NULL]
  <1>1. 0 \in 0..Repairs
    BY CaseAssumption
  <1>2. r \in Run /\ r.job = run[g].job /\ r.at = settlement
    BY <1>1, RunFacts DEF Run, Closed, Body
  <1>3. run' = [run EXCEPT ![g] = r] /\ net' = net
    BY DEF Ends, Goes
  <1>4. settlement \notin Requests
    BY DEF Closed, Settlements, Requests
  <1> QED
    BY <1>2, <1>3, <1>4 DEF Turn

LEMMA GoesTurns ==
    ASSUME TInv, NEW g \in DOMAIN run, NEW r \in Run, r.job = run[g].job, Onward(g),
           NEW at \in {"snapshot", "draft", "juror"}, Goes(g, at, r)
    PROVE  Turn(g)
  <1> DEFINE s == [r EXCEPT !.at = at, !.body = NULL]
  <1>1. s \in Run /\ s.job = run[g].job /\ s.at = at
    BY DEF Run, Body
  <1>2. run' = [run EXCEPT ![g] = s] /\ net' = net
    BY DEF Goes
  <1>3. at \notin Requests
    BY DEF Requests
  <1> QED
    BY <1>1, <1>2, <1>3 DEF Turn

LEMMA AsksTurns ==
    ASSUME TInv, NEW g \in DOMAIN run, NEW r \in Run, r.job = run[g].job, Onward(g),
           NEW to \in Requests, NEW body \in Body, Fits(to, body), Asks(g, to, body, r)
    PROVE  Turn(g)
  <1> DEFINE s == [r EXCEPT !.at = to, !.body = body]
  <1>1. s \in Run /\ s.job = run[g].job /\ s.at = to /\ s.body = body
    BY DEF Run
  <1>2. run' = [run EXCEPT ![g] = s] /\ net' = net \cup {[gen |-> g, to |-> to, body |-> body]}
    BY DEF Asks
  <1> QED
    BY <1>1, <1>2 DEF Turn

LEMMA SettleErrorTurns ==
    ASSUME TInv, NEW g \in DOMAIN run, NEW code, SettleError(g, code)
    PROVE  Turn(g)
  BY EndsTurns DEF SettleError, Closed, Settlements

LEMMA FailureBody ==
    ASSUME NEW code \in Failure
    PROVE  [code |-> code] \in Body /\ Fits("generation_failed", [code |-> code])
  BY DEF Body, Fits

\* A handler that was refused a finalize goes on only if the refusal lasts.
LEMMA AfterTurns ==
    ASSUME TInv, Order, NEW g \in DOMAIN run, run[g].at \in Requests, NEW code, After(g, code),
           run[g].at = "finalize" /\ code \in {"INVALID_DRAFT", "EVIDENCE_INVALIDATED"} =>
                Dead(run[g].body) /\ Commits(g) = {}
    PROVE  Turn(g)
  <1>1. run[g] \in Run /\ g \in Gen
    BY RunFacts
  <1>2. \A m \in net : m.gen = g /\ m.to = "finalize" =>
           Dead(m.body) \/ (run[g].at = "finalize" /\ run[g].body = m.body)
    BY DEF Order, LiveIsLast, Closed, Settlements, Requests
  <1>3. run[g].at # "finalize" => AllDead(g) /\ Commits(g) = {}
    <2>1. run[g].at # "finalize" => AllDead(g)
      BY <1>2 DEF AllDead
    <2>2. run[g].at # "finalize" => Commits(g) = {}
      BY <1>1 DEF Order, CommitIsLast, Closed, Settlements, Requests
    <2> QED
      BY <2>1, <2>2
  <1>4. "no round" \in Failure /\ "another round" \in Failure
    BY DEF Failure
  <1>5. "generation_failed" \in Requests
    BY DEF Requests
  <1>6. CASE run[g].at = "begin_generation"
    <2>1. Onward(g)
      BY <1>3, <1>6 DEF Onward, Closed, Settlements
    <2>2. AfterBegin(g, code)
      BY <1>6 DEF After
    <2>3. CASE Asks(g, "generation_failed", [code |-> "no round"], run[g])
      BY <1>1, <1>4, <1>5, <2>1, <2>3, FailureBody, AsksTurns
    <2>4. CASE Goes(g, "draft", [run[g] EXCEPT !.fixed = verdict.sentence])
      <3>1. verdict.sentence \in Sentence \cup {NULL}
        BY DEF TInv, TypeOK, VerdictState
      <3>2. [run[g] EXCEPT !.fixed = verdict.sentence] \in Run
        BY <1>1, <3>1 DEF Run
      <3> QED
        BY <1>1, <2>1, <2>4, <3>2, GoesTurns DEF Run
    <2>5. CASE Ends(g, "complete")
      BY <2>5, EndsTurns DEF Closed, Settlements
    <2>6. CASE SettleError(g, code)
      BY <2>6, SettleErrorTurns
    <2> QED
      BY <2>2, <2>3, <2>4, <2>5, <2>6 DEF AfterBegin
  <1>7. CASE run[g].at = "finalize"
    <2>1. AfterFinalize(g, code)
      BY <1>7 DEF After
    <2>2. code \in {"INVALID_DRAFT", "EVIDENCE_INVALIDATED"} => Onward(g)
      <3>1. code \in {"INVALID_DRAFT", "EVIDENCE_INVALIDATED"} => AllDead(g)
        BY <1>2, <1>7 DEF AllDead
      <3> QED
        BY <1>7, <3>1 DEF Onward, Closed, Settlements
    <2>3. CASE code \in {"OK", "STALE_GENERATION", "DEADLINE_EXCEEDED"}
      <3>1. Ends(g, "complete")
        BY <2>1, <2>3 DEF AfterFinalize
      <3> QED
        BY <3>1, EndsTurns DEF Closed, Settlements
    <2>4. CASE code = "EVIDENCE_INVALIDATED"
      <3>1. Asks(g, "generation_failed", [code |-> "no round"], run[g])
        BY <2>1, <2>4 DEF AfterFinalize
      <3> QED
        BY <1>1, <1>4, <1>5, <2>2, <2>4, <3>1, FailureBody, AsksTurns
    <2>5. CASE code = "INVALID_DRAFT"
      <3>1. CASE /\ run[g].repairs < Repairs
                 /\ Goes(g, "draft", [run[g] EXCEPT !.repairs = @ + 1])
        <4>1. run[g].repairs + 1 \in 0..Repairs
          BY <1>1, <3>1, CaseAssumption DEF Run
        <4>2. [run[g] EXCEPT !.repairs = @ + 1] \in Run
          BY <1>1, <4>1 DEF Run
        <4> QED
          BY <1>1, <2>2, <2>5, <3>1, <4>2, GoesTurns DEF Run
      <3>2. CASE Asks(g, "generation_failed", [code |-> "another round"], run[g])
        BY <1>1, <1>4, <1>5, <2>2, <2>5, <3>2, FailureBody, AsksTurns
      <3> QED
        BY <2>1, <2>5, <3>1, <3>2 DEF AfterFinalize
    <2>6. CASE code \notin {"OK", "STALE_GENERATION", "DEADLINE_EXCEEDED",
                           "EVIDENCE_INVALIDATED", "INVALID_DRAFT"}
      <3>1. SettleError(g, code)
        BY <2>1, <2>6 DEF AfterFinalize
      <3> QED
        BY <3>1, SettleErrorTurns
    <2> QED
      BY <2>3, <2>4, <2>5, <2>6
  <1>8. CASE run[g].at = "generation_failed"
    <2>1. AfterFailure(g, code)
      BY <1>8 DEF After
    <2> QED
      BY <2>1, EndsTurns, SettleErrorTurns DEF AfterFailure, Closed, Settlements
  <1>9. CASE run[g].at = "cast_jury_vote"
    <2>1. AfterVote(g, code)
      BY <1>9 DEF After
    <2>2. CASE Goes(g, "fail", [run[g] EXCEPT !.refused = TRUE])
      <3> DEFINE r == [[run[g] EXCEPT !.refused = TRUE] EXCEPT !.at = "fail", !.body = NULL]
      <3>1. r \in Run /\ r.job = run[g].job /\ r.at = "fail"
        BY <1>1 DEF Run, Settlements, Body
      <3>2. run' = [run EXCEPT ![g] = r] /\ net' = net
        BY <2>2 DEF Goes
      <3> QED
        BY <3>1, <3>2 DEF Turn, Closed, Settlements, Requests
    <2>3. CASE Ends(g, "complete") \/ Ends(g, "cancel") \/ SettleError(g, code)
      BY <2>3, EndsTurns, SettleErrorTurns DEF Closed, Settlements
    <2> QED
      BY <2>1, <2>2, <2>3 DEF AfterVote
  <1> QED
    BY <1>6, <1>7, <1>8, <1>9 DEF Requests

\* Runs and copies keep their shape.
RunNet ==
    /\ run' \in Seq(Run) /\ Len(run') <= MaxGen
    /\ \A h \in DOMAIN run' : run'[h].job \in DOMAIN jobs
    /\ net' \subseteq Copy
    /\ \A m \in net' : m.gen \in DOMAIN run' /\ Fits(m.to, m.body)

LEMMA TurnTypes ==
    ASSUME TInv, NEW g \in DOMAIN run, Turn(g)
    PROVE  RunNet /\ DOMAIN run' = DOMAIN run
  <1>1. PICK r \in Run :
          /\ r.job = run[g].job
          /\ run' = [run EXCEPT ![g] = r]
          /\ \/ r.at \notin Requests /\ net' = net
             \/ /\ r.at \in Requests /\ Fits(r.at, r.body)
                /\ net' = net \cup {[gen |-> g, to |-> r.at, body |-> r.body]}
    BY DEF Turn
  <1>2. run' \in Seq(Run) /\ Len(run') = Len(run) /\ DOMAIN run' = DOMAIN run
    BY <1>1, RunFacts, ExceptSeq, LenProperties
  <1>3. \A h \in DOMAIN run : run'[h].job \in DOMAIN jobs
    BY <1>1, RunFacts
  <1>4. net \subseteq Copy /\ \A m \in net : m.gen \in DOMAIN run /\ Fits(m.to, m.body)
    BY DEF TInv, TypeOK, Shapes, CopyOK
  <1>5. r.at \in Requests => [gen |-> g, to |-> r.at, body |-> r.body] \in Copy
    BY RunFacts DEF Copy, Run
  <1>6. net' \subseteq Copy /\ \A m \in net' : m.gen \in DOMAIN run /\ Fits(m.to, m.body)
    BY <1>1, <1>4, <1>5
  <1> QED
    BY <1>2, <1>3, <1>6 DEF RunNet, TInv, Shapes

LEMMA StillTypes ==
    ASSUME TInv, UNCHANGED <<run, net>>
    PROVE  RunNet
  BY DEF TInv, TypeOK, Shapes, CopyOK, RunNet

LEMMA CopyFacts ==
    ASSUME TInv, NEW m \in net
    PROVE  /\ m \in Copy /\ m.gen \in DOMAIN run /\ Fits(m.to, m.body)
           /\ m.to = "finalize" => m.body \in Draft
  BY DEF TInv, TypeOK, Shapes, CopyOK, Fits

LEMMA StillOrder ==
    ASSUME TInv, Order, UNCHANGED <<run, net>>, DeadLasts
    PROVE  /\ LiveIsLast' /\ FailureIsLast'
           /\ verdict'.committed = verdict.committed => Order'
  <1>1. LiveIsLast' /\ FailureIsLast'
    BY CopyFacts DEF Order, LiveIsLast, FailureIsLast, AllDead, DeadLasts
  <1>2. verdict'.committed = verdict.committed => CommitIsLast'
    BY DEF Order, CommitIsLast, Commits
  <1> QED
    BY <1>1, <1>2 DEF Order

LEMMA TurnOrder ==
    ASSUME TInv, Order, NEW g \in DOMAIN run, Turn(g), DeadLasts
    PROVE  /\ LiveIsLast' /\ FailureIsLast'
           /\ verdict'.committed = verdict.committed => Order'
  <1>1. PICK r \in Run :
          /\ run' = [run EXCEPT ![g] = r]
          /\ \/ r.at \notin Requests /\ net' = net
             \/ /\ r.at \in Requests
                /\ net' = net \cup {[gen |-> g, to |-> r.at, body |-> r.body]}
          /\ r.at \notin Closed => Onward(g)
    BY DEF Turn
  <1>2. /\ g \in Gen /\ DOMAIN run' = DOMAIN run /\ run'[g] = r
        /\ \A h \in DOMAIN run \ {g} : run'[h] = run[h]
    BY <1>1, RunFacts
  <1>3. \A m \in net' : m \in net \/ (m.gen = g /\ m.to = r.at /\ m.body = r.body)
    BY <1>1
  <1>4. r.at \in Closed => net' = net
    BY <1>1 DEF Closed, Settlements, Requests
  <1>5. LiveIsLast'
    <2> SUFFICES ASSUME NEW m \in net', m.to = "finalize"
                 PROVE  \/ Dead(m.body)' \/ run'[m.gen].at \in Closed
                        \/ run'[m.gen].at = "finalize" /\ run'[m.gen].body = m.body
      BY DEF LiveIsLast
    <2>1. CASE m \in net /\ m.gen # g
      BY <1>2, <2>1, CopyFacts DEF Order, LiveIsLast, DeadLasts
    <2>2. CASE m \in net /\ m.gen = g
      BY <1>1, <1>2, <2>2, CopyFacts DEF Onward, AllDead, DeadLasts
    <2>3. CASE m.gen = g /\ m.to = r.at /\ m.body = r.body
      BY <1>2, <2>3
    <2> QED
      BY <1>3, <2>1, <2>2, <2>3
  <1>6. FailureIsLast'
    <2> SUFFICES ASSUME NEW m \in net', m.to = "generation_failed"
                 PROVE  /\ run'[m.gen].at \in Closed \cup {"generation_failed"}
                        /\ AllDead(m.gen)'
      BY DEF FailureIsLast
    <2>1. CASE m \in net /\ m.gen # g
      BY <1>2, <1>3, <2>1, CopyFacts DEF Order, FailureIsLast, AllDead, DeadLasts
    <2>2. CASE m \in net /\ m.gen = g
      <3>1. r.at \in Closed
        BY <1>1, <2>2 DEF Order, FailureIsLast, Onward
      <3> QED
        BY <1>2, <1>4, <2>2, <3>1, CopyFacts DEF Order, FailureIsLast, AllDead, DeadLasts
    <2>3. CASE m.gen = g /\ m.to = r.at /\ m.body = r.body
      <3>1. AllDead(g)
        BY <1>1, <2>3 DEF Onward, Closed, Settlements
      <3> QED
        BY <1>2, <1>3, <2>3, <3>1, CopyFacts DEF AllDead, DeadLasts
    <2> QED
      BY <1>3, <2>1, <2>2, <2>3
  <1>7. ASSUME verdict'.committed = verdict.committed PROVE CommitIsLast'
    <2> SUFFICES ASSUME NEW h \in Gen, Commits(h)' # {}
                 PROVE  /\ h \in DOMAIN run'
                        /\ \A m \in net' : m.gen = h => m.to # "generation_failed"
                        /\ \/ run'[h].at \in Closed
                           \/ run'[h].at = "finalize" /\ run'[h].body \in Commits(h)'
      BY DEF CommitIsLast
    <2>1. Commits(h)' = Commits(h)
      BY <1>7 DEF Commits
    <2>2. /\ h \in DOMAIN run
          /\ \A m \in net : m.gen = h => m.to # "generation_failed"
          /\ \/ run[h].at \in Closed
             \/ run[h].at = "finalize" /\ run[h].body \in Commits(h)
      BY <2>1 DEF Order, CommitIsLast
    <2>3. CASE h # g
      BY <1>2, <1>3, <2>1, <2>2, <2>3
    <2>4. CASE h = g
      <3>1. r.at \in Closed
        BY <1>1, <2>1, <2>4 DEF Onward
      <3> QED
        BY <1>2, <1>4, <2>2, <2>4, <3>1
    <2> QED
      BY <2>3, <2>4
  <1> QED
    BY <1>5, <1>6, <1>7 DEF Order

\* An answer is taken by the handler that waits for it, or by nobody.
LEMMA AnswerTurns ==
    ASSUME TInv, Order, NEW m \in net, NEW code, Answer(m, code),
           m.to = "finalize" /\ code \in {"INVALID_DRAFT", "EVIDENCE_INVALIDATED"} =>
                Dead(m.body) /\ Commits(m.gen) = {}
    PROVE  UNCHANGED <<run, net>> \/ Turn(m.gen)
  <1>1. m \in Copy /\ m.gen \in DOMAIN run
    BY CopyFacts
  <1>2. CASE Awaits(m) /\ After(m.gen, code)
    BY <1>1, <1>2, AfterTurns DEF Awaits, Copy
  <1> QED
    BY <1>2 DEF Answer

LEMMA AnswerKeeps ==
    ASSUME TInv, Order, NEW m \in net, NEW code, Answer(m, code), DeadLasts,
           m.to = "finalize" /\ code \in {"INVALID_DRAFT", "EVIDENCE_INVALIDATED"} =>
                Dead(m.body) /\ Commits(m.gen) = {}
    PROVE  /\ RunNet /\ LiveIsLast' /\ FailureIsLast'
           /\ verdict'.committed = verdict.committed => Order'
  BY AnswerTurns, CopyFacts, StillTypes, TurnTypes, StillOrder, TurnOrder

-----------------------------------------------------------------------------
(* Rows.                                                                   *)

JobsKept ==
    /\ jobs' \in Seq(Row) /\ Len(jobs') <= Rounds + 2
    /\ DOMAIN jobs \subseteq DOMAIN jobs'
    /\ \A j \in DOMAIN jobs' : jobs'[j].status = "RUNNING" => jobs'[j].attempts # 0

LEMMA JobFacts ==
    ASSUME TInv
    PROVE  /\ jobs \in Seq(Row) /\ Len(jobs) \in Nat /\ Len(jobs) <= Rounds + 2
           /\ DOMAIN jobs = 1..Len(jobs)
           /\ \A j \in DOMAIN jobs :
                 jobs[j] \in Row /\ (jobs[j].status = "RUNNING" => jobs[j].attempts # 0)
  <1>1. jobs \in Seq(Row)
    BY DEF TInv, TypeOK
  <1>2. Len(jobs) \in Nat /\ DOMAIN jobs = 1..Len(jobs)
    BY <1>1, LenProperties
  <1> QED
    BY <1>1, <1>2, ElementOfSeq DEF TInv, Shapes

LEMMA SameKept == ASSUME TInv, UNCHANGED jobs PROVE JobsKept
  BY JobFacts DEF JobsKept

LEMMA RowKept ==
    ASSUME TInv, NEW j \in DOMAIN jobs, NEW r \in Row,
           r.status = "RUNNING" => r.attempts # 0, jobs' = [jobs EXCEPT ![j] = r]
    PROVE  JobsKept
  <1>1. jobs' \in Seq(Row) /\ Len(jobs') = Len(jobs)
    BY JobFacts, ExceptSeq
  <1>2. \A i \in DOMAIN jobs : jobs'[i] = IF i = j THEN r ELSE jobs[i]
    BY JobFacts
  <1>3. DOMAIN jobs' = DOMAIN jobs
    BY JobFacts
  <1> QED
    BY <1>1, <1>2, <1>3, JobFacts DEF JobsKept

LEMMA RowsKept ==
    ASSUME TInv, jobs' = [j \in DOMAIN jobs |-> jobs'[j]],
           \A j \in DOMAIN jobs :
              jobs'[j] \in Row /\ (jobs'[j].status = "RUNNING" => jobs'[j].attempts # 0)
    PROVE  JobsKept
  <1>1. jobs' = [j \in 1..Len(jobs) |-> jobs'[j]] /\ Len(jobs) \in Nat
    BY JobFacts
  <1>2. jobs' \in [1..Len(jobs) -> Row]
    BY <1>1, JobFacts
  <1>3. jobs' \in Seq(Row) /\ Len(jobs') = Len(jobs) /\ DOMAIN jobs' = DOMAIN jobs
    BY <1>1, <1>2, JobFacts
  <1> QED
    BY <1>3, JobFacts DEF JobsKept

LEMMA CloseKept ==
    ASSUME TInv, NEW j \in DOMAIN jobs,
           NEW status \in {"QUEUED", "SUCCEEDED", "FAILED", "CANCELLED"}, Close(j, status)
    PROVE  JobsKept
  <1> DEFINE r == [jobs[j] EXCEPT !.status = status, !.gen = NULL, !.leased = FALSE]
  <1>1. r \in Row /\ r.status # "RUNNING"
    BY JobFacts DEF Row
  <1>2. jobs' = [jobs EXCEPT ![j] = r]
    BY JobFacts DEF Close, Row
  <1> QED
    BY <1>1, <1>2, RowKept

-----------------------------------------------------------------------------
(* The verdict and the votes.                                              *)

\* WhatStandsStays and SavedOnceByTheLast, of one step.
StandsHere ==
    /\ verdict.status = "FINAL" => verdict'.sentence = verdict.sentence
    /\ verdict.text = "AI_READY" => verdict'.text = "AI_READY"
    /\ votes.cast # NULL => votes'.cast = votes.cast

SavedHere ==
    /\ verdict'.version # verdict.version =>
         \E g \in Gen : /\ Commits(g) = {} /\ Commits(g)' # {}
                        /\ g = verdict.began
    /\ \A f \in verdict'.failed \ verdict.failed :
         f[1] = verdict.began /\ Commits(f[1]) = {}

\* What a step leaves in the backend.
Kept ==
    /\ verdict' \in VerdictState /\ Standing' /\ DeadLasts
    /\ votes' \in [cast : Verdicts \cup {NULL}, closed : BOOLEAN]
    /\ StandsHere /\ SavedHere

LEMMA SameVerdict ==
    ASSUME Inv, UNCHANGED verdict, withdrawn => withdrawn',
           votes' \in [cast : Verdicts \cup {NULL}, closed : BOOLEAN],
           votes.cast # NULL => votes'.cast = votes.cast
    PROVE  Kept /\ verdict'.committed = verdict.committed
  <1>1. verdict' \in VerdictState /\ Standing'
    BY DEF Inv, TInv, TypeOK, Standing
  <1>2. DeadLasts
    BY DEF DeadLasts, Dead
  <1> QED
    BY <1>1, <1>2 DEF Kept, StandsHere, SavedHere

LEMMA BeginVerdict ==
    ASSUME Inv, NEW g \in DOMAIN run, UNCHANGED <<votes, withdrawn>>,
           ~(verdict.status = "FINAL" /\ verdict.text = "AI_READY"),
           verdict' = [verdict EXCEPT !.job = run[g].job, !.gen = g, !.began = g]
    PROVE  Kept /\ verdict'.committed = verdict.committed
  <1>1. g \in Gen /\ run[g].job \in Nat /\ g \in 0..MaxGen
    BY RunFacts, JobFacts, CaseAssumption DEF Inv, Gen
  <1>2. verdict \in VerdictState
    BY DEF Inv, TInv, TypeOK
  <1>3. verdict' \in VerdictState
    BY <1>1, <1>2 DEF VerdictState
  <1>4. Standing'
    BY <1>2 DEF VerdictState, Inv, Standing
  <1>5. DeadLasts
    BY <1>2 DEF VerdictState, DeadLasts, Dead
  <1>6. StandsHere /\ SavedHere
    BY <1>2 DEF VerdictState, StandsHere, SavedHere
  <1>7. verdict'.committed = verdict.committed
    BY <1>2 DEF VerdictState
  <1> QED
    BY <1>3, <1>4, <1>5, <1>6, <1>7 DEF Kept, Inv, TInv, TypeOK

LEMMA FallbackFacts ==
    ASSUME verdict \in VerdictState, NEW again \in BOOLEAN
    PROVE  /\ Fallback(again) \in VerdictState
           /\ Fallback(again).status = "FINAL" /\ Fallback(again).gen = NULL
           /\ verdict.status = "FINAL" => Fallback(again).sentence = verdict.sentence
           /\ Fallback(again).text = "AI_READY" <=>
                verdict.status = "FINAL" /\ verdict.text = "AI_READY"
           /\ Fallback(again).version = verdict.version
           /\ Fallback(again).failed = verdict.failed
           /\ Fallback(again).committed = verdict.committed
  <1>1. Scheduled(again) \in 0..Rounds
    BY CaseAssumption DEF Scheduled, VerdictState
  <1>2. Rule \in Sentence
    BY DEF Sentence
  <1> QED
    BY <1>1, <1>2 DEF Fallback, VerdictState

LEMMA FallbackVerdict ==
    ASSUME Inv, NEW again \in BOOLEAN, NEW failed \in SUBSET (Gen \X Failure),
           verdict' = [Fallback(again) EXCEPT !.failed = failed],
           UNCHANGED <<votes, withdrawn>>,
           \A f \in failed \ verdict.failed : f[1] = verdict.began /\ Commits(f[1]) = {},
           verdict.gen # NULL \/ verdict.status = "PENDING"
    PROVE  Kept /\ verdict'.committed = verdict.committed
  <1>1. verdict \in VerdictState
    BY DEF Inv, TInv, TypeOK
  <1>2. /\ verdict' \in VerdictState
        /\ verdict'.status = "FINAL" /\ verdict'.gen = NULL
        /\ verdict.status = "FINAL" => verdict'.sentence = verdict.sentence
        /\ verdict'.text = "AI_READY" <=> verdict.status = "FINAL" /\ verdict.text = "AI_READY"
        /\ verdict'.version = verdict.version /\ verdict'.failed = failed
        /\ verdict'.committed = verdict.committed
    BY <1>1, FallbackFacts DEF VerdictState
  <1>3. Standing'
    BY <1>2 DEF Standing
  <1>4. DeadLasts
    BY <1>2 DEF DeadLasts, Dead
  <1>5. StandsHere /\ SavedHere
    BY <1>2 DEF Inv, Standing, StandsHere, SavedHere
  <1> QED
    BY <1>2, <1>3, <1>4, <1>5 DEF Kept, Inv, TInv, TypeOK

LEMMA SavedType ==
    ASSUME NEW v \in VerdictState, NEW sentence \in Sentence,
           NEW text \in {"TEMPLATE_READY", "AI_READY"},
           NEW committed \in SUBSET (Gen \X Draft)
    PROVE  [v EXCEPT !.status = "FINAL", !.sentence = sentence, !.text = text,
                     !.version = @ + 1, !.job = 0, !.gen = NULL,
                     !.committed = committed] \in VerdictState
  <1> DEFINE n == v.version + 1
  <1>1. n \in Nat /\ v.version + 1 = n
    BY DEF VerdictState
  <1> HIDE DEF n
  <1>2. [v EXCEPT !.version = n] \in VerdictState
    BY <1>1 DEF VerdictState
  <1>3. \A w \in VerdictState : [w EXCEPT !.status = "FINAL"] \in VerdictState
    BY DEF VerdictState
  <1>4. \A w \in VerdictState : [w EXCEPT !.sentence = sentence] \in VerdictState
    BY DEF VerdictState
  <1>5. \A w \in VerdictState : [w EXCEPT !.text = text] \in VerdictState
    BY DEF VerdictState
  <1>6. \A w \in VerdictState : [w EXCEPT !.job = 0] \in VerdictState
    BY DEF VerdictState
  <1>7. \A w \in VerdictState : [w EXCEPT !.gen = NULL] \in VerdictState
    BY DEF VerdictState
  <1>8. \A w \in VerdictState : [w EXCEPT !.committed = committed] \in VerdictState
    BY DEF VerdictState
  <1>9. [[[[[[[v EXCEPT !.version = n] EXCEPT !.status = "FINAL"] EXCEPT !.sentence = sentence]
             EXCEPT !.text = text] EXCEPT !.job = 0] EXCEPT !.gen = NULL]
           EXCEPT !.committed = committed] \in VerdictState
    BY <1>2, <1>3, <1>4, <1>5, <1>6, <1>7, <1>8
  <1> QED
    BY <1>1, <1>9

LEMMA SavesVerdict ==
    ASSUME Inv, NEW m \in net, m.to = "finalize", Saves(m), UNCHANGED withdrawn,
           Commits(m.gen) = {}, verdict.gen = m.gen,
           ~(verdict.status = "FINAL" /\ m.body.sentence # verdict.sentence)
    PROVE  Kept
  <1>1. m.gen \in Gen /\ m.body \in Draft
    BY CopyFacts DEF Inv, Copy
  <1>2. verdict \in VerdictState /\ verdict.gen # NULL
    BY <1>1, CaseAssumption DEF Inv, TInv, TypeOK
  <1>3. /\ verdict' = [verdict EXCEPT
             !.status = "FINAL", !.sentence = m.body.sentence,
             !.text = IF m.body.ai THEN "AI_READY" ELSE "TEMPLATE_READY",
             !.version = @ + 1, !.job = 0, !.gen = NULL,
             !.committed = @ \cup {<<m.gen, m.body>>}]
        /\ UNCHANGED votes
    BY DEF Saves
  <1>4. verdict' \in VerdictState
    <2>1. m.body.sentence \in Sentence
      BY <1>1 DEF Draft
    <2>2. verdict.committed \cup {<<m.gen, m.body>>} \in SUBSET (Gen \X Draft)
      BY <1>1, <1>2 DEF VerdictState
    <2> QED
      BY <1>2, <1>3, <2>1, <2>2, SavedType
  <1>5. /\ verdict'.status = "FINAL" /\ verdict'.gen = NULL
        /\ verdict'.sentence = m.body.sentence /\ verdict'.failed = verdict.failed
        /\ verdict'.committed = verdict.committed \cup {<<m.gen, m.body>>}
    BY <1>2, <1>3 DEF VerdictState
  <1>6. Standing'
    BY <1>5 DEF Standing
  <1>7. DeadLasts
    BY <1>5 DEF DeadLasts, Dead
  <1>8. StandsHere
    BY <1>2, <1>3, <1>5 DEF Inv, Standing, StandsHere
  <1>9. SavedHere
    <2>1. m.body \in Commits(m.gen)'
      BY <1>1, <1>5 DEF Commits
    <2>2. m.gen = verdict.began
      BY <1>2 DEF Inv, Standing
    <2> QED
      BY <1>1, <1>5, <2>1, <2>2 DEF SavedHere
  <1> QED
    BY <1>3, <1>4, <1>6, <1>7, <1>8, <1>9 DEF Kept, Inv, TInv, TypeOK

-----------------------------------------------------------------------------
(* The requests.                                                           *)

Step == RunNet /\ Order' /\ JobsKept /\ Kept

LEMMA RefuseSteps ==
    ASSUME Inv, NEW m \in net, NEW code, Refuse(m, code), UNCHANGED withdrawn,
           m.to = "finalize" /\ code \in {"INVALID_DRAFT", "EVIDENCE_INVALIDATED"} =>
                Dead(m.body) /\ Commits(m.gen) = {}
    PROVE  Step
  <1>1. Kept /\ verdict'.committed = verdict.committed
    BY SameVerdict DEF Refuse, Inv, TInv, TypeOK
  <1>2. RunNet /\ Order'
    BY <1>1, AnswerKeeps DEF Refuse, Inv, Kept
  <1>3. JobsKept
    BY SameKept DEF Refuse, Inv
  <1> QED
    BY <1>1, <1>2, <1>3 DEF Step

LEMMA BeginSteps ==
    ASSUME Inv, NEW m \in net, m.to = "begin_generation", BeginGeneration(m), UNCHANGED withdrawn
    PROVE  Step
  <1>1. CASE Refuse(m, "STALE_GENERATION") \/ Refuse(m, "DEADLINE_EXCEEDED")
    BY <1>1, RefuseSteps
  <1>2. CASE /\ Answer(m, "OK")
             /\ ~(verdict.status = "FINAL" /\ verdict.text = "AI_READY")
             /\ verdict' = [verdict EXCEPT !.job = run[m.gen].job, !.gen = m.gen, !.began = m.gen]
             /\ UNCHANGED <<jobs, votes>>
    <2>1. Kept /\ verdict'.committed = verdict.committed
      BY <1>2, BeginVerdict, CopyFacts DEF Inv
    <2> QED
      BY <1>2, <2>1, AnswerKeeps, SameKept DEF Step, Inv, Kept
  <1> QED
    BY <1>1, <1>2 DEF BeginGeneration

LEMMA FailedSteps ==
    ASSUME Inv, NEW m \in net, m.to = "generation_failed", GenerationFailed(m),
           UNCHANGED withdrawn
    PROVE  Step
  <1>1. CASE Refuse(m, "OK") \/ Refuse(m, "STALE_GENERATION")
    BY <1>1, RefuseSteps
  <1>2. CASE /\ Answer(m, "OK") /\ verdict.gen = m.gen
             /\ verdict' = [Fallback(m.body.code = "another round") EXCEPT
                              !.failed = @ \cup {<<m.gen, m.body.code>>}]
             /\ UNCHANGED <<jobs, votes>>
    <2> DEFINE failed == verdict.failed \cup {<<m.gen, m.body.code>>}
    <2>1. m.gen \in Gen /\ m.body \in [code : Failure] /\ verdict \in VerdictState
      BY CopyFacts DEF Inv, TInv, TypeOK, Copy, Fits
    <2>2. failed \in SUBSET (Gen \X Failure) /\ (m.body.code = "another round") \in BOOLEAN
      BY <2>1 DEF VerdictState
    <2>3. verdict' = [Fallback(m.body.code = "another round") EXCEPT !.failed = failed]
      BY <1>2, <2>1, <2>2, FallbackFacts
    <2>4. m.gen = verdict.began /\ verdict.gen # NULL
      BY <1>2, <2>1, CaseAssumption DEF Inv, Standing
    <2>5. Commits(m.gen) = {}
      BY <2>1 DEF Inv, Order, CommitIsLast
    <2>6. \A f \in failed \ verdict.failed : f[1] = verdict.began /\ Commits(f[1]) = {}
      BY <2>4, <2>5
    <2>7. Kept /\ verdict'.committed = verdict.committed
      BY <1>2, <2>2, <2>3, <2>4, <2>6, FallbackVerdict
    <2> QED
      BY <1>2, <2>7, AnswerKeeps, SameKept DEF Step, Inv, Kept
  <1> QED
    BY <1>1, <1>2 DEF GenerationFailed

LEMMA SavesSteps ==
    ASSUME Inv, NEW m \in net, m.to = "finalize", Saves(m), UNCHANGED withdrawn,
           Commits(m.gen) = {}, verdict.gen = m.gen, ~Dead(m.body)
    PROVE  Step
  <1> DEFINE g == m.gen
  <1>1. g \in Gen /\ g \in DOMAIN run /\ m.body \in Draft /\ verdict \in VerdictState
    BY CopyFacts DEF Inv, TInv, TypeOK, Copy
  <1>2. Kept
    BY SavesVerdict DEF Dead
  <1>3. Answer(m, "OK") /\ verdict'.committed = verdict.committed \cup {<<g, m.body>>}
    BY <1>1 DEF Saves, VerdictState
  <1>4. RunNet /\ LiveIsLast' /\ FailureIsLast'
    BY <1>2, <1>3, AnswerKeeps DEF Inv, Kept
  <1>5. JobsKept
    <2>1. CASE UNCHANGED jobs
      BY <2>1, SameKept DEF Inv
    <2>2. CASE jobs' = [jobs EXCEPT ![run[g].job].status = "SUCCEEDED"]
      <3> DEFINE row == [jobs[run[g].job] EXCEPT !.status = "SUCCEEDED"]
      <3>1. run[g].job \in DOMAIN jobs
        BY <1>1, RunFacts DEF Inv
      <3>2. row \in Row /\ row.status # "RUNNING"
        <4>1. jobs[run[g].job] \in Row
          BY <3>1, JobFacts DEF Inv
        <4> QED
          BY <4>1 DEF Row
      <3>3. jobs' = [jobs EXCEPT ![run[g].job] = row]
        BY <2>2, <3>1, JobFacts DEF Inv, Row
      <3> QED
        BY <3>1, <3>2, <3>3, RowKept DEF Inv
    <2> QED
      BY <2>1, <2>2 DEF Saves
  <1>6. CommitIsLast'
    <2>1. /\ \A k \in net : k.gen = g => k.to # "generation_failed"
          /\ \/ run[g].at \in Closed
             \/ run[g].at = "finalize" /\ run[g].body = m.body
      BY DEF Inv, Order, LiveIsLast, FailureIsLast, AllDead
    <2>2. \/ UNCHANGED <<run, net>>
          \/ Ends(g, "complete")
      <3>1. Awaits(m) /\ After(g, "OK") => AfterFinalize(g, "OK")
        BY DEF Awaits, After
      <3> QED
        BY <1>3, <3>1 DEF Answer, AfterFinalize
    <2>3. /\ net' = net /\ DOMAIN run' = DOMAIN run
          /\ \A h \in DOMAIN run \ {g} : run'[h] = run[h]
          /\ run'[g] = run[g] \/ run'[g].at \in Closed
      <3>1. CASE Ends(g, "complete")
        <4>1. run[g] \in Run
          BY <1>1, RunFacts DEF Inv
        <4>2. DOMAIN run' = DOMAIN run
          BY <1>1, <3>1, EndsTurns, TurnTypes DEF Inv, Closed, Settlements
        <4> QED
          BY <1>1, <3>1, <4>1, <4>2 DEF Ends, Goes, Run, Closed, Settlements
      <3> QED
        BY <2>2, <3>1
    <2> SUFFICES ASSUME NEW h \in Gen, Commits(h)' # {}
                 PROVE  /\ h \in DOMAIN run'
                        /\ \A k \in net' : k.gen = h => k.to # "generation_failed"
                        /\ \/ run'[h].at \in Closed
                           \/ run'[h].at = "finalize" /\ run'[h].body \in Commits(h)'
      BY DEF CommitIsLast
    <2>4. CASE h = g
      <3>1. m.body \in Commits(g)'
        BY <1>1, <1>3 DEF Commits
      <3> QED
        BY <1>1, <2>1, <2>3, <2>4, <3>1
    <2>5. CASE h # g
      <3>1. Commits(h)' = Commits(h)
        BY <1>3, <2>5 DEF Commits
      <3> QED
        BY <2>3, <2>5, <3>1 DEF Inv, Order, CommitIsLast
    <2> QED
      BY <2>4, <2>5
  <1> QED
    BY <1>2, <1>4, <1>5, <1>6 DEF Step, Order

LEMMA FinalizeSteps ==
    ASSUME Inv, NEW m \in net, m.to = "finalize", Finalize(m), UNCHANGED withdrawn
    PROVE  Step
  <1>1. CASE Commits(m.gen) # {}
    <2>1. Refuse(m, "OK") \/ Refuse(m, "IDEMPOTENCY_CONFLICT")
      BY <1>1 DEF Finalize
    <2> QED
      BY <2>1, RefuseSteps
  <1>2. CASE Commits(m.gen) = {} /\ verdict.gen # m.gen
    <2>1. Refuse(m, "STALE_GENERATION")
      BY <1>2 DEF Finalize
    <2> QED
      BY <2>1, RefuseSteps
  <1>3. CASE Commits(m.gen) = {} /\ verdict.gen = m.gen
    <2>1. \/ withdrawn /\ Refuse(m, "EVIDENCE_INVALIDATED")
          \/ Refuse(m, "DEADLINE_EXCEEDED")
          \/ Dead(m.body) /\ Refuse(m, "INVALID_DRAFT")
          \/ ~Dead(m.body) /\ Saves(m)
      BY <1>3 DEF Finalize, Dead
    <2> QED
      BY <1>3, <2>1, RefuseSteps, SavesSteps DEF Dead
  <1> QED
    BY <1>1, <1>2, <1>3

LEMMA VoteSteps ==
    ASSUME Inv, NEW m \in net, m.to = "cast_jury_vote", CastJuryVote(m), UNCHANGED withdrawn
    PROVE  Step
  <1>1. CASE \E code : Refuse(m, code)
    BY <1>1, RefuseSteps
  <1>2. CASE /\ votes.cast = NULL /\ m.body.verdict \in Verdicts
             /\ Answer(m, "OK")
             /\ votes' = [votes EXCEPT !.cast = m.body.verdict]
             /\ UNCHANGED <<jobs, verdict>>
    <2>1. votes' \in [cast : Verdicts \cup {NULL}, closed : BOOLEAN]
      BY <1>2 DEF Inv, TInv, TypeOK
    <2>2. Kept /\ verdict'.committed = verdict.committed
      BY <1>2, <2>1, SameVerdict
    <2> QED
      BY <1>2, <2>2, AnswerKeeps, SameKept DEF Step, Inv, Kept
  <1> QED
    BY <1>1, <1>2 DEF CastJuryVote

-----------------------------------------------------------------------------
(* The handlers and the queue.                                             *)

\* A step of a handler that the backend has no part in.
Alone == UNCHANGED <<verdict, votes, withdrawn>>

LEMMA AloneKeeps ==
    ASSUME Inv, NEW g \in DOMAIN run, Turn(g), Alone
    PROVE  RunNet /\ Order' /\ Kept
  <1>1. Kept /\ verdict'.committed = verdict.committed
    BY SameVerdict DEF Alone, Inv, TInv, TypeOK
  <1> QED
    BY <1>1, TurnTypes, TurnOrder DEF Inv, Kept

LEMMA EndKeeps ==
    ASSUME Inv, NEW g \in DOMAIN run, NEW settlement \in Closed, Ends(g, settlement), Alone
    PROVE  RunNet /\ Order' /\ Kept
  BY EndsTurns, AloneKeeps DEF Inv

\* Between its requests a handler has nothing on the way that could commit.
LEMMA OnwardBetween ==
    ASSUME Inv, NEW g \in DOMAIN run, run[g].at \in {"snapshot", "draft", "juror"}
    PROVE  Onward(g)
  <1>1. run[g].at \notin Closed \cup {"generation_failed", "finalize"} /\ g \in Gen
    BY RunFacts DEF Inv, Closed, Settlements
  <1>2. AllDead(g)
    BY <1>1 DEF Inv, Order, LiveIsLast, AllDead
  <1>3. Commits(g) = {}
    BY <1>1 DEF Inv, Order, CommitIsLast
  <1> QED
    BY <1>1, <1>2, <1>3 DEF Onward

LEMMA SnapshotSteps ==
    ASSUME Inv, NEW g \in DOMAIN run, Snapshot(g)
    PROVE  Step
  <1>1. run[g] \in Run /\ Onward(g)
    BY RunFacts, OnwardBetween DEF Inv, Snapshot
  <1>2. PICK code : AfterSnapshot(g, code)
    BY DEF Snapshot
  <1>3. Turn(g)
    <2>1. CASE Goes(g, "juror", run[g])
      BY <1>1, <2>1, GoesTurns DEF Inv
    <2>2. CASE Asks(g, "begin_generation", NULL, run[g])
      BY <1>1, <2>2, AsksTurns DEF Inv, Requests, Body, Fits
    <2>3. CASE Ends(g, "cancel") \/ SettleError(g, code)
      BY <2>3, EndsTurns, SettleErrorTurns DEF Inv, Closed, Settlements
    <2> QED
      BY <1>2, <2>1, <2>2, <2>3 DEF AfterSnapshot
  <1>4. Alone /\ UNCHANGED jobs
    BY DEF Snapshot, Alone
  <1> QED
    BY <1>3, <1>4, AloneKeeps, SameKept DEF Step, Inv

LEMMA WritesSteps ==
    ASSUME Inv, NEW g \in DOMAIN run, Writes(g)
    PROVE  Step
  <1>1. run[g] \in Run /\ g \in Gen /\ Onward(g)
    BY RunFacts, OnwardBetween DEF Inv, Writes
  <1>2. CASE \E ai, valid \in BOOLEAN :
               Asks(g, "finalize",
                    [sentence |-> IF run[g].fixed = NULL THEN g ELSE run[g].fixed,
                     ai |-> ai, valid |-> valid], run[g])
    <2>1. PICK ai, valid \in BOOLEAN :
               Asks(g, "finalize",
                    [sentence |-> IF run[g].fixed = NULL THEN g ELSE run[g].fixed,
                     ai |-> ai, valid |-> valid], run[g])
      BY <1>2
    <2> DEFINE d == [sentence |-> IF run[g].fixed = NULL THEN g ELSE run[g].fixed,
                     ai |-> ai, valid |-> valid]
    <2>2. d.sentence \in Sentence
      BY <1>1 DEF Run, Sentence
    <2>3. d \in Draft
      BY <2>2 DEF Draft
    <2>4. d \in Body /\ Fits("finalize", d) /\ "finalize" \in Requests
      BY <2>3 DEF Body, Fits, Requests
    <2> QED
      BY <1>1, <2>1, <2>4, AsksTurns, AloneKeeps, SameKept DEF Step, Inv, Alone, Writes
  <1>3. CASE \E code \in Failure : Asks(g, "generation_failed", [code |-> code], run[g])
    <2>1. Turn(g)
      BY <1>1, <1>3, FailureBody, AsksTurns DEF Inv, Requests
    <2> QED
      BY <2>1, AloneKeeps, SameKept DEF Step, Inv, Alone, Writes
  <1> QED
    BY <1>2, <1>3 DEF Writes

LEMMA JurorSteps ==
    ASSUME Inv, NEW g \in DOMAIN run, Juror(g)
    PROVE  Step
  <1>1. run[g] \in Run /\ Onward(g)
    BY RunFacts, OnwardBetween DEF Inv, Juror
  <1>2. CASE Goes(g, "complete", [run[g] EXCEPT !.skipped = TRUE])
    <2> DEFINE r == [[run[g] EXCEPT !.skipped = TRUE] EXCEPT !.at = "complete", !.body = NULL]
    <2>1. r \in Run /\ r.job = run[g].job /\ r.at = "complete"
      BY <1>1 DEF Run, Settlements, Body
    <2>2. run' = [run EXCEPT ![g] = r] /\ net' = net
      BY <1>2 DEF Goes
    <2>3. Turn(g)
      BY <2>1, <2>2 DEF Turn, Closed, Settlements, Requests
    <2> QED
      BY <2>3, AloneKeeps, SameKept DEF Step, Inv, Alone, Juror
  <1>3. CASE \E output \in JurorAnswers :
               Asks(g, "cast_jury_vote",
                    IF output # NULL /\ Accepts(output) THEN output ELSE TemplateVote, run[g])
    <2>1. PICK output \in JurorAnswers :
               Asks(g, "cast_jury_vote",
                    IF output # NULL /\ Accepts(output) THEN output ELSE TemplateVote, run[g])
      BY <1>3
    <2> DEFINE vote == IF output # NULL /\ Accepts(output) THEN output ELSE TemplateVote
    <2>2. TemplateVote \in Output
      BY DEF TemplateVote, TemplateVerdict, Verdicts, Output
    <2>3. vote \in Output
      BY <2>2 DEF JurorAnswers
    <2>4. vote \in Body /\ Fits("cast_jury_vote", vote) /\ "cast_jury_vote" \in Requests
      BY <2>3 DEF Body, Fits, Requests
    <2>5. Turn(g)
      BY <1>1, <2>1, <2>4, AsksTurns DEF Inv
    <2> QED
      BY <2>5, AloneKeeps, SameKept DEF Step, Inv, Alone, Juror
  <1> QED
    BY <1>2, <1>3 DEF Juror

LEMMA SettleSteps ==
    ASSUME Inv, NEW g \in DOMAIN run, Settle(g)
    PROVE  Step
  <1>1. run[g] \in Run /\ run[g].job \in DOMAIN jobs /\ run[g].at \in Settlements
    BY RunFacts DEF Inv, Settle
  <1>2. RunNet /\ Order' /\ Kept
    <2> DEFINE r == [run[g] EXCEPT !.at = "ended"]
    <2>1. r \in Run /\ r.job = run[g].job /\ r.at = "ended"
      BY <1>1 DEF Run
    <2>2. run' = [run EXCEPT ![g] = r] /\ net' = net
      BY <1>1, RunFacts DEF Inv, Settle
    <2>3. Turn(g)
      BY <2>1, <2>2 DEF Turn, Closed, Requests
    <2> QED
      BY <2>3, AloneKeeps DEF Alone, Settle
  <1>3. JobsKept
    <2> DEFINE j == run[g].job
    <2>1. CASE UNCHANGED jobs
      BY <2>1, SameKept DEF Inv
    <2>2. CASE jobs' = [jobs EXCEPT ![j].status = "SUCCEEDED"]
      <3> DEFINE row == [jobs[j] EXCEPT !.status = "SUCCEEDED"]
      <3>1. jobs[j] \in Row
        BY <1>1, JobFacts DEF Inv
      <3>2. row \in Row /\ row.status # "RUNNING"
        BY <3>1 DEF Row
      <3>3. jobs' = [jobs EXCEPT ![j] = row]
        BY <1>1, <2>2, JobFacts DEF Inv
      <3> QED
        BY <1>1, <3>2, <3>3, RowKept DEF Inv
    <2>3. CASE \E status \in {"QUEUED", "FAILED", "CANCELLED"} : Close(j, status)
      BY <1>1, <2>3, CloseKept DEF Inv
    <2> QED
      BY <1>1, <2>1, <2>2, <2>3 DEF Settle, Settlements
  <1> QED
    BY <1>2, <1>3 DEF Step

LEMMA CutOffSteps ==
    ASSUME Inv, NEW g \in DOMAIN run, CutOff(g)
    PROVE  Step
  <1>1. RunNet /\ Order' /\ Kept
    BY EndKeeps DEF CutOff, Alone, Closed
  <1>2. JobsKept
    <2> DEFINE j == run[g].job
    <2>1. CASE UNCHANGED jobs
      BY <2>1, SameKept DEF Inv
    <2>2. CASE /\ Owns(g)
               /\ jobs' = [jobs EXCEPT ![j].status = "QUEUED", ![j].attempts = @ - 1,
                                       ![j].gen = NULL, ![j].leased = FALSE]
      <3> DEFINE row == [jobs[j] EXCEPT !.status = "QUEUED", !.attempts = @ - 1,
                                        !.gen = NULL, !.leased = FALSE]
      <3>1. j \in DOMAIN jobs /\ jobs[j] \in Row
        BY RunFacts, JobFacts DEF Inv
      <3>2. jobs[j].attempts # 0 /\ jobs[j].attempts \in Nat
        BY <2>2, <3>1, JobFacts DEF Inv, Owns, Row
      <3>3. jobs[j].attempts - 1 \in Nat
        BY <3>2
      <3>4. row \in Row /\ row.status # "RUNNING"
        BY <3>1, <3>3 DEF Row
      <3>5. jobs' = [jobs EXCEPT ![j] = row]
        BY <2>2, <3>1, JobFacts DEF Inv, Row
      <3> QED
        BY <3>1, <3>4, <3>5, RowKept DEF Inv
    <2> QED
      BY <2>1, <2>2 DEF CutOff
  <1> QED
    BY <1>1, <1>2 DEF Step

LEMMA GiveUpSteps ==
    ASSUME Inv, NEW g \in DOMAIN run, GiveUp(g)
    PROVE  Step
  BY EndKeeps, SameKept DEF GiveUp, Alone, Closed, Settlements, Step, Inv

\* The queue, the clock and the backend's own tasks send nothing.
LEMMA QuietSteps ==
    ASSUME Inv, UNCHANGED <<run, net>>, Kept, verdict'.committed = verdict.committed, JobsKept
    PROVE  Step
  BY StillTypes, StillOrder DEF Inv, Kept, Step

LEMMA QueueSteps ==
    ASSUME Inv, NEW j \in DOMAIN jobs, LeaseExpires(j) \/ Reap(j)
    PROVE  Step
  <1>1. UNCHANGED <<run, net, verdict, votes, withdrawn>>
    BY DEF LeaseExpires, Reap
  <1>2. Kept /\ verdict'.committed = verdict.committed
    BY <1>1, SameVerdict DEF Inv, TInv, TypeOK
  <1>3. JobsKept
    <2>1. CASE LeaseExpires(j)
      <3> DEFINE row == [jobs[j] EXCEPT !.leased = FALSE]
      <3>1. jobs[j] \in Row /\ (jobs[j].status = "RUNNING" => jobs[j].attempts # 0)
        BY JobFacts DEF Inv
      <3>2. row \in Row /\ (row.status = "RUNNING" => row.attempts # 0)
        BY <3>1 DEF Row
      <3>3. jobs' = [jobs EXCEPT ![j] = row]
        BY <2>1, JobFacts DEF Inv, LeaseExpires
      <3> QED
        BY <3>2, <3>3, RowKept DEF Inv
    <2>2. CASE Reap(j)
      <3>1. PICK status \in {"QUEUED", "FAILED", "CANCELLED"} : Close(j, status)
        BY <2>2 DEF Reap
      <3> QED
        BY <3>1, CloseKept DEF Inv
    <2> QED
      BY <2>1, <2>2
  <1> QED
    BY <1>1, <1>2, <1>3, QuietSteps

LEMMA ClaimSteps ==
    ASSUME Inv, NEW j \in DOMAIN jobs, Claim(j)
    PROVE  Step
  <1> DEFINE g == Len(run) + 1
             row == [jobs[j] EXCEPT !.status = "RUNNING", !.attempts = @ + 1,
                                    !.gen = g, !.leased = TRUE]
             asked == [gen |-> g, to |-> "begin_generation", body |-> NULL]
  <1>1. /\ run \in Seq(Run) /\ Len(run) \in Nat /\ DOMAIN run = 1..Len(run)
        /\ g \in Gen /\ g <= MaxGen /\ g \notin DOMAIN run
    <2>1. run \in Seq(Run) /\ g <= MaxGen
      BY DEF Inv, TInv, TypeOK, Claim
    <2>2. Len(run) \in Nat /\ DOMAIN run = 1..Len(run)
      BY <2>1, LenProperties
    <2> QED
      BY <2>1, <2>2, CaseAssumption DEF Gen
  <1>2. JobsKept
    <2>1. jobs[j] \in Row
      BY JobFacts DEF Inv
    <2>2. jobs[j].attempts + 1 \in Nat /\ jobs[j].attempts + 1 # 0
      BY <2>1 DEF Row
    <2>3. row \in Row /\ row.attempts # 0
      BY <1>1, <2>1, <2>2 DEF Row
    <2>4. jobs' = [jobs EXCEPT ![j] = row]
      BY <2>1, JobFacts DEF Inv, Claim, Row
    <2> QED
      BY <2>3, <2>4, RowKept DEF Inv
  <1>3. Kept /\ UNCHANGED verdict
    <2>1. UNCHANGED <<verdict, votes, withdrawn>>
      BY DEF Claim
    <2> QED
      BY <2>1, SameVerdict DEF Inv, TInv, TypeOK
  <1>4. PICK r \in Run :
          /\ r.job = j /\ run' = Append(run, r)
          /\ net' = net \/ net' = net \cup {asked}
    <2>1. j \in 1..Rounds + 2 /\ 0 \in 0..Repairs
      <3>1. j \in 1..Len(jobs) /\ Len(jobs) \in Nat /\ Len(jobs) <= Rounds + 2
        BY JobFacts DEF Inv
      <3> QED
        BY <3>1, CaseAssumption
    <2>2. \A stub \in BOOLEAN, at \in {"snapshot", "begin_generation"} :
            Started(j, stub, at) \in Run /\ Started(j, stub, at).job = j
      BY <2>1 DEF Started, Run, Requests, Body
    <2> QED
      BY <2>2 DEF Claim
  <1>5. /\ run' \in Seq(Run) /\ Len(run') = g /\ DOMAIN run' = 1..g
        /\ \A h \in DOMAIN run : run'[h] = run[h]
        /\ run'[g] = r
    <2>1. run' \in Seq(Run) /\ Len(run') = g
      BY <1>1, <1>4
    <2>2. DOMAIN run' = 1..g
      BY <2>1, LenProperties
    <2> QED
      BY <1>1, <1>4, <2>1, <2>2
  <1>6. DOMAIN run' = DOMAIN run \cup {g}
    BY <1>1, <1>5
  <1>7. RunNet
    <2>1. asked \in Copy /\ Fits(asked.to, asked.body)
      BY <1>1 DEF Copy, Requests, Body, Fits
    <2>2. \A m \in net' : m \in net \/ m = asked
      BY <1>4
    <2>3. \A h \in DOMAIN run' : run'[h].job \in DOMAIN jobs
      BY <1>4, <1>5, <1>6, RunFacts DEF Inv
    <2> QED
      BY <1>1, <1>5, <1>6, <2>1, <2>2, <2>3, CopyFacts DEF RunNet, Inv
  <1>8. Order'
    <2>1. /\ \A m \in net : m.gen \in DOMAIN run /\ run'[m.gen] = run[m.gen]
          /\ \A m \in net' : m.to \in {"finalize", "generation_failed"} => m \in net
          /\ net \subseteq net'
      BY <1>4, <1>5, CopyFacts DEF Inv
    <2>2. \A h : Commits(h)' = Commits(h)
      BY <1>3 DEF Commits
    <2>3. \A m \in net : m.to = "finalize" => (Dead(m.body) => Dead(m.body)')
      BY <1>3, CopyFacts DEF Inv, Kept, DeadLasts
    <2>4. LiveIsLast'
      BY <2>1, <2>3 DEF Inv, Order, LiveIsLast
    <2>5. FailureIsLast'
      BY <2>1, <2>3 DEF Inv, Order, FailureIsLast, AllDead
    <2>6. CommitIsLast'
      BY <1>5, <1>6, <2>1, <2>2 DEF Inv, Order, CommitIsLast
    <2> QED
      BY <2>4, <2>5, <2>6 DEF Order
  <1> QED
    BY <1>2, <1>3, <1>7, <1>8 DEF Step

LEMMA WatchdogSteps == ASSUME Inv, Watchdog PROVE Step
  <1>1. verdict' = [Fallback(TRUE) EXCEPT !.failed = verdict.failed]
    <2>1. verdict \in VerdictState
      BY DEF Inv, TInv, TypeOK
    <2>2. Fallback(TRUE) \in VerdictState /\ Fallback(TRUE).failed = verdict.failed
      BY <2>1, FallbackFacts
    <2>3. verdict' = Fallback(TRUE)
      BY DEF Watchdog
    <2> QED
      BY <2>2, <2>3 DEF VerdictState
  <1>2. Kept /\ verdict'.committed = verdict.committed
    <2>1. verdict.failed \in SUBSET (Gen \X Failure)
      BY DEF Inv, TInv, TypeOK, VerdictState
    <2>2. UNCHANGED <<votes, withdrawn>> /\ verdict.status = "PENDING"
      BY DEF Watchdog
    <2> QED
      BY <1>1, <2>1, <2>2, FallbackVerdict
  <1>3. JobsKept
    <2> DEFINE cut(j) == [jobs[j] EXCEPT !.status = "CANCELLED", !.gen = NULL, !.leased = FALSE]
    <2>1. jobs' = [j \in DOMAIN jobs |->
                     IF j = verdict.job /\ jobs[j].status \in {"QUEUED", "RUNNING"}
                     THEN cut(j) ELSE jobs[j]]
      BY DEF Watchdog
    <2>2. \A j \in DOMAIN jobs : cut(j) \in Row /\ cut(j).status # "RUNNING"
      BY JobFacts DEF Inv, Row
    <2> HIDE DEF cut
    <2>3. jobs' = [j \in DOMAIN jobs |-> jobs'[j]]
      BY <2>1
    <2>4. \A j \in DOMAIN jobs : jobs'[j] = cut(j) \/ jobs'[j] = jobs[j]
      BY <2>1
    <2> QED
      BY <2>2, <2>3, <2>4, JobFacts, RowsKept DEF Inv
  <1> QED
    BY <1>2, <1>3, QuietSteps DEF Watchdog

LEMMA WithdrawSteps == ASSUME Inv, Withdraw PROVE Step
  <1>1. Kept /\ verdict'.committed = verdict.committed
    BY SameVerdict DEF Withdraw, Inv, TInv, TypeOK
  <1>2. JobsKept
    <2> DEFINE cut(j) == [jobs[j] EXCEPT !.status = "CANCELLED", !.gen = NULL, !.leased = FALSE]
    <2>1. jobs' = [j \in DOMAIN jobs |->
                     IF jobs[j].status \in {"QUEUED", "RUNNING"} THEN cut(j) ELSE jobs[j]]
      BY DEF Withdraw
    <2>2. \A j \in DOMAIN jobs : cut(j) \in Row /\ cut(j).status # "RUNNING"
      BY JobFacts DEF Inv, Row
    <2> HIDE DEF cut
    <2>3. jobs' = [j \in DOMAIN jobs |-> jobs'[j]]
      BY <2>1
    <2>4. \A j \in DOMAIN jobs : jobs'[j] = cut(j) \/ jobs'[j] = jobs[j]
      BY <2>1
    <2> QED
      BY <2>2, <2>3, <2>4, JobFacts, RowsKept DEF Inv
  <1> QED
    BY <1>1, <1>2, QuietSteps DEF Withdraw

LEMMA RetrySteps == ASSUME Inv, InsertRetry PROVE Step
  <1>1. UNCHANGED <<run, net, verdict, votes, withdrawn>>
    BY DEF InsertRetry
  <1>2. Kept /\ verdict'.committed = verdict.committed
    BY <1>1, SameVerdict DEF Inv, TInv, TypeOK
  <1>3. JobsKept
    <2> DEFINE row == NewRow("TEXT_RETRY")
    <2>1. row \in Row /\ row.status # "RUNNING"
      BY DEF NewRow, Row, Kind
    <2>2. jobs' = Append(jobs, row) /\ Len(jobs) - 1 < verdict.rounds
      BY DEF InsertRetry
    <2>3. Len(jobs) + 1 <= Rounds + 2
      <3>1. verdict.rounds \in 0..Rounds /\ Len(jobs) \in Nat
        BY JobFacts DEF Inv, TInv, TypeOK, VerdictState
      <3> QED
        BY <2>2, <3>1, CaseAssumption
    <2> HIDE DEF row
    <2>4. jobs' \in Seq(Row) /\ Len(jobs') = Len(jobs) + 1
      BY <2>1, <2>2, JobFacts DEF Inv
    <2>5. DOMAIN jobs' = 1..Len(jobs) + 1
      BY <2>4, LenProperties
    <2>6. \A j \in DOMAIN jobs' : jobs'[j] = row \/ (j \in DOMAIN jobs /\ jobs'[j] = jobs[j])
      BY <2>2, <2>5, JobFacts DEF Inv
    <2> QED
      BY <2>1, <2>3, <2>4, <2>5, <2>6, JobFacts DEF Inv, JobsKept
  <1> QED
    BY <1>1, <1>2, <1>3, QuietSteps

LEMMA ClockSteps == ASSUME Inv, DeadlinePasses \/ VotingCloses PROVE Step
  <1>1. UNCHANGED <<run, net, jobs, verdict, withdrawn>>
    BY DEF DeadlinePasses, VotingCloses
  <1>2. /\ votes' \in [cast : Verdicts \cup {NULL}, closed : BOOLEAN]
        /\ votes'.cast = votes.cast
    BY DEF DeadlinePasses, VotingCloses, Inv, TInv, TypeOK
  <1>3. Kept /\ verdict'.committed = verdict.committed
    BY <1>1, <1>2, SameVerdict
  <1> QED
    BY <1>1, <1>3, QuietSteps, SameKept DEF Inv

-----------------------------------------------------------------------------
LEMMA NextSteps == Inv /\ Next => Step /\ due' \in BOOLEAN /\ withdrawn' \in BOOLEAN
  <1> SUFFICES ASSUME Inv, Next PROVE Step /\ due' \in BOOLEAN /\ withdrawn' \in BOOLEAN
    OBVIOUS
  <1>1. ASSUME NEW m \in net, Handle(m) PROVE Step
    <2>1. UNCHANGED withdrawn
      BY <1>1 DEF Handle
    <2>2. CASE Unauthorized(m)
      BY <2>1, <2>2, RefuseSteps DEF Unauthorized
    <2> QED
      BY <1>1, <2>1, <2>2, BeginSteps, FinalizeSteps, FailedSteps, VoteSteps DEF Handle
  <1>2. Step
    BY <1>1, ClaimSteps, QueueSteps, SettleSteps, CutOffSteps, SnapshotSteps, WritesSteps,
       JurorSteps, GiveUpSteps, WatchdogSteps, RetrySteps, WithdrawSteps, ClockSteps
    DEF Next
  <1>3. /\ due' \in {due, TRUE} /\ withdrawn' \in {withdrawn, TRUE}
    BY DEF Next, Claim, LeaseExpires, Reap, Settle, CutOff, Snapshot, Writes, Juror, GiveUp,
           Handle, Watchdog, InsertRetry, Withdraw, DeadlinePasses, VotingCloses
  <1> QED
    BY <1>2, <1>3 DEF Inv, TInv, TypeOK

LEMMA StepInv == Inv /\ Step /\ due' \in BOOLEAN /\ withdrawn' \in BOOLEAN => Inv'
  <1> SUFFICES ASSUME Inv, Step, due' \in BOOLEAN, withdrawn' \in BOOLEAN PROVE Inv'
    OBVIOUS
  <1>1. TypeOK'
    BY DEF Step, RunNet, JobsKept, Kept, TypeOK
  <1>2. Shapes'
    BY DEF Step, RunNet, JobsKept, Shapes, CopyOK
  <1> QED
    BY <1>1, <1>2 DEF Step, Kept, Inv, TInv

LEMMA NextInv == Inv /\ [Next]_vars => Inv'
  <1> SUFFICES ASSUME Inv, [Next]_vars PROVE Inv'
    OBVIOUS
  <1>1. CASE Next
    BY <1>1, NextSteps, StepInv
  <1>2. CASE UNCHANGED vars
    <2>1. TInv'
      BY <1>2 DEF vars, Inv, TInv, TypeOK, Shapes, CopyOK
    <2>2. Order'
      BY <1>2 DEF vars, Inv, Order, LiveIsLast, FailureIsLast, CommitIsLast, AllDead, Dead,
                  Commits
    <2>3. Standing'
      BY <1>2 DEF vars, Inv, Standing
    <2> QED
      BY <2>1, <2>2, <2>3 DEF Inv
  <1> QED
    BY <1>1, <1>2

LEMMA InitInv == Init => Inv
  <1> SUFFICES ASSUME Init PROVE Inv
    OBVIOUS
  <1>1. \A kind \in Kind : NewRow(kind) \in Row /\ NewRow(kind).status = "QUEUED"
    BY DEF NewRow, Row
  <1>2. /\ jobs \in Seq(Row) /\ Len(jobs) \in 1..2
        /\ \A j \in DOMAIN jobs : jobs[j].status # "RUNNING"
    <2>1. CASE jobs = <<NewRow("SENTENCE")>>
      BY <1>1, <2>1 DEF Kind
    <2>2. CASE jobs = <<NewRow("JURY_VOTE"), NewRow("JURY_VOTE")>>
      BY <1>1, <2>2 DEF Kind
    <2> QED
      BY <2>1, <2>2 DEF Init
  <1>3. run = <<>> /\ net = {} /\ Len(run) = 0 /\ DOMAIN run = {}
    BY DEF Init
  <1>4. verdict \in VerdictState
    BY CaseAssumption DEF Init, VerdictState
  <1>5. TypeOK
    <2>1. run \in Seq(Run) /\ net \subseteq Copy
      BY <1>3, EmptySeq
    <2>2. votes \in [cast : Verdicts \cup {NULL}, closed : BOOLEAN]
      BY DEF Init
    <2>3. due \in BOOLEAN /\ withdrawn \in BOOLEAN
      BY DEF Init
    <2> QED
      BY <1>2, <1>4, <2>1, <2>2, <2>3 DEF TypeOK
  <1>6. Shapes
    BY <1>2, <1>3, CaseAssumption DEF Shapes
  <1>7. Order /\ Standing
    BY <1>3 DEF Init, Order, LiveIsLast, FailureIsLast, CommitIsLast, Commits, Standing
  <1> QED
    BY <1>5, <1>6, <1>7 DEF Inv, TInv

\* Every reachable state of a case has its type: jobs, handlers, copies on the
\* net and the backend's records, for any number of claims, repairs and rounds.
THEOREM CaseTypeCorrect == Spec => []TypeOK
  <1>1. Inv => TypeOK
    BY DEF Inv, TInv
  <1> QED
    BY InitInv, NextInv, <1>1, PTL DEF Spec

\* A fixed sentence, texts that are all the model's and the first vote stay as
\* they are, whatever copies of requests arrive late or twice, for any number of
\* claims (the checks of begin-generation, finalize and jury-votes).
THEOREM CaseStands == Spec => WhatStandsStays
  <1>1. Inv /\ [Next]_vars => StandsHere \/ UNCHANGED vars
    BY NextSteps DEF Step, Kept
  <1> QED
    BY InitInv, NextInv, <1>1, PTL DEF Spec, WhatStandsStays, StandsHere

\* Texts are saved by the last generation to begin and once by each, and a
\* failure is recorded only of the last to begin and never after its commit: the
\* active generation, the commit record and the order in which a handler sends.
THEOREM CaseSavedOnce == Spec => SavedOnceByTheLast
  <1>1. Inv /\ [Next]_vars => SavedHere \/ UNCHANGED vars
    BY NextSteps DEF Step, Kept
  <1> QED
    BY InitInv, NextInv, <1>1, PTL DEF Spec, SavedOnceByTheLast, SavedHere

-----------------------------------------------------------------------------
(***************************************************************************)
(* A job that is done has done what it is for.  A handler completes a job  *)
(* it still owns only when it was told so: that the verdict is fixed, that *)
(* its time is over, that a vote is in the box or the vote is closed.  It  *)
(* is told that it is stale while it owns the job only when its generation *)
(* was active and the verdict has been fixed since.                        *)
(***************************************************************************)
KindOf(g) == jobs[run[g].job].kind

OfJuror == {"juror", "cast_jury_vote"}
OfBegun == {"draft", "finalize", "generation_failed"}

\* What DoneIsDecided and DoneHasVoted ask of a job that is done.
Accounted(j) ==
    /\ jobs[j].kind = "SENTENCE" => verdict.status = "FINAL" \/ due
    /\ jobs[j].kind = "JURY_VOTE" =>
         \/ votes.cast # NULL \/ votes.closed
         \/ \E g \in DOMAIN run : run[g].job = j /\ run[g].skipped

\* Where a handler stands, and what is so while it owns its row.
Stand(g) ==
    /\ run[g].at \in OfJuror => KindOf(g) = "JURY_VOTE"
    /\ run[g].at \in OfBegun \cup {"begin_generation"} => KindOf(g) # "JURY_VOTE"
    /\ run[g].at \in OfBegun /\ KindOf(g) = "SENTENCE" /\ Owns(g) =>
         verdict.gen = g \/ verdict.status = "FINAL"
    /\ run[g].at = "complete" /\ Owns(g) => Accounted(run[g].job)
    /\ ~run[g].refused

Carried(m) ==
    IF m.to = "cast_jury_vote" THEN Accepts(m.body) ELSE KindOf(m.gen) # "JURY_VOTE"

\* One job of a case is the sentence's; the rounds come after it.
Rows ==
    /\ 1 \in DOMAIN jobs
    /\ \A j \in DOMAIN jobs :
        /\ jobs[j].kind = "SENTENCE" => j = 1
        /\ jobs[j].kind = "TEXT_RETRY" => verdict.status = "FINAL"
        /\ jobs[j].status = "RUNNING" =>
             jobs[j].gen \in DOMAIN run /\ run[jobs[j].gen].job = j
        /\ jobs[j].status = "SUCCEEDED" => Accounted(j)

Active ==
    /\ verdict.gen # NULL =>
         /\ verdict.gen \in DOMAIN run /\ run[verdict.gen].job = verdict.job
         /\ KindOf(verdict.gen) # "JURY_VOTE"
    /\ verdict.rounds # 0 \/ verdict.failed # {} \/ verdict.committed # {} =>
         verdict.status = "FINAL"

DInv ==
    /\ \A g \in DOMAIN run : Stand(g)
    /\ \A m \in net : Carried(m)
    /\ Rows /\ Active

(* A step from there, in three parts: what becomes of the rows, of the     *)
(* verdict and the votes, and of the handlers and their requests.          *)

AccountedNext(j) ==
    /\ jobs[j].kind = "SENTENCE" => verdict'.status = "FINAL" \/ due'
    /\ jobs[j].kind = "JURY_VOTE" =>
         \/ votes'.cast # NULL \/ votes'.closed
         \/ \E g \in DOMAIN run : run[g].job = j /\ run[g].skipped

\* A row that runs ran before for the same generation, or was claimed by a new
\* one; no row comes but that of another round.
RowMoves(j) ==
    /\ jobs'[j].kind = jobs[j].kind
    /\ jobs'[j].status = "RUNNING" =>
         \/ /\ jobs[j].status = "RUNNING" /\ jobs'[j].gen = jobs[j].gen
            /\ jobs'[j].leased => jobs[j].leased
         \/ /\ jobs'[j].gen \in DOMAIN run' \ DOMAIN run
            /\ run'[jobs'[j].gen].job = j
    /\ jobs'[j].status = "SUCCEEDED" => jobs[j].status = "SUCCEEDED" \/ AccountedNext(j)

JobMoves ==
    /\ DOMAIN jobs \subseteq DOMAIN jobs'
    /\ \A j \in DOMAIN jobs : RowMoves(j)
    /\ \A j \in DOMAIN jobs' \ DOMAIN jobs :
         jobs'[j] = NewRow("TEXT_RETRY") /\ verdict'.status = "FINAL"

VerdictMoves ==
    /\ verdict.status = "FINAL" => verdict'.status = "FINAL"
    /\ due => due'
    /\ votes.cast # NULL => votes'.cast # NULL
    /\ votes.closed => votes'.closed
    /\ \/ verdict'.gen = NULL
       \/ verdict'.gen = verdict.gen /\ verdict'.job = verdict.job
       \/ /\ verdict'.gen \in DOMAIN run /\ verdict'.job = run[verdict'.gen].job
          /\ KindOf(verdict'.gen) # "JURY_VOTE"
    /\ \A g \in DOMAIN run :
         Owns(g) /\ verdict.gen = g => verdict'.gen = g \/ verdict'.status = "FINAL"
    /\ verdict'.rounds # 0 \/ verdict'.failed # {} \/ verdict'.committed # {} =>
         verdict'.status = "FINAL"

RunMoves ==
    /\ DOMAIN run \subseteq DOMAIN run'
    /\ \A g \in DOMAIN run :
         run'[g].job = run[g].job /\ (run[g].skipped => run'[g].skipped)
    /\ \A g \in DOMAIN run' :
         \/ g \in DOMAIN run /\ run'[g].at = run[g].at /\ run'[g].refused = run[g].refused
         \/ Stand(g)'
    /\ \A m \in net' : m \in net \/ (m.gen \in DOMAIN run' /\ Carried(m)')

LEMMA AccountedStays ==
    ASSUME VerdictMoves, NEW j, Accounted(j)
    PROVE  AccountedNext(j)
  BY DEF VerdictMoves, Accounted, AccountedNext

LEMMA AccountedThen ==
    ASSUME RunMoves, JobMoves, NEW j \in DOMAIN jobs, AccountedNext(j)
    PROVE  Accounted(j)'
  <1>1. jobs'[j].kind = jobs[j].kind
    BY DEF JobMoves, RowMoves
  <1>2. (\E g \in DOMAIN run : run[g].job = j /\ run[g].skipped) =>
           \E g \in DOMAIN run' : run'[g].job = j /\ run'[g].skipped
    BY DEF RunMoves
  <1> QED
    BY <1>1, <1>2 DEF AccountedNext, Accounted

\* A lease that is lost does not come back.
LEMMA OwnsLess ==
    ASSUME TInv, JobMoves, NEW g \in DOMAIN run, run'[g].job = run[g].job, Owns(g)'
    PROVE  Owns(g)
  <1>1. run[g].job \in DOMAIN jobs
    BY RunFacts
  <1> QED
    BY <1>1 DEF JobMoves, RowMoves, Owns

LEMMA KindStays ==
    ASSUME TInv, JobMoves, NEW g \in DOMAIN run, run'[g].job = run[g].job
    PROVE  KindOf(g)' = KindOf(g)
  BY RunFacts DEF JobMoves, RowMoves, KindOf

LEMMA MovesAccount ==
    ASSUME TInv, DInv, JobMoves, VerdictMoves, RunMoves
    PROVE  DInv'
  <1>1. \A g \in DOMAIN run : run'[g].job = run[g].job /\ g \in DOMAIN run'
    BY DEF RunMoves
  <1>2. ASSUME NEW g \in DOMAIN run' PROVE Stand(g)'
    <2>1. CASE Stand(g)'
      BY <2>1
    <2>2. CASE g \in DOMAIN run /\ run'[g].at = run[g].at /\ run'[g].refused = run[g].refused
      <3>1. KindOf(g)' = KindOf(g) /\ (Owns(g)' => Owns(g))
        BY <1>1, <2>2, KindStays, OwnsLess
      <3>2. Stand(g) /\ run[g].job \in DOMAIN jobs
        BY <2>2, RunFacts DEF DInv
      <3>3. PICK j \in DOMAIN jobs : j = run[g].job
        BY <3>2
      <3>4. run'[g].at = "complete" /\ Owns(g)' => Accounted(run[g].job)'
        <4>1. run[g].at = "complete" /\ Owns(g) => Accounted(j)
          BY <3>2, <3>3 DEF Stand, Accounted
        <4>2. Accounted(j) => Accounted(j)'
          BY <3>3, AccountedStays, AccountedThen
        <4>3. run'[g].job = j
          BY <1>1, <2>2, <3>3
        <4> QED
          BY <2>2, <3>1, <4>1, <4>2, <4>3 DEF Accounted
      <3>5. run[g].at \in OfBegun /\ KindOf(g) = "SENTENCE" /\ Owns(g) =>
              verdict'.gen = g \/ verdict'.status = "FINAL"
        BY <2>2, <3>2 DEF Stand, VerdictMoves
      <3> QED
        BY <2>2, <3>1, <3>2, <3>4, <3>5 DEF Stand
    <2> QED
      BY <2>1, <2>2 DEF RunMoves
  <1>3. ASSUME NEW m \in net' PROVE Carried(m)'
    <2>1. CASE m \in net
      <3>1. m.gen \in DOMAIN run /\ Carried(m)
        BY <2>1, CopyFacts DEF DInv
      <3>2. KindOf(m.gen)' = KindOf(m.gen)
        BY <1>1, <3>1, KindStays
      <3> QED
        BY <3>1, <3>2 DEF Carried, Accepts
    <2> QED
      BY <2>1 DEF RunMoves
  <1>4. Rows'
    <2> SUFFICES ASSUME NEW j \in DOMAIN jobs'
                 PROVE  /\ jobs'[j].kind = "SENTENCE" => j = 1
                        /\ jobs'[j].kind = "TEXT_RETRY" => verdict'.status = "FINAL"
                        /\ jobs'[j].status = "RUNNING" =>
                             jobs'[j].gen \in DOMAIN run' /\ run'[jobs'[j].gen].job = j
                        /\ jobs'[j].status = "SUCCEEDED" => Accounted(j)'
      BY DEF DInv, Rows, JobMoves
    <2>1. CASE j \in DOMAIN jobs
      <3>1. RowMoves(j)
        BY <2>1 DEF JobMoves
      <3>2. /\ jobs[j].kind = "SENTENCE" => j = 1
            /\ jobs[j].kind = "TEXT_RETRY" => verdict.status = "FINAL"
            /\ jobs[j].status = "RUNNING" =>
                 jobs[j].gen \in DOMAIN run /\ run[jobs[j].gen].job = j
            /\ jobs[j].status = "SUCCEEDED" => Accounted(j)
        BY <2>1 DEF DInv, Rows
      <3>3. jobs'[j].status = "SUCCEEDED" => Accounted(j)'
        BY <2>1, <3>1, <3>2, AccountedStays, AccountedThen DEF RowMoves
      <3>4. jobs'[j].status = "RUNNING" =>
              jobs'[j].gen \in DOMAIN run' /\ run'[jobs'[j].gen].job = j
        BY <1>1, <3>1, <3>2 DEF RowMoves
      <3>5. verdict.status = "FINAL" => verdict'.status = "FINAL"
        BY DEF VerdictMoves
      <3> QED
        BY <3>1, <3>2, <3>3, <3>4, <3>5 DEF RowMoves
    <2>2. CASE j \notin DOMAIN jobs
      <3>1. jobs'[j] = NewRow("TEXT_RETRY") /\ verdict'.status = "FINAL"
        BY <2>2 DEF JobMoves
      <3> QED
        BY <3>1 DEF NewRow
    <2> QED
      BY <2>1, <2>2
  <1>5. Active'
    <2>1. ASSUME NEW g \in DOMAIN run, verdict'.gen = g, verdict'.job = run[g].job,
                 KindOf(g) # "JURY_VOTE"
          PROVE  /\ verdict'.gen \in DOMAIN run' /\ run'[verdict'.gen].job = verdict'.job
                 /\ jobs'[run'[verdict'.gen].job].kind # "JURY_VOTE"
      <3>1. KindOf(g)' = KindOf(g)
        BY <1>1, KindStays
      <3> QED
        BY <1>1, <2>1, <3>1 DEF KindOf
    <2>2. verdict'.gen # NULL =>
            /\ verdict'.gen \in DOMAIN run /\ verdict'.job = run[verdict'.gen].job
            /\ jobs[run[verdict'.gen].job].kind # "JURY_VOTE"
      BY DEF VerdictMoves, DInv, Active, KindOf
    <2>3. verdict'.gen # NULL =>
            /\ verdict'.gen \in DOMAIN run' /\ run'[verdict'.gen].job = verdict'.job
            /\ jobs'[run'[verdict'.gen].job].kind # "JURY_VOTE"
      BY <2>1, <2>2 DEF KindOf
    <2> QED
      BY <2>3 DEF Active, VerdictMoves, KindOf
  <1> QED
    BY <1>2, <1>3, <1>4, <1>5 DEF DInv

-----------------------------------------------------------------------------
(* What a handler takes up next, and what it may do so for.                *)

\* It may complete its job.
Told(g) == Owns(g) => AccountedNext(run[g].job)

Takes(g) ==
    \E r \in Run :
        /\ run' = [run EXCEPT ![g] = r]
        /\ r.job = run[g].job /\ ~r.refused /\ (run[g].skipped => r.skipped)
        /\ r.at \in OfJuror => KindOf(g) = "JURY_VOTE"
        /\ r.at \in OfBegun \cup {"begin_generation"} => KindOf(g) # "JURY_VOTE"
        /\ r.at \in OfBegun /\ KindOf(g) = "SENTENCE" /\ Owns(g) =>
             verdict'.gen = g \/ verdict'.status = "FINAL"
        /\ r.at = "complete" => Told(g) \/ (r.skipped /\ KindOf(g) = "JURY_VOTE")
        /\ \/ net' = net
           \/ /\ net' = net \cup {[gen |-> g, to |-> r.at, body |-> r.body]}
              /\ r.at \in Requests
              /\ r.at = "cast_jury_vote" => Accepts(r.body)

LEMMA TakesMoves ==
    ASSUME TInv, DInv, JobMoves, NEW g \in DOMAIN run, Takes(g)
    PROVE  RunMoves
  <1>1. PICK r \in Run :
        /\ run' = [run EXCEPT ![g] = r]
        /\ r.job = run[g].job /\ ~r.refused /\ (run[g].skipped => r.skipped)
        /\ r.at \in OfJuror => KindOf(g) = "JURY_VOTE"
        /\ r.at \in OfBegun \cup {"begin_generation"} => KindOf(g) # "JURY_VOTE"
        /\ r.at \in OfBegun /\ KindOf(g) = "SENTENCE" /\ Owns(g) =>
             verdict'.gen = g \/ verdict'.status = "FINAL"
        /\ r.at = "complete" => Told(g) \/ (r.skipped /\ KindOf(g) = "JURY_VOTE")
        /\ \/ net' = net
           \/ /\ net' = net \cup {[gen |-> g, to |-> r.at, body |-> r.body]}
              /\ r.at \in Requests
              /\ r.at = "cast_jury_vote" => Accepts(r.body)
    BY DEF Takes
  <1>2. /\ DOMAIN run' = DOMAIN run /\ run'[g] = r
        /\ \A h \in DOMAIN run \ {g} : run'[h] = run[h]
    BY <1>1, RunFacts
  <1>3. KindOf(g)' = KindOf(g) /\ (Owns(g)' => Owns(g)) /\ run[g].job \in DOMAIN jobs
    BY <1>1, <1>2, KindStays, OwnsLess, RunFacts
  <1>4. (\E h \in DOMAIN run : run[h].job = run[g].job /\ run[h].skipped) =>
           \E h \in DOMAIN run' : run'[h].job = run[g].job /\ run'[h].skipped
    BY <1>1, <1>2
  <1>5. jobs'[run[g].job].kind = jobs[run[g].job].kind
    BY <1>3 DEF JobMoves, RowMoves
  <1>6. AccountedNext(run[g].job) => Accounted(run[g].job)'
    BY <1>1, <1>2, <1>4, <1>5 DEF AccountedNext, Accounted
  <1>7. r.skipped /\ KindOf(g) = "JURY_VOTE" => Accounted(run[g].job)'
    BY <1>1, <1>2, <1>5 DEF Accounted, KindOf
  <1>8. Stand(g)'
    BY <1>1, <1>2, <1>3, <1>6, <1>7 DEF Stand, Told
  <1>9. \A m \in net' : m \in net \/ (m.gen \in DOMAIN run' /\ Carried(m)')
    <2> SUFFICES ASSUME NEW m \in net', m \notin net
                 PROVE  m.gen \in DOMAIN run' /\ Carried(m)'
      OBVIOUS
    <2>1. /\ m.gen = g /\ m.to = r.at /\ m.body = r.body /\ r.at \in Requests
          /\ r.at = "cast_jury_vote" => Accepts(r.body)
      BY <1>1
    <2>2. r.at # "cast_jury_vote" => KindOf(g) # "JURY_VOTE"
      BY <1>1, <2>1 DEF Requests, OfBegun
    <2> QED
      BY <1>2, <1>3, <2>1, <2>2 DEF Carried, Accepts
  <1> QED
    BY <1>1, <1>2, <1>8, <1>9 DEF RunMoves

LEMMA EndsTakes ==
    ASSUME TInv, DInv, NEW g \in DOMAIN run, NEW settlement \in Closed, Ends(g, settlement),
           settlement = "complete" => Told(g)
    PROVE  Takes(g)
  <1> DEFINE r == [[run[g] EXCEPT !.stub = FALSE, !.fixed = NULL, !.repairs = 0]
                     EXCEPT !.at = settlement, !.body = NULL]
  <1>1. run[g] \in Run /\ ~run[g].refused /\ 0 \in 0..Repairs
    BY RunFacts, CaseAssumption DEF DInv, Stand
  <1>2. /\ r \in Run /\ r.job = run[g].job /\ r.at = settlement
        /\ r.refused = run[g].refused /\ r.skipped = run[g].skipped
    BY <1>1 DEF Run, Closed, Body
  <1>3. run' = [run EXCEPT ![g] = r] /\ net' = net
    BY DEF Ends, Goes
  <1>4. settlement \notin OfJuror \cup OfBegun \cup {"begin_generation"}
    BY DEF Closed, Settlements, OfJuror, OfBegun
  <1> HIDE DEF r
  <1> QED
    BY <1>1, <1>2, <1>3, <1>4 DEF Takes

LEMMA GoesTakes ==
    ASSUME TInv, DInv, NEW g \in DOMAIN run, NEW r \in Run, r.job = run[g].job,
           r.refused = run[g].refused, r.skipped = run[g].skipped,
           NEW at \in {"draft", "juror"}, Goes(g, at, r),
           at = "juror" => KindOf(g) = "JURY_VOTE",
           at = "draft" => /\ KindOf(g) # "JURY_VOTE"
                           /\ KindOf(g) = "SENTENCE" /\ Owns(g) =>
                                verdict'.gen = g \/ verdict'.status = "FINAL"
    PROVE  Takes(g)
  <1> DEFINE s == [r EXCEPT !.at = at, !.body = NULL]
  <1>1. ~run[g].refused
    BY DEF DInv, Stand
  <1>2. /\ s \in Run /\ s.job = run[g].job /\ s.at = at
        /\ s.refused = run[g].refused /\ s.skipped = run[g].skipped
    BY DEF Run, Body
  <1>3. run' = [run EXCEPT ![g] = s] /\ net' = net
    BY DEF Goes
  <1> HIDE DEF s
  <1> QED
    BY <1>1, <1>2, <1>3 DEF Takes, OfJuror, OfBegun

LEMMA AsksTakes ==
    ASSUME TInv, DInv, NEW g \in DOMAIN run, NEW to \in Requests, NEW body \in Body,
           Asks(g, to, body, run[g]),
           to = "cast_jury_vote" => KindOf(g) = "JURY_VOTE" /\ Accepts(body),
           to # "cast_jury_vote" => KindOf(g) # "JURY_VOTE",
           to \in OfBegun /\ KindOf(g) = "SENTENCE" /\ Owns(g) =>
                verdict'.gen = g \/ verdict'.status = "FINAL"
    PROVE  Takes(g)
  <1> DEFINE s == [run[g] EXCEPT !.at = to, !.body = body]
  <1>1. run[g] \in Run /\ ~run[g].refused
    BY RunFacts DEF DInv, Stand
  <1>2. /\ s \in Run /\ s.job = run[g].job /\ s.at = to /\ s.body = body
        /\ s.refused = run[g].refused /\ s.skipped = run[g].skipped
    BY <1>1 DEF Run
  <1>3. run' = [run EXCEPT ![g] = s] /\ net' = net \cup {[gen |-> g, to |-> to, body |-> body]}
    BY DEF Asks
  <1>4. to # "complete"
    BY DEF Requests
  <1> HIDE DEF s
  <1> QED
    BY <1>1, <1>2, <1>3, <1>4 DEF Takes, OfJuror, OfBegun, Requests

LEMMA SettleErrorTakes ==
    ASSUME TInv, DInv, NEW g \in DOMAIN run, NEW code, SettleError(g, code),
           code = "STALE_GENERATION" => Told(g)
    PROVE  Takes(g)
  BY EndsTakes DEF SettleError, Closed, Settlements

\* What each answer says.
Says(g, code) ==
    /\ code = "STALE_GENERATION" => Told(g)
    /\ code = "DEADLINE_EXCEEDED" => due'
    /\ run[g].at = "begin_generation" /\ code = "OK" => verdict'.gen = g
    /\ run[g].at \in {"finalize", "generation_failed"} /\ code = "OK" => verdict'.status = "FINAL"
    /\ run[g].at = "cast_jury_vote" =>
         /\ code # "INVALID_REQUEST"
         /\ code \in {"OK", "VOTING_CLOSED", "ALREADY_VOTED"} =>
              votes'.cast # NULL \/ votes'.closed

LEMMA AfterTakes ==
    ASSUME TInv, DInv, VerdictMoves, NEW g \in DOMAIN run, run[g].at \in Requests,
           NEW code, After(g, code), Says(g, code)
    PROVE  Takes(g)
  <1>1. run[g] \in Run /\ Stand(g)
    BY RunFacts DEF DInv
  <1>2. "no round" \in Failure /\ "another round" \in Failure /\ "generation_failed" \in Requests
    BY DEF Failure, Requests
  <1>3. run[g].at # "cast_jury_vote" => KindOf(g) # "JURY_VOTE"
    BY <1>1 DEF Stand, Requests, OfBegun
  <1>4. run[g].at # "cast_jury_vote" /\ (due' \/ verdict'.status = "FINAL") => Told(g)
    BY <1>3 DEF Told, AccountedNext, KindOf
  <1>5. ASSUME run[g].at \in OfBegun, KindOf(g) = "SENTENCE", Owns(g)
        PROVE  verdict'.gen = g \/ verdict'.status = "FINAL"
    BY <1>1, <1>5 DEF Stand, VerdictMoves
  <1>6. CASE run[g].at = "begin_generation"
    <2>1. AfterBegin(g, code)
      BY <1>6 DEF After
    <2>2. CASE code = "OK"
      <3>1. CASE Asks(g, "generation_failed", [code |-> "no round"], run[g])
        BY <1>2, <1>3, <1>6, <2>2, <3>1, FailureBody, AsksTakes DEF Says
      <3>2. CASE Goes(g, "draft", [run[g] EXCEPT !.fixed = verdict.sentence])
        <4> DEFINE r == [run[g] EXCEPT !.fixed = verdict.sentence]
        <4>1. verdict.sentence \in Sentence \cup {NULL}
          BY DEF TInv, TypeOK, VerdictState
        <4>2. /\ r \in Run /\ r.job = run[g].job
              /\ r.refused = run[g].refused /\ r.skipped = run[g].skipped
          BY <1>1, <4>1 DEF Run
        <4>3. Goes(g, "draft", r)
          BY <3>2
        <4> HIDE DEF r
        <4> QED
          BY <1>3, <1>6, <2>2, <4>2, <4>3, GoesTakes DEF Says
      <3> QED
        BY <2>1, <2>2, <3>1, <3>2 DEF AfterBegin
    <2>3. CASE Ends(g, "complete") /\ code \in {"STALE_GENERATION", "DEADLINE_EXCEEDED"}
      BY <1>4, <1>6, <2>3, EndsTakes DEF Says, Closed, Settlements
    <2>4. CASE SettleError(g, code)
      BY <2>4, SettleErrorTakes DEF Says
    <2> QED
      BY <2>1, <2>2, <2>3, <2>4 DEF AfterBegin
  <1>7. CASE run[g].at = "finalize"
    <2>1. AfterFinalize(g, code)
      BY <1>7 DEF After
    <2>2. CASE code \in {"OK", "STALE_GENERATION", "DEADLINE_EXCEEDED"}
      <3>1. Ends(g, "complete") /\ Told(g)
        BY <1>4, <1>7, <2>1, <2>2 DEF AfterFinalize, Says
      <3> QED
        BY <3>1, EndsTakes DEF Closed, Settlements
    <2>3. CASE \E again \in Failure : Asks(g, "generation_failed", [code |-> again], run[g])
      BY <1>2, <1>3, <1>5, <1>7, <2>3, FailureBody, AsksTakes DEF OfBegun
    <2>4. CASE /\ run[g].repairs < Repairs
               /\ Goes(g, "draft", [run[g] EXCEPT !.repairs = @ + 1])
      <3> DEFINE r == [run[g] EXCEPT !.repairs = @ + 1]
      <3>1. run[g].repairs + 1 \in 0..Repairs
        BY <1>1, <2>4, CaseAssumption DEF Run
      <3>2. /\ r \in Run /\ r.job = run[g].job
            /\ r.refused = run[g].refused /\ r.skipped = run[g].skipped
        BY <1>1, <3>1 DEF Run
      <3>3. Goes(g, "draft", r)
        BY <2>4
      <3> HIDE DEF r
      <3> QED
        BY <1>3, <1>5, <1>7, <3>2, <3>3, GoesTakes DEF OfBegun
    <2>5. CASE SettleError(g, code)
      BY <2>5, SettleErrorTakes DEF Says
    <2> QED
      BY <1>2, <2>1, <2>2, <2>3, <2>4, <2>5 DEF AfterFinalize
  <1>8. CASE run[g].at = "generation_failed"
    <2>1. AfterFailure(g, code)
      BY <1>8 DEF After
    <2>2. CASE code = "OK"
      BY <1>4, <1>8, <2>1, <2>2, EndsTakes DEF AfterFailure, Says, Closed, Settlements
    <2> QED
      BY <2>1, <2>2, SettleErrorTakes DEF AfterFailure, Says
  <1>9. CASE run[g].at = "cast_jury_vote"
    <2>1. AfterVote(g, code) /\ code # "INVALID_REQUEST" /\ KindOf(g) = "JURY_VOTE"
      BY <1>1, <1>9 DEF After, Says, Stand, OfJuror
    <2>2. CASE code \in {"OK", "VOTING_CLOSED", "ALREADY_VOTED"}
      <3>1. Ends(g, "complete")
        BY <2>1, <2>2 DEF AfterVote
      <3>2. Told(g)
        BY <1>9, <2>1, <2>2 DEF Says, Told, AccountedNext, KindOf
      <3> QED
        BY <3>1, <3>2, EndsTakes DEF Closed, Settlements
    <2>3. CASE Ends(g, "cancel") \/ SettleError(g, code)
      BY <2>3, EndsTakes, SettleErrorTakes DEF Says, Closed, Settlements
    <2> QED
      BY <2>1, <2>2, <2>3 DEF AfterVote
  <1> QED
    BY <1>6, <1>7, <1>8, <1>9 DEF Requests

LEMMA AnswerMoves ==
    ASSUME TInv, DInv, JobMoves, VerdictMoves, NEW m \in net, NEW code, Answer(m, code),
           run[m.gen].at = m.to => Says(m.gen, code)
    PROVE  RunMoves
  <1>1. m \in Copy /\ m.gen \in DOMAIN run
    BY CopyFacts
  <1>2. CASE UNCHANGED <<run, net>>
    BY <1>2 DEF RunMoves
  <1>3. CASE Awaits(m) /\ After(m.gen, code)
    <2>1. Takes(m.gen)
      BY <1>1, <1>3, AfterTakes DEF Awaits, Copy
    <2> QED
      BY <1>1, <2>1, TakesMoves
  <1> QED
    BY <1>2, <1>3 DEF Answer

-----------------------------------------------------------------------------
(* The steps.                                                              *)

LEMMA SameJobs == ASSUME UNCHANGED jobs PROVE JobMoves
  BY DEF JobMoves, RowMoves

LEMMA SameVotes ==
    ASSUME DInv, UNCHANGED <<verdict, votes>>, due => due'
    PROVE  VerdictMoves
  BY DEF DInv, Active, VerdictMoves

LEMMA RefuseMoves ==
    ASSUME TInv, DInv, NEW m \in net, NEW code, Refuse(m, code), UNCHANGED due,
           run[m.gen].at = m.to => Says(m.gen, code)
    PROVE  DInv'
  <1>1. JobMoves /\ VerdictMoves
    BY SameJobs, SameVotes DEF Refuse
  <1> QED
    BY <1>1, AnswerMoves, MovesAccount DEF Refuse

LEMMA FinalMoves ==
    ASSUME verdict'.status = "FINAL", verdict'.gen = NULL, UNCHANGED votes, due => due'
    PROVE  VerdictMoves
  BY DEF VerdictMoves

LEMMA OneRowMoves ==
    ASSUME TInv, NEW j \in DOMAIN jobs, NEW row, jobs' = [jobs EXCEPT ![j] = row],
           row.kind = jobs[j].kind,
           row.status = "RUNNING" => /\ jobs[j].status = "RUNNING" /\ row.gen = jobs[j].gen
                                     /\ row.leased => jobs[j].leased,
           row.status = "SUCCEEDED" => AccountedNext(j)
    PROVE  JobMoves
  <1>1. DOMAIN jobs' = DOMAIN jobs /\ jobs'[j] = row
    BY JobFacts
  <1>2. \A i \in DOMAIN jobs : i # j => jobs'[i] = jobs[i]
    BY JobFacts
  <1>3. \A i \in DOMAIN jobs : RowMoves(i)
    BY <1>1, <1>2 DEF RowMoves
  <1> QED
    BY <1>1, <1>3 DEF JobMoves

LEMMA SettledMoves ==
    ASSUME TInv, NEW j \in DOMAIN jobs, jobs' = [jobs EXCEPT ![j].status = "SUCCEEDED"],
           AccountedNext(j)
    PROVE  JobMoves
  <1> DEFINE row == [jobs[j] EXCEPT !.status = "SUCCEEDED"]
  <1>1. row.kind = jobs[j].kind /\ row.status = "SUCCEEDED"
    BY JobFacts DEF Row
  <1>2. jobs' = [jobs EXCEPT ![j] = row]
    BY JobFacts
  <1> HIDE DEF row
  <1> QED
    BY <1>1, <1>2, OneRowMoves

LEMMA CloseMoves ==
    ASSUME TInv, NEW j \in DOMAIN jobs, NEW status \in {"QUEUED", "FAILED", "CANCELLED"},
           Close(j, status)
    PROVE  JobMoves
  <1> DEFINE row == [jobs[j] EXCEPT !.status = status, !.gen = NULL, !.leased = FALSE]
  <1>1. row.kind = jobs[j].kind /\ row.status \notin {"RUNNING", "SUCCEEDED"}
    BY JobFacts DEF Row
  <1>2. jobs' = [jobs EXCEPT ![j] = row]
    BY JobFacts DEF Close, Row
  <1> HIDE DEF row
  <1> QED
    BY <1>1, <1>2, OneRowMoves

\* The watchdog and a withdrawal cancel rows.
LEMMA CancelMoves ==
    ASSUME TInv, DOMAIN jobs' = DOMAIN jobs,
           \A j \in DOMAIN jobs :
              \/ jobs'[j] = jobs[j]
              \/ jobs'[j] =
                   [jobs[j] EXCEPT !.status = "CANCELLED", !.gen = NULL, !.leased = FALSE]
    PROVE  JobMoves
  <1>1. ASSUME NEW j \in DOMAIN jobs PROVE RowMoves(j)
    <2>1. jobs[j] \in Row
      BY JobFacts
    <2>2. CASE jobs'[j] = jobs[j]
      BY <2>2 DEF RowMoves
    <2>3. CASE jobs'[j] =
                 [jobs[j] EXCEPT !.status = "CANCELLED", !.gen = NULL, !.leased = FALSE]
      BY <2>1, <2>3 DEF RowMoves, Row
    <2> QED
      BY <2>2, <2>3
  <1> QED
    BY <1>1 DEF JobMoves

LEMMA StillMoves == ASSUME UNCHANGED <<run, net>> PROVE RunMoves
  BY DEF RunMoves

LEMMA UnauthorizedDone ==
    ASSUME Inv, DInv, NEW m \in net, Unauthorized(m), UNCHANGED due
    PROVE  DInv'
  BY RefuseMoves DEF Unauthorized, Says, Inv

\* Whoever is told that it is stale has lost its row, or its verdict is fixed.
LEMMA StaleIsTold ==
    ASSUME DInv, UNCHANGED <<verdict, due>>, NEW g \in DOMAIN run, KindOf(g) # "JURY_VOTE",
           ~Owns(g) \/ verdict.status = "FINAL" \/ KindOf(g) = "TEXT_RETRY"
    PROVE  Told(g)
  BY DEF Told, AccountedNext, KindOf

LEMMA BeginDone ==
    ASSUME Inv, DInv, NEW m \in net, m.to = "begin_generation", BeginGeneration(m),
           UNCHANGED due
    PROVE  DInv'
  <1> DEFINE g == m.gen
             sameCurrent == verdict.job = run[g].job /\ verdict.gen = g
  <1>1. /\ g \in DOMAIN run /\ g \in Gen /\ g # NULL /\ run[g].job \in DOMAIN jobs
        /\ KindOf(g) # "JURY_VOTE"
    BY CopyFacts, RunFacts, CaseAssumption DEF Inv, DInv, Carried
  <1>2. ASSUME ActiveIsValid, ~sameCurrent, Owns(g), KindOf(g) = "SENTENCE"
        PROVE  verdict.status = "FINAL"
    <2>1. /\ verdict.gen \in DOMAIN run /\ run[verdict.gen].job = verdict.job
          /\ verdict.job \in DOMAIN jobs
          /\ jobs[verdict.job].kind # "JURY_VOTE" /\ jobs[verdict.job].gen = verdict.gen
      BY <1>2, RunFacts DEF ActiveIsValid, DInv, Active, KindOf, Inv
    <2>2. jobs[verdict.job].kind # "SENTENCE"
      <3>1. run[g].job = 1 /\ jobs[run[g].job].gen = g
        BY <1>1, <1>2 DEF DInv, Rows, KindOf, Owns
      <3>2. jobs[verdict.job].kind = "SENTENCE" => verdict.job = 1
        BY <2>1 DEF DInv, Rows
      <3> QED
        BY <1>2, <2>1, <3>1, <3>2
    <2>3. jobs[verdict.job].kind = "TEXT_RETRY"
      BY <2>1, <2>2, JobFacts DEF Row, Kind, Inv
    <2> QED
      BY <2>1, <2>3 DEF DInv, Rows
  <1>3. CASE Refuse(m, "STALE_GENERATION") /\
             \/ \E code \in Failure : <<g, code>> \in verdict.failed
             \/ ~sameCurrent /\ (~Current(g) \/ ActiveIsValid)
             \/ verdict.status = "FINAL"
    <2>1. (\E code \in Failure : <<g, code>> \in verdict.failed) => verdict.status = "FINAL"
      BY DEF DInv, Active
    <2>2. ~Current(g) => ~Owns(g)
      BY DEF Current, Owns
    <2>3. KindOf(g) \in {"SENTENCE", "TEXT_RETRY"}
      BY <1>1, JobFacts DEF Inv, KindOf, Row, Kind
    <2>4. UNCHANGED verdict
      BY <1>3 DEF Refuse
    <2>5. Told(g)
      BY <1>1, <1>2, <1>3, <2>1, <2>2, <2>3, <2>4, StaleIsTold
    <2>6. run[g].at = m.to => Says(g, "STALE_GENERATION")
      BY <2>5 DEF Says
    <2> QED
      BY <1>3, <2>6, RefuseMoves DEF Inv
  <1>4. CASE Refuse(m, "DEADLINE_EXCEEDED") /\ due
    BY <1>4, RefuseMoves DEF Says, Inv
  <1>5. CASE /\ Answer(m, "OK") /\ (sameCurrent \/ ~ActiveIsValid)
             /\ verdict' = [verdict EXCEPT !.job = run[g].job, !.gen = g, !.began = g]
             /\ UNCHANGED <<jobs, votes>>
    <2>1. verdict \in VerdictState
      BY DEF Inv, TInv, TypeOK
    <2>2. /\ verdict'.gen = g /\ verdict'.job = run[g].job
          /\ verdict'.status = verdict.status /\ verdict'.rounds = verdict.rounds
          /\ verdict'.failed = verdict.failed /\ verdict'.committed = verdict.committed
      BY <1>5, <2>1 DEF VerdictState
    <2>3. ASSUME NEW h \in DOMAIN run, Owns(h), verdict.gen = h
          PROVE  verdict'.gen = h
      <3>1. verdict.job = run[h].job /\ h # NULL
        BY <2>3, RunFacts, CaseAssumption DEF DInv, Active, Inv
      <3>2. ActiveIsValid
        BY <2>3, <3>1 DEF ActiveIsValid, Owns
      <3> QED
        BY <1>5, <2>2, <2>3, <3>2
    <2>4. VerdictMoves
      BY <1>1, <1>5, <2>2, <2>3 DEF VerdictMoves, DInv, Active
    <2>5. run[g].at = m.to => Says(g, "OK")
      BY <2>2 DEF Says
    <2> QED
      BY <1>5, <2>4, <2>5, SameJobs, AnswerMoves, MovesAccount DEF Inv
  <1> QED
    BY <1>3, <1>4, <1>5 DEF BeginGeneration

\* A handler that waits for finalize or generation-failed has begun.
LEMMA BegunIsTold ==
    ASSUME Inv, DInv, UNCHANGED <<verdict, due>>, NEW g \in DOMAIN run, run[g].at \in OfBegun,
           verdict.gen # g
    PROVE  Told(g)
  <1>1. Stand(g)
    BY DEF DInv
  <1>2. KindOf(g) # "JURY_VOTE"
    BY <1>1 DEF Stand
  <1>3. Owns(g) /\ KindOf(g) = "SENTENCE" => verdict.status = "FINAL"
    BY <1>1 DEF Stand
  <1> QED
    BY <1>2, <1>3 DEF Told, AccountedNext, KindOf

LEMMA FailedDone ==
    ASSUME Inv, DInv, NEW m \in net, m.to = "generation_failed", GenerationFailed(m),
           UNCHANGED due
    PROVE  DInv'
  <1> DEFINE g == m.gen
  <1>1. g \in DOMAIN run /\ m.to \in OfBegun
    BY CopyFacts DEF Inv, OfBegun
  <1>2. CASE Refuse(m, "OK") /\ <<g, m.body.code>> \in verdict.failed
    <2>1. verdict'.status = "FINAL"
      BY <1>2 DEF DInv, Active, Refuse
    <2>2. run[g].at = m.to => Says(g, "OK")
      BY <2>1 DEF Says
    <2> QED
      BY <1>2, <2>2, RefuseMoves DEF Inv
  <1>3. CASE Refuse(m, "STALE_GENERATION") /\ verdict.gen # g
    <2>1. run[g].at = m.to => Told(g)
      BY <1>1, <1>3, BegunIsTold DEF Refuse
    <2>2. run[g].at = m.to => Says(g, "STALE_GENERATION")
      BY <2>1 DEF Says
    <2> QED
      BY <1>3, <2>2, RefuseMoves DEF Inv
  <1>4. CASE /\ Answer(m, "OK")
             /\ verdict' = [Fallback(m.body.code = "another round") EXCEPT
                               !.failed = @ \cup {<<g, m.body.code>>}]
             /\ UNCHANGED <<jobs, votes>>
    <2>1. verdict \in VerdictState
      BY DEF Inv, TInv, TypeOK
    <2>2. verdict'.status = "FINAL" /\ verdict'.gen = NULL
      BY <1>4, <2>1 DEF Fallback, VerdictState
    <2>3. VerdictMoves
      BY <1>4, <2>2, FinalMoves
    <2>4. run[g].at = m.to => Says(g, "OK")
      BY <2>2 DEF Says
    <2> QED
      BY <1>4, <2>3, <2>4, SameJobs, AnswerMoves, MovesAccount DEF Inv
  <1> QED
    BY <1>2, <1>3, <1>4 DEF GenerationFailed

LEMMA SavesDone ==
    ASSUME Inv, DInv, NEW m \in net, m.to = "finalize", Saves(m), UNCHANGED due
    PROVE  DInv'
  <1> DEFINE g == m.gen
  <1>1. /\ g \in DOMAIN run /\ run[g].job \in DOMAIN jobs
        /\ KindOf(g) # "JURY_VOTE"
    BY CopyFacts, RunFacts DEF Inv, DInv, Carried
  <1>2. verdict'.status = "FINAL" /\ verdict'.gen = NULL
    BY DEF Saves, Inv, TInv, TypeOK, VerdictState
  <1>3. VerdictMoves
    BY <1>2, FinalMoves DEF Saves
  <1>4. AccountedNext(run[g].job)
    BY <1>1, <1>2 DEF AccountedNext, KindOf
  <1>5. JobMoves
    <2>1. CASE UNCHANGED jobs
      BY <2>1, SameJobs
    <2>2. CASE jobs' = [jobs EXCEPT ![run[g].job].status = "SUCCEEDED"]
      <3>1. PICK j \in DOMAIN jobs : j = run[g].job
        BY <1>1
      <3> QED
        BY <1>4, <2>2, <3>1, SettledMoves DEF Inv, AccountedNext
    <2> QED
      BY <2>1, <2>2 DEF Saves
  <1>6. run[g].at = m.to => Says(g, "OK")
    BY <1>2 DEF Says
  <1> QED
    BY <1>3, <1>5, <1>6, AnswerMoves, MovesAccount DEF Inv, Saves

LEMMA FinalizeDone ==
    ASSUME Inv, DInv, NEW m \in net, m.to = "finalize", Finalize(m), UNCHANGED due
    PROVE  DInv'
  <1> DEFINE g == m.gen
  <1>1. g \in DOMAIN run /\ m.to \in OfBegun
    BY CopyFacts DEF Inv, OfBegun
  <1>2. CASE Refuse(m, "OK") /\ Commits(g) # {}
    <2>1. verdict'.status = "FINAL"
      BY <1>2 DEF DInv, Active, Refuse, Commits
    <2>2. run[g].at = m.to => Says(g, "OK")
      BY <2>1 DEF Says
    <2> QED
      BY <1>2, <2>2, RefuseMoves DEF Inv
  <1>3. CASE Refuse(m, "STALE_GENERATION") /\ verdict.gen # g
    <2>1. run[g].at = m.to => Told(g)
      BY <1>1, <1>3, BegunIsTold DEF Refuse
    <2>2. run[g].at = m.to => Says(g, "STALE_GENERATION")
      BY <2>1 DEF Says
    <2> QED
      BY <1>3, <2>2, RefuseMoves DEF Inv
  <1>4. CASE Refuse(m, "DEADLINE_EXCEEDED") /\ due
    BY <1>4, RefuseMoves DEF Says, Inv
  <1>5. CASE \E code \in {"IDEMPOTENCY_CONFLICT", "EVIDENCE_INVALIDATED", "INVALID_DRAFT"} :
               Refuse(m, code)
    <2>1. PICK code \in {"IDEMPOTENCY_CONFLICT", "EVIDENCE_INVALIDATED", "INVALID_DRAFT"} :
               Refuse(m, code)
      BY <1>5
    <2>2. run[g].at = m.to => Says(g, code)
      BY DEF Says
    <2> QED
      BY <2>1, <2>2, RefuseMoves DEF Inv
  <1> QED
    BY <1>2, <1>3, <1>4, <1>5, SavesDone DEF Finalize

LEMMA VoteDone ==
    ASSUME Inv, DInv, NEW m \in net, m.to = "cast_jury_vote", CastJuryVote(m), UNCHANGED due
    PROVE  DInv'
  <1> DEFINE g == m.gen
  <1>1. g \in DOMAIN run /\ Accepts(m.body)
    BY CopyFacts DEF Inv, DInv, Carried
  <1>2. CASE Refuse(m, "STALE_GENERATION") /\ ~(Current(g) /\ jobs[run[g].job].leased)
    <2>1. Told(g)
      BY <1>2 DEF Current, Owns, Told
    <2>2. run[g].at = m.to => Says(g, "STALE_GENERATION")
      BY <2>1 DEF Says
    <2> QED
      BY <1>2, <2>2, RefuseMoves DEF Inv
  <1>3. CASE Refuse(m, "NOT_FOUND") \/ Refuse(m, "NOT_AI_JUROR")
    BY <1>3, RefuseMoves DEF Says, Inv
  <1>4. CASE \/ votes.closed /\ Refuse(m, "VOTING_CLOSED")
             \/ votes.cast # NULL /\ Refuse(m, "ALREADY_VOTED")
    <2>1. PICK code \in {"VOTING_CLOSED", "ALREADY_VOTED"} : Refuse(m, code)
      BY <1>4
    <2>2. votes'.cast # NULL \/ votes'.closed
      BY <1>4 DEF Refuse
    <2>3. run[g].at = m.to => Says(g, code)
      BY <2>2 DEF Says
    <2> QED
      BY <2>1, <2>3, RefuseMoves DEF Inv
  <1>5. CASE /\ Answer(m, "OK")
             /\ votes' = [votes EXCEPT !.cast = m.body.verdict]
             /\ UNCHANGED <<jobs, verdict>>
    <2>1. m.body.verdict \in Verdicts /\ m.body.verdict # NULL
      BY <1>1, CaseAssumption DEF Accepts
    <2>2. votes'.cast # NULL /\ votes'.closed = votes.closed
      BY <1>5, <2>1 DEF Inv, TInv, TypeOK
    <2>3. VerdictMoves
      BY <1>5, <2>2 DEF VerdictMoves, DInv, Active
    <2>4. run[g].at = m.to => Says(g, "OK")
      BY <2>2 DEF Says
    <2> QED
      BY <1>5, <2>3, <2>4, SameJobs, AnswerMoves, MovesAccount DEF Inv
  <1>6. ~(m.body.verdict \notin Verdicts \/ m.body.reason \in {"blank", "long", "broken"})
    BY <1>1 DEF Accepts
  <1> QED
    BY <1>2, <1>3, <1>4, <1>5, <1>6 DEF CastJuryVote

\* A handler's own step.
LEMMA TakesDone ==
    ASSUME Inv, DInv, UNCHANGED <<jobs, verdict, votes, due>>, NEW g \in DOMAIN run, Takes(g)
    PROVE  DInv'
  BY SameJobs, SameVotes, TakesMoves, MovesAccount DEF Inv

LEMMA SnapshotDone ==
    ASSUME Inv, DInv, NEW g \in DOMAIN run, Snapshot(g)
    PROVE  DInv'
  <1>1. run[g] \in Run /\ ~run[g].refused
    BY RunFacts DEF Inv, DInv, Stand
  <1>2. PICK code \in {"OK", "STALE_GENERATION", "NOT_FOUND", "UNAUTHORIZED"} :
             AfterSnapshot(g, code) /\ (code = "STALE_GENERATION" => ~Current(g))
    BY DEF Snapshot
  <1>3. code = "STALE_GENERATION" => Told(g)
    BY <1>2 DEF Told, Owns, Current
  <1>4. Takes(g)
    <2>1. CASE Goes(g, "juror", run[g]) /\ KindOf(g) = "JURY_VOTE"
      BY <1>1, <2>1, GoesTakes DEF Inv
    <2>2. CASE Asks(g, "begin_generation", NULL, run[g]) /\ KindOf(g) # "JURY_VOTE"
      BY <2>2, AsksTakes DEF Inv, Requests, Body, OfBegun
    <2>3. CASE Ends(g, "cancel") \/ SettleError(g, code)
      BY <1>3, <2>3, EndsTakes, SettleErrorTakes DEF Inv, Closed, Settlements
    <2> QED
      BY <1>2, <2>1, <2>2, <2>3 DEF AfterSnapshot, KindOf
  <1> QED
    BY <1>4, TakesDone DEF Snapshot

LEMMA WritesDone ==
    ASSUME Inv, DInv, NEW g \in DOMAIN run, Writes(g)
    PROVE  DInv'
  <1>1. run[g] \in Run /\ g \in Gen /\ Stand(g) /\ run[g].at \in OfBegun
    BY RunFacts DEF Inv, DInv, Writes, OfBegun
  <1>2. /\ KindOf(g) # "JURY_VOTE"
        /\ KindOf(g) = "SENTENCE" /\ Owns(g) => verdict.gen = g \/ verdict.status = "FINAL"
    BY <1>1 DEF Stand
  <1>3. UNCHANGED verdict
    BY DEF Writes
  <1>4. PICK to \in {"finalize", "generation_failed"}, body \in Body : Asks(g, to, body, run[g])
    <2>1. CASE \E ai, valid \in BOOLEAN :
                 Asks(g, "finalize",
                      [sentence |-> IF run[g].fixed = NULL THEN g ELSE run[g].fixed,
                       ai |-> ai, valid |-> valid], run[g])
      <3>1. PICK ai, valid \in BOOLEAN :
                 Asks(g, "finalize",
                      [sentence |-> IF run[g].fixed = NULL THEN g ELSE run[g].fixed,
                       ai |-> ai, valid |-> valid], run[g])
        BY <2>1
      <3> DEFINE d == [sentence |-> IF run[g].fixed = NULL THEN g ELSE run[g].fixed,
                       ai |-> ai, valid |-> valid]
      <3>2. d.sentence \in Sentence
        BY <1>1 DEF Run, Sentence
      <3>3. d \in Body
        BY <3>2 DEF Draft, Body
      <3> QED
        BY <3>1, <3>3
    <2>2. CASE \E code \in Failure : Asks(g, "generation_failed", [code |-> code], run[g])
      BY <2>2, FailureBody
    <2> QED
      BY <2>1, <2>2 DEF Writes
  <1>5. Takes(g)
    BY <1>2, <1>3, <1>4, AsksTakes DEF Inv, Requests
  <1> QED
    BY <1>5, TakesDone DEF Writes

LEMMA JurorDone ==
    ASSUME Inv, DInv, NEW g \in DOMAIN run, Juror(g)
    PROVE  DInv'
  <1>1. run[g] \in Run /\ ~run[g].refused /\ KindOf(g) = "JURY_VOTE"
    BY RunFacts DEF Inv, DInv, Stand, Juror, OfJuror
  <1>2. CASE Goes(g, "complete", [run[g] EXCEPT !.skipped = TRUE])
    <2> DEFINE r == [[run[g] EXCEPT !.skipped = TRUE] EXCEPT !.at = "complete", !.body = NULL]
    <2>1. /\ r \in Run /\ r.job = run[g].job /\ r.at = "complete"
          /\ r.skipped /\ r.refused = run[g].refused
      BY <1>1 DEF Run, Settlements, Body
    <2>2. run' = [run EXCEPT ![g] = r] /\ net' = net
      BY <1>2 DEF Goes
    <2> HIDE DEF r
    <2>3. Takes(g)
      BY <1>1, <2>1, <2>2 DEF Takes, OfJuror, OfBegun
    <2> QED
      BY <2>3, TakesDone DEF Juror
  <1>3. CASE \E output \in JurorAnswers :
               Asks(g, "cast_jury_vote",
                    IF output # NULL /\ Accepts(output) THEN output ELSE TemplateVote, run[g])
    <2>1. Accepts(TemplateVote) /\ TemplateVote \in Output
      BY DEF Accepts, TemplateVote, TemplateVerdict, Verdicts, Output
    <2>2. PICK vote \in Output : Accepts(vote) /\ Asks(g, "cast_jury_vote", vote, run[g])
      BY <1>3, <2>1 DEF JurorAnswers
    <2>3. Takes(g)
      BY <1>1, <2>2, AsksTakes DEF Inv, Requests, Body, OfBegun
    <2> QED
      BY <2>3, TakesDone DEF Juror
  <1> QED
    BY <1>2, <1>3 DEF Juror

LEMMA GiveUpDone ==
    ASSUME Inv, DInv, NEW g \in DOMAIN run, GiveUp(g)
    PROVE  DInv'
  BY EndsTakes, TakesDone DEF GiveUp, Closed, Settlements, Inv

LEMMA SettleDone ==
    ASSUME Inv, DInv, NEW g \in DOMAIN run, Settle(g)
    PROVE  DInv'
  <1>1. run[g] \in Run /\ Stand(g)
    BY RunFacts DEF Inv, DInv
  <1>2. PICK j \in DOMAIN jobs : j = run[g].job
    BY RunFacts DEF Inv
  <1>3. VerdictMoves
    BY SameVotes DEF Settle
  <1>4. JobMoves
    <2>1. CASE UNCHANGED jobs
      BY <2>1, SameJobs
    <2>2. CASE /\ Owns(g) /\ run[g].at = "complete"
               /\ jobs' = [jobs EXCEPT ![j].status = "SUCCEEDED"]
      <3>1. Accounted(j)
        BY <1>1, <1>2, <2>2 DEF Stand, Accounted
      <3> QED
        BY <1>3, <2>2, <3>1, AccountedStays, SettledMoves DEF Inv
    <2>3. CASE \E status \in {"QUEUED", "FAILED", "CANCELLED"} : Close(j, status)
      BY <2>3, CloseMoves DEF Inv
    <2> QED
      BY <1>2, <2>1, <2>2, <2>3 DEF Settle, Settlements
  <1>5. Takes(g)
    <2> DEFINE r == [run[g] EXCEPT !.at = "ended"]
    <2>1. /\ r \in Run /\ r.job = run[g].job /\ r.at = "ended"
          /\ r.refused = run[g].refused /\ r.skipped = run[g].skipped
      BY <1>1 DEF Run
    <2>2. run' = [run EXCEPT ![g] = r] /\ net' = net
      BY RunFacts DEF Settle, Inv
    <2> HIDE DEF r
    <2> QED
      BY <1>1, <2>1, <2>2 DEF Takes, Stand, OfJuror, OfBegun
  <1> QED
    BY <1>3, <1>4, <1>5, TakesMoves, MovesAccount DEF Inv

LEMMA CutOffDone ==
    ASSUME Inv, DInv, NEW g \in DOMAIN run, CutOff(g)
    PROVE  DInv'
  <1>1. Takes(g)
    BY EndsTakes DEF CutOff, Closed, Inv
  <1>2. VerdictMoves
    BY SameVotes DEF CutOff
  <1>3. JobMoves
    <2> DEFINE j == run[g].job
    <2>1. CASE UNCHANGED jobs
      BY <2>1, SameJobs
    <2>2. CASE jobs' = [jobs EXCEPT ![j].status = "QUEUED", ![j].attempts = @ - 1,
                                    ![j].gen = NULL, ![j].leased = FALSE]
      <3>1. PICK i \in DOMAIN jobs : i = run[g].job
        BY RunFacts DEF Inv
      <3> DEFINE row == [jobs[i] EXCEPT !.status = "QUEUED", !.attempts = @ - 1,
                                        !.gen = NULL, !.leased = FALSE]
      <3>2. row.kind = jobs[i].kind /\ row.status = "QUEUED"
        BY JobFacts DEF Inv, Row
      <3>3. jobs' = [jobs EXCEPT ![i] = row]
        BY <2>2, <3>1, JobFacts DEF Inv, Row
      <3> HIDE DEF row
      <3> QED
        BY <3>2, <3>3, OneRowMoves DEF Inv
    <2> QED
      BY <2>1, <2>2 DEF CutOff
  <1> QED
    BY <1>1, <1>2, <1>3, TakesMoves, MovesAccount DEF Inv

\* The queue, the clock and the backend's own tasks send nothing.
LEMMA QuietDone ==
    ASSUME Inv, DInv, UNCHANGED <<run, net>>, JobMoves, VerdictMoves
    PROVE  DInv'
  BY StillMoves, MovesAccount DEF Inv

LEMMA QueueDone ==
    ASSUME Inv, DInv, NEW j \in DOMAIN jobs, LeaseExpires(j) \/ Reap(j)
    PROVE  DInv'
  <1>1. UNCHANGED <<run, net>> /\ VerdictMoves
    BY SameVotes DEF LeaseExpires, Reap
  <1>2. CASE LeaseExpires(j)
    <2> DEFINE row == [jobs[j] EXCEPT !.leased = FALSE]
    <2>1. /\ row.kind = jobs[j].kind /\ row.status = jobs[j].status /\ row.status = "RUNNING"
          /\ row.gen = jobs[j].gen /\ ~row.leased
      BY <1>2, JobFacts DEF Inv, LeaseExpires, Row
    <2>2. jobs' = [jobs EXCEPT ![j] = row]
      BY <1>2, JobFacts DEF Inv, LeaseExpires
    <2> HIDE DEF row
    <2> QED
      BY <1>1, <2>1, <2>2, OneRowMoves, QuietDone DEF Inv
  <1>3. CASE Reap(j)
    <2>1. PICK status \in {"QUEUED", "FAILED", "CANCELLED"} : Close(j, status)
      BY <1>3 DEF Reap
    <2> QED
      BY <1>1, <2>1, CloseMoves, QuietDone DEF Inv
  <1> QED
    BY <1>2, <1>3

LEMMA ClaimDone ==
    ASSUME Inv, DInv, NEW j \in DOMAIN jobs, Claim(j)
    PROVE  DInv'
  <1> DEFINE g == Len(run) + 1
             row == [jobs[j] EXCEPT !.status = "RUNNING", !.attempts = @ + 1,
                                    !.gen = g, !.leased = TRUE]
             asked == [gen |-> g, to |-> "begin_generation", body |-> NULL]
  <1>1. run \in Seq(Run) /\ Len(run) \in Nat /\ DOMAIN run = 1..Len(run)
    <2>1. run \in Seq(Run)
      BY DEF Inv, TInv, TypeOK
    <2> QED
      BY <2>1, LenProperties
  <1>2. /\ row.kind = jobs[j].kind /\ row.status = "RUNNING" /\ row.gen = g
        /\ jobs' = [jobs EXCEPT ![j] = row]
    BY JobFacts DEF Inv, Claim, Row
  <1>3. PICK r :
          /\ r.job = j /\ ~r.refused /\ run' = Append(run, r)
          /\ \/ r.at = "snapshot" /\ net' = net
             \/ /\ r.at = "begin_generation" /\ jobs[j].kind # "JURY_VOTE"
                /\ net' = net \cup {asked}
    BY DEF Claim, Started
  <1>4. /\ DOMAIN run' = DOMAIN run \cup {g} /\ g \notin DOMAIN run
        /\ \A h \in DOMAIN run : run'[h] = run[h]
        /\ run'[g] = r
    <2>1. DOMAIN run' = 1..(Len(run) + 1)
      BY <1>1, <1>3
    <2> QED
      BY <1>1, <1>3, <2>1
  <1>5. JobMoves
    <2>1. DOMAIN jobs' = DOMAIN jobs /\ jobs'[j] = row
      BY <1>2, JobFacts DEF Inv
    <2>2. \A i \in DOMAIN jobs : i # j => jobs'[i] = jobs[i]
      BY <1>2, JobFacts DEF Inv
    <2> HIDE DEF row, g
    <2>3. RowMoves(j)
      BY <1>2, <1>3, <1>4, <2>1 DEF RowMoves
    <2>4. \A i \in DOMAIN jobs : i # j => RowMoves(i)
      BY <2>2 DEF RowMoves
    <2> QED
      BY <2>1, <2>3, <2>4 DEF JobMoves
  <1>6. RunMoves
    <2> HIDE DEF row
    <2>1. ASSUME NEW h \in DOMAIN run', h = g PROVE Stand(h)'
      <3>1. run'[h].at \in {"snapshot", "begin_generation"} /\ ~run'[h].refused
        BY <1>3, <1>4, <2>1
      <3>2. run'[h].at = "begin_generation" => jobs[j].kind # "JURY_VOTE"
        BY <1>3, <1>4, <2>1
      <3>3. KindOf(h)' = jobs[j].kind
        BY <1>3, <1>4, <1>5, <2>1 DEF KindOf, JobMoves, RowMoves
      <3> QED
        BY <3>1, <3>2, <3>3 DEF Stand, OfJuror, OfBegun
    <2>2. ASSUME NEW m \in net', m \notin net PROVE m.gen \in DOMAIN run' /\ Carried(m)'
      <3>1. m = asked /\ jobs[j].kind # "JURY_VOTE"
        BY <1>3, <2>2
      <3>2. m.gen = g /\ m.to = "begin_generation" /\ m.gen \in DOMAIN run'
        BY <1>4, <3>1
      <3>3. KindOf(m.gen)' = jobs[j].kind
        BY <1>3, <1>4, <1>5, <3>2 DEF KindOf, JobMoves, RowMoves
      <3> QED
        BY <3>1, <3>2, <3>3 DEF Carried
    <2> QED
      BY <1>4, <2>1, <2>2 DEF RunMoves
  <1>7. VerdictMoves
    BY SameVotes DEF Claim
  <1> QED
    BY <1>5, <1>6, <1>7, MovesAccount DEF Inv

LEMMA WatchdogDone == ASSUME Inv, DInv, Watchdog PROVE DInv'
  <1>1. verdict'.status = "FINAL" /\ verdict'.gen = NULL
    BY DEF Watchdog, Fallback, Inv, TInv, TypeOK, VerdictState
  <1>2. UNCHANGED <<run, net, votes, due>>
    BY DEF Watchdog
  <1>3. VerdictMoves
    BY <1>1, <1>2, FinalMoves
  <1>4. JobMoves
    BY CancelMoves DEF Watchdog, Inv
  <1> QED
    BY <1>2, <1>3, <1>4, QuietDone

LEMMA WithdrawDone == ASSUME Inv, DInv, Withdraw PROVE DInv'
  <1>1. UNCHANGED <<run, net, verdict, votes, due>>
    BY DEF Withdraw
  <1>2. VerdictMoves
    BY <1>1, SameVotes
  <1>3. JobMoves
    BY CancelMoves DEF Withdraw, Inv
  <1> QED
    BY <1>1, <1>2, <1>3, QuietDone

LEMMA RetryDone == ASSUME Inv, DInv, InsertRetry PROVE DInv'
  <1> DEFINE row == NewRow("TEXT_RETRY")
  <1>1. UNCHANGED <<run, net, verdict, votes, due>>
    BY DEF InsertRetry
  <1>2. jobs' = Append(jobs, row) /\ Len(jobs) - 1 < verdict.rounds
    BY DEF InsertRetry
  <1>3. verdict.status = "FINAL"
    <2>1. Len(jobs) \in Nat /\ 1 \in 1..Len(jobs)
      BY JobFacts DEF DInv, Rows, Inv
    <2>2. verdict.rounds \in 0..Rounds
      BY DEF Inv, TInv, TypeOK, VerdictState
    <2>3. verdict.rounds # 0
      BY <1>2, <2>1, <2>2, CaseAssumption
    <2> QED
      BY <2>3 DEF DInv, Active
  <1>4. JobMoves
    <2>1. /\ DOMAIN jobs' = 1..(Len(jobs) + 1) /\ jobs'[Len(jobs) + 1] = row
          /\ \A j \in DOMAIN jobs : jobs'[j] = jobs[j]
      BY <1>2, JobFacts DEF Inv
    <2>2. DOMAIN jobs' = DOMAIN jobs \cup {Len(jobs) + 1}
      BY <2>1, JobFacts DEF Inv
    <2> HIDE DEF row
    <2>3. \A j \in DOMAIN jobs : RowMoves(j)
      BY <2>1 DEF RowMoves
    <2>4. \A j \in DOMAIN jobs' \ DOMAIN jobs : jobs'[j] = row
      BY <2>1, <2>2
    <2> QED
      BY <1>1, <1>3, <2>2, <2>3, <2>4 DEF JobMoves, row
  <1>5. VerdictMoves
    BY <1>1, SameVotes
  <1> QED
    BY <1>1, <1>4, <1>5, QuietDone

LEMMA ClockDone == ASSUME Inv, DInv, DeadlinePasses \/ VotingCloses PROVE DInv'
  <1>1. UNCHANGED <<run, net, jobs, verdict>> /\ (due => due')
    BY DEF DeadlinePasses, VotingCloses
  <1>2. votes'.cast = votes.cast /\ (votes.closed => votes'.closed)
    BY DEF DeadlinePasses, VotingCloses, Inv, TInv, TypeOK
  <1>3. VerdictMoves
    BY <1>1, <1>2 DEF VerdictMoves, DInv, Active
  <1> QED
    BY <1>1, <1>3, SameJobs, QuietDone

LEMMA NextDone == Inv /\ DInv /\ [Next]_vars => DInv'
  <1> SUFFICES ASSUME Inv, DInv, [Next]_vars PROVE DInv'
    OBVIOUS
  <1>1. ASSUME NEW m \in net, Handle(m) PROVE DInv'
    <2>1. UNCHANGED due
      BY <1>1 DEF Handle
    <2> QED
      BY <1>1, <2>1, UnauthorizedDone, BeginDone, FinalizeDone, FailedDone, VoteDone DEF Handle
  <1>2. CASE Next
    BY <1>1, <1>2, ClaimDone, QueueDone, SettleDone, CutOffDone, SnapshotDone, WritesDone,
       JurorDone, GiveUpDone, WatchdogDone, RetryDone, WithdrawDone, ClockDone
    DEF Next
  <1>3. CASE UNCHANGED vars
    BY <1>3, SameJobs, SameVotes, QuietDone DEF vars
  <1> QED
    BY <1>2, <1>3

LEMMA InitDone == Init => DInv
  <1> SUFFICES ASSUME Init PROVE DInv
    OBVIOUS
  <1>1. DOMAIN run = {} /\ net = {}
    BY DEF Init
  <1>2. Rows
    <2>1. CASE jobs = <<NewRow("SENTENCE")>>
      BY <2>1 DEF Rows, NewRow
    <2>2. CASE jobs = <<NewRow("JURY_VOTE"), NewRow("JURY_VOTE")>>
      BY <2>2 DEF Rows, NewRow
    <2> QED
      BY <2>1, <2>2 DEF Init
  <1>3. Active
    BY DEF Init, Active
  <1> QED
    BY <1>1, <1>2, <1>3 DEF DInv

\* A SENTENCE job is marked done only when its verdict is fixed or its deadline
\* has passed, however many copies of its requests are lost or late: settle of a
\* stale answer, finalize that closes the job itself, the fallback.
THEOREM CaseDoneIsDecided == Spec => []DoneIsDecided
  <1>1. DInv => DoneIsDecided
    BY DEF DInv, Rows, Accounted, DoneIsDecided
  <1> QED
    BY InitInv, NextInv, InitDone, NextDone, <1>1, PTL DEF Spec

\* A JURY_VOTE job is marked done only when a vote is in the box, voting is
\* closed or its room was left out, and no vote is ever refused as malformed:
\* the juror's own checks come before the cast.
THEOREM CaseDoneHasVoted == Spec => []DoneHasVoted
  <1>1. DInv => DoneHasVoted
    BY DEF DInv, Stand, Rows, Accounted, DoneHasVoted
  <1> QED
    BY InitInv, NextInv, InitDone, NextDone, <1>1, PTL DEF Spec
=============================================================================
