----------------------------- MODULE Sentencing -----------------------------
(***************************************************************************)
(* Graph C, the sentencing graph (graphs/sentencing.py): one run of a      *)
(* SENTENCE or TEXT_RETRY job.  The nodes fix the sentence, let a writer   *)
(* draft one text for each intensity, check the texts by rule, let an      *)
(* evaluator judge them, send failed texts back to the writer or replace   *)
(* them by templates, and save the verdict or report why there is none.    *)
(*                                                                         *)
(* Models answer anything; the rules are a function of the text.  Every    *)
(* node that calls a model or saves a dossier may find the evidence        *)
(* withdrawn, and a run may end at any await.                              *)
(***************************************************************************)
EXTENDS Naturals

CONSTANTS
    Intensity,          \* target_intensities of the run
    Position,           \* their order in target_intensities
    Hell,               \* the intensity judged by a model of its own, or none
    RepairMax,          \* IMMEDIATE_REPAIR_MAX
    EvalRounds,         \* _EVAL_ROUNDS
    Start,              \* time left at begin-generation; what is left is a class
    InlineAt,           \* time an inline dossier must leave: inline_context_reserve
    WriterAt,           \* reserve_after(writer)
    RepairAt,           \* REPAIR_MIN_REMAINING_S
    EvalAt,             \* reserve_after(evaluator)
    NULL

WriterSlots == 3
EvaluatorSlots == 2

ASSUME SentencingAssumption ==
    /\ Intensity # {} /\ Hell \subseteq Intensity
    /\ Position \in [Intensity -> 0..WriterSlots - 1]
    /\ \A i, j \in Intensity : Position[i] = Position[j] => i = j
    /\ {RepairMax, EvalRounds, Start, InlineAt, WriterAt, RepairAt, EvalAt} \subseteq Nat
    /\ EvalRounds > 0

VARIABLES
    at,         \* the node to run
    state,      \* SentenceGraphState
    left,       \* class of deadline.remaining_s
    saved,      \* what finalize has saved
    passed,     \* history: what the evaluator has passed
    calls,      \* history: model calls, by node and call_index
    again       \* history: a call took the place of an earlier one

vars == <<at, state, left, saved, passed, calls, again>>
History == <<passed, calls, again>>

Nodes == {"begin_generation", "load_valid_prep", "minimal_dossier", "inline_context",
          "sentencing", "writer", "join", "deterministic_validate", "evaluator",
          "writer_repair", "finalize", "generation_failed", "end"}

Failures == {"SCHEMA_INVALID", "EVAL_FAILED", "EVIDENCE_INVALIDATED",
             "DEADLINE_EXCEEDED", "BUDGET_EXCEEDED", "VENDOR_UNAVAILABLE"}

\* A text: who wrote it, in which pass, and whether apply_text_rules accepts it.
Text == [source : {"AI", "TEMPLATE"}, pass : 0..RepairMax, clean : BOOLEAN]

\* D-19 replaces the reason by that of the template.
Decision == [source : {"AI", "RULE", "FIXED"}, reason : {"given", "template"}]

ASSUME NullAssumption == NULL \notin Text /\ NULL \notin Decision /\ NULL \notin Failures

Drafts == [Intensity -> Text \cup {NULL}]

\* SentenceGraphState, but for what is read by models alone.
GraphState ==
    [mode : {"INITIAL", "REGENERATE"},
     needs : BOOLEAN,                  \* guilty of a spending
     templates : {"good", "bad", "none"},
     sentencing : Decision \cup {NULL},
     drafts : Drafts,
     invalid : SUBSET Intensity,       \* writer_invalid
     errors : SUBSET {"INVALID_CARD", "SKIPPED", "BUDGET", "TIMEOUT", "VENDOR"},
     repair_count : 0..RepairMax,
     repair_targets : SUBSET Intensity,
     eval_kept : SUBSET (Intensity \X Text),
     attempt : 0..EvalRounds - 1,      \* of the loop in run_evaluator
     eval_round : 0..EvalRounds * (RepairMax + 1),
     draft_hash : [drafts : Drafts, sentencing : Decision \cup {NULL}] \cup {NULL},
     failure : Failures \cup {NULL}]

TypeOK ==
    /\ at \in Nodes
    /\ state \in GraphState
    /\ left \in 0..Start
    /\ saved \in [drafts : Drafts, sentencing : Decision \cup {NULL}] \cup {NULL}
    /\ passed \subseteq Intensity \X Text \X (Decision \cup {NULL})
    /\ calls \subseteq {"context", "sentencing", "writer", "evaluator"} \X Nat
    /\ again \in BOOLEAN

\* initial_state
Init ==
    /\ at = "begin_generation"
    /\ \E mode \in {"INITIAL", "REGENERATE"}, needs \in BOOLEAN,
          templates \in {"good", "bad", "none"} :
         state = [mode |-> mode, needs |-> needs, templates |-> templates,
                  sentencing |-> NULL, drafts |-> [i \in Intensity |-> NULL],
                  invalid |-> {}, errors |-> {}, repair_count |-> 0,
                  repair_targets |-> {}, eval_kept |-> {}, attempt |-> 0,
                  eval_round |-> 0, draft_hash |-> NULL, failure |-> NULL]
    /\ left = Start
    /\ saved = NULL
    /\ passed = {} /\ calls = {} /\ again = FALSE

-----------------------------------------------------------------------------
Regenerate == state.mode = "REGENERATE"

\* A node's update of the state and the edge it takes.
Goes(node, s) == at' = node /\ state' = s
Fails(s, code) == Goes("generation_failed", [s EXCEPT !.failure = code])

\* LLMGateway: one row of ai.llm_calls for each node and call_index.
Call(made) ==
    /\ calls' = calls \cup made
    /\ again' = (again \/ made \cap calls # {})

NoCall == UNCHANGED <<calls, again>>
Quietly == UNCHANGED <<left, saved, passed>> /\ NoCall

AIs(drafts) == {i \in Intensity : drafts[i] # NULL /\ drafts[i].source = "AI"}

Template == [source |-> "TEMPLATE", pass |-> 0, clean |-> state.templates = "good"]

-----------------------------------------------------------------------------
(* Beginning, dossier, sentence.                                           *)

\* 409 ends the run.  The sentence of a verdict that is FINAL comes with the
\* answer; one that should not be there, or is missing, is a failure.
BeginGeneration ==
    /\ at = "begin_generation"
    /\ \/ Goes("end", state)
       \/ \E fixed \in BOOLEAN :
            IF (fixed /\ ~state.needs) \/ (Regenerate /\ state.needs /\ ~fixed)
            THEN Fails(state, "SCHEMA_INVALID")
            ELSE Goes("load_valid_prep",
                      [state EXCEPT !.sentencing =
                         IF fixed THEN [source |-> "FIXED", reason |-> "given"] ELSE NULL])
    /\ Quietly

SentencingOrWriter ==
    IF state.mode = "INITIAL" /\ state.needs /\ state.sentencing = NULL
    THEN "sentencing" ELSE "writer"

LoadValidPrep ==
    /\ at = "load_valid_prep"
    /\ \/ Goes(SentencingOrWriter, state)
       \/ Goes(IF ~Regenerate /\ left > InlineAt THEN "inline_context" ELSE "minimal_dossier",
               state)
    /\ Quietly

MinimalDossier ==
    /\ at = "minimal_dossier"
    /\ (Fails(state, "EVIDENCE_INVALIDATED") \/ Goes(SentencingOrWriter, state))
    /\ Quietly

\* A dossier model that fails leaves the facts the code gathered.
InlineContext ==
    /\ at = "inline_context"
    /\ (Fails(state, "EVIDENCE_INVALIDATED") \/ Goes(SentencingOrWriter, state))
    /\ IF left > InlineAt THEN Call({<<"context", 0>>}) ELSE NoCall
    /\ UNCHANGED <<left, saved, passed>>

\* The model's sentence (with a reason too long, the template's), or the
\* fallback of the policy when the model fails or no time is left.
SentencingNode ==
    /\ at = "sentencing"
    /\ \/ /\ left > 0
          /\ \/ Fails(state, "EVIDENCE_INVALIDATED")
             \/ \E reason \in {"given", "template"} :
                  Goes("writer", [state EXCEPT !.sentencing = [source |-> "AI", reason |-> reason]])
          /\ Call({<<"sentencing", 0>>})
       \/ /\ Goes("writer", [state EXCEPT !.sentencing = [source |-> "RULE", reason |-> "given"]])
          /\ IF left > 0 THEN Call({<<"sentencing", 0>>}) ELSE NoCall
    /\ UNCHANGED <<left, saved, passed>>

-----------------------------------------------------------------------------
(* Writing.                                                                *)

WriterCallIndex(offset, i) == offset * WriterSlots + Position[i]

Written == {"CLEAN", "UNCLEAN"}
Answers == Written \cup {"INVALID_CARD", "SKIPPED", "BUDGET", "TIMEOUT", "VENDOR"}

\* A call is started only while it leaves the evaluator's time; calls wait for
\* one another at the semaphore, so that some may be too late and others not.
InTime(answer, targets, later) ==
    \A i \in targets : IF answer[i] = "SKIPPED" THEN later <= WriterAt ELSE left > WriterAt

NewDraft(answer, offset) ==
    IF answer \in Written THEN [source |-> "AI", pass |-> offset, clean |-> answer = "CLEAN"]
    ELSE IF Regenerate \/ state.templates = "none" THEN NULL ELSE Template

\* One call for each target at once.  All are waited for; if one of them found
\* the evidence withdrawn, nothing of the others is taken.
FanOut(targets, offset, next) ==
    /\ \/ Fails(state, "EVIDENCE_INVALIDATED") /\ UNCHANGED left /\ NoCall
       \/ \E answer \in [targets -> Answers], later \in 0..left :
            /\ InTime(answer, targets, later)
            /\ left' = later
            /\ Goes(next,
                 [state EXCEPT
                    !.drafts = [i \in Intensity |->
                                  IF i \in targets THEN NewDraft(answer[i], offset) ELSE @[i]],
                    !.invalid = (@ \ targets) \cup {i \in targets : answer[i] = "INVALID_CARD"},
                    !.errors = IF next = "join" THEN {answer[i] : i \in targets} \ Written ELSE {},
                    !.repair_count = offset,
                    !.repair_targets = {},
                    !.draft_hash = NULL])
            /\ Call({<<"writer", WriterCallIndex(offset, i)>> :
                       i \in {j \in targets : answer[j] # "SKIPPED"}})
    /\ UNCHANGED <<saved, passed>>

Writer == at = "writer" /\ FanOut(Intensity, state.repair_count, "join")

WriterRepair ==
    /\ at = "writer_repair"
    /\ FanOut(state.repair_targets, state.repair_count + 1, "deterministic_validate")

\* Variant: the number of passes may be reached.
MayRepairOnceMore ==
    state.mode = "INITIAL" /\ state.repair_count <= RepairMax /\ left >= RepairAt

MayRepair ==
    state.mode = "INITIAL" /\ state.repair_count < RepairMax /\ left >= RepairAt

Repairs(s, targets, kept) ==
    Goes("writer_repair", [s EXCEPT !.repair_targets = targets, !.eval_kept = kept])

\* writer_failure_code, and join's own for cards out of shape
NoTextCode ==
    IF state.invalid # {} /\ state.invalid \cup AIs(state.drafts) = Intensity THEN "SCHEMA_INVALID"
    ELSE IF "BUDGET" \in state.errors THEN "BUDGET_EXCEEDED"
    ELSE IF state.errors \cap {"SKIPPED", "TIMEOUT"} # {} THEN "DEADLINE_EXCEEDED"
    ELSE "VENDOR_UNAVAILABLE"

Join ==
    LET ai == AIs(state.drafts)
        s == [state EXCEPT !.errors = {}]   \* read here only
    IN  /\ at = "join"
        /\ IF state.invalid # {} /\ MayRepair /\ left > WriterAt
           THEN Repairs(s, state.invalid, {})
           ELSE IF ai = {} \/ (Regenerate /\ ai # Intensity)
           THEN Fails(s, NoTextCode)
           ELSE IF \E i \in Intensity : state.drafts[i] = NULL
           THEN Fails(s, "SCHEMA_INVALID")
           ELSE Goes("deterministic_validate", s)
        /\ Quietly

-----------------------------------------------------------------------------
(* Checking by rule: assemble.                                             *)

Bad(drafts) == {i \in Intensity : drafts[i] # NULL /\ ~drafts[i].clean}

Templated(drafts, gone) == [i \in Intensity |-> IF i \in gone THEN Template ELSE drafts[i]]

\* Variant: templates may be all that is left.
AssembleFailureLax(drafts) ==
    CASE \E i \in Intensity : drafts[i] = NULL                         -> "SCHEMA_INVALID"
      [] Bad(drafts) # {} /\ Regenerate                                -> "EVAL_FAILED"
      [] \E i \in Bad(drafts) : drafts[i].source = "TEMPLATE"          -> "SCHEMA_INVALID"
      [] Bad(drafts) # {} /\ state.templates = "none"                  -> "EVAL_FAILED"
      [] Bad(drafts) # {} /\ state.templates = "bad"                   -> "SCHEMA_INVALID"
      [] OTHER                                                         -> NULL

\* The failure of assemble when it sends nothing back to the writer, or NULL.
AssembleFailure(drafts) ==
    CASE \E i \in Intensity : drafts[i] = NULL                         -> "SCHEMA_INVALID"
      [] Bad(drafts) # {} /\ Regenerate                                -> "EVAL_FAILED"
      [] \E i \in Bad(drafts) : drafts[i].source = "TEMPLATE"          -> "SCHEMA_INVALID"
      [] Bad(drafts) # {} /\ state.templates = "none"                  -> "EVAL_FAILED"
      [] Bad(drafts) # {} /\ state.templates = "bad"                   -> "SCHEMA_INVALID"
      [] AIs(Templated(drafts, Bad(drafts))) = {}                      -> "EVAL_FAILED"
      [] OTHER                                                         -> NULL

\* Texts the rules reject go back to the writer once, or become templates.
DeterministicValidate ==
    LET bad == Bad(state.drafts)
        whole == \A i \in Intensity : state.drafts[i] # NULL
        failure == AssembleFailure(state.drafts)
    IN  /\ at = "deterministic_validate"
        /\ IF whole /\ bad # {} /\ MayRepair /\ bad \subseteq AIs(state.drafts)
           THEN Repairs(state, bad, {})
           ELSE IF failure # NULL
           THEN Fails(state, failure)
           ELSE Goes("evaluator",
                     [state EXCEPT !.drafts = Templated(@, bad), !.attempt = 0])
        /\ Quietly

-----------------------------------------------------------------------------
(* Judging: one round of run_evaluator.                                    *)

\* Variant: each run of the node counts its rounds from 0.
EvaluatorCallIndexLocal(apart) == state.attempt * EvaluatorSlots + (IF apart THEN 1 ELSE 0)

EvaluatorCallIndex(apart) == state.eval_round * EvaluatorSlots + (IF apart THEN 1 ELSE 0)

\* What was passed before and has not changed since is not judged again.
Scope ==
    LET reused == {i \in Intensity : <<i, state.drafts[i]>> \in state.eval_kept}
    IN  IF reused = Intensity THEN Intensity ELSE Intensity \ reused

Groups == {Scope \cap Hell, Scope \ Hell} \ {{}}

EvaluatorCalls == Call({<<"evaluator", EvaluatorCallIndex(group \subseteq Hell)>> : group \in Groups})

\* Variant: kept though the reason of the sentence was replaced.
KeptAnyway(changed, reasonFailed) ==
    {<<i, state.drafts[i]>> : i \in Intensity \ changed}

Kept(changed, reasonFailed) ==
    IF reasonFailed THEN {} ELSE {<<i, state.drafts[i]>> : i \in Intensity \ changed}

\* Texts that failed go to the writer, all of them or none; the others that
\* did not pass become templates.
Correct(s, rejected, incomplete, reasonFailed) ==
    LET repair == rejected # {} /\ MayRepair /\ rejected \subseteq AIs(s.drafts)
        gone == IF repair THEN incomplete ELSE rejected \cup incomplete
        drafts == Templated(s.drafts, gone)
        t == [s EXCEPT !.drafts = drafts,
                       !.sentencing = IF reasonFailed THEN [@ EXCEPT !.reason = "template"] ELSE @]
    IN  IF ~(gone \subseteq AIs(s.drafts)) \/ (gone # {} /\ s.templates = "none")
        THEN Fails(s, "EVAL_FAILED")
        ELSE IF repair
        THEN Repairs([t EXCEPT !.draft_hash = NULL], rejected,
                     Kept(rejected \cup incomplete, reasonFailed))
        ELSE IF AssembleFailure(drafts) # NULL
        THEN Fails(s, "EVAL_FAILED")
        ELSE Goes("evaluator", [t EXCEPT !.drafts = Templated(@, Bad(@)), !.attempt = @ + 1])

\* A report: for each text judged whether it passed, failed or was left out,
\* whether the reason failed, and whether anything else of it is wrong.  A
\* template passes whatever the evaluator thinks of it.
Judge(verdict, reasonFailed, global) ==
    LET passes(i) == \/ i \notin Scope
                     \/ verdict[i] = "pass"
                     \/ verdict[i] = "fail" /\ state.drafts[i].source = "TEMPLATE"
        notPassed == {i \in Intensity : ~passes(i)}
        rejected == {i \in notPassed : verdict[i] = "fail"}
        s == [state EXCEPT !.eval_round = @ + 1, !.eval_kept = {}]
    IN  /\ passed' = passed \cup {<<i, state.drafts[i], state.sentencing>> : i \in Scope \ notPassed}
        /\ IF notPassed = {} /\ ~reasonFailed /\ ~global
           THEN Goes("finalize", [s EXCEPT !.draft_hash = [drafts |-> state.drafts,
                                                           sentencing |-> state.sentencing]])
           ELSE IF \/ state.attempt = EvalRounds - 1 \/ Regenerate \/ global
                   \/ reasonFailed /\ state.templates = "none"
           THEN Fails(s, "EVAL_FAILED")
           ELSE Correct(s, rejected, notPassed \ rejected, reasonFailed)

\* Too late for another call: the round is not begun.
NoTimeToJudge ==
    /\ at = "evaluator"
    /\ left <= EvalAt
    /\ Fails([state EXCEPT !.eval_round = @ + 1], "DEADLINE_EXCEEDED")
    /\ Quietly

Evaluator ==
    /\ at = "evaluator"
    /\ left > EvalAt
    /\ EvaluatorCalls
    /\ \/ Fails(state, "EVIDENCE_INVALIDATED") /\ UNCHANGED passed
       \/ /\ \E code \in {"BUDGET_EXCEEDED", "VENDOR_UNAVAILABLE", "EVAL_FAILED"} :
               Fails([state EXCEPT !.eval_round = @ + 1], code)
          /\ UNCHANGED passed
       \/ \E verdict \in [Scope -> {"pass", "fail", "none"}], reasonFailed, global \in BOOLEAN :
            /\ reasonFailed => state.needs
            /\ Judge(verdict, reasonFailed, global)
    /\ UNCHANGED <<left, saved>>

-----------------------------------------------------------------------------
(* Saving.                                                                 *)

\* The node refuses texts or a sentence other than the evaluator saw, and
\* asks for withdrawn evidence first.  The backend saves (its answer may be
\* lost), discards, or rejects the draft.
Finalize ==
    LET ai == AIs(state.drafts)
    IN  /\ at = "finalize"
        /\ state.draft_hash = [drafts |-> state.drafts, sentencing |-> state.sentencing]
        /\ \/ Fails(state, "EVIDENCE_INVALIDATED") /\ UNCHANGED saved
           \/ Goes("end", state) /\ saved' \in {saved, state.draft_hash}
           \/ /\ IF ai # {} /\ MayRepair
                 THEN Repairs(state, ai, {})
                 ELSE Fails(state, "SCHEMA_INVALID")
              /\ UNCHANGED saved
        /\ UNCHANGED <<left, passed>> /\ NoCall

GenerationFailed == at = "generation_failed" /\ Goes("end", state) /\ Quietly

\* An exception no node handles, or the cancellation of the job.
CutOff == at # "end" /\ Goes("end", state) /\ Quietly

TimePasses ==
    /\ at # "end"
    /\ left' \in {t \in 0..Start : t < left}
    /\ UNCHANGED <<at, state, saved, passed>> /\ NoCall

-----------------------------------------------------------------------------
Next ==
    \/ BeginGeneration \/ LoadValidPrep \/ MinimalDossier \/ InlineContext
    \/ SentencingNode \/ Writer \/ Join \/ DeterministicValidate
    \/ NoTimeToJudge \/ Evaluator \/ WriterRepair \/ Finalize
    \/ GenerationFailed \/ CutOff \/ TimePasses

Spec == Init /\ [][Next]_vars

-----------------------------------------------------------------------------
(* Properties.                                                             *)

\* Whatever was rewritten, kept from an earlier round, replaced by a template
\* or given another reason on the way: every text that is saved was passed by
\* the evaluator as it is saved, beside the sentence it is saved with.
SavedIsJudged ==
    saved # NULL =>
        \A i \in Intensity : <<i, saved.drafts[i], saved.sentencing>> \in passed

\* A verdict is saved whole, with texts the rules accept, at least one of them
\* written by a model, and a sentence where one is due; a TEXT_RETRY saves no
\* template and no sentence but the one that stands.
SavedIsSound ==
    saved # NULL =>
        /\ \A i \in Intensity : saved.drafts[i] # NULL /\ saved.drafts[i].clean
        /\ AIs(saved.drafts) # {}
        /\ saved.sentencing # NULL <=> state.needs
        /\ Regenerate =>
             /\ AIs(saved.drafts) = Intensity
             /\ state.needs => saved.sentencing = [source |-> "FIXED", reason |-> "given"]

\* No two model calls of a run share node and call_index, the key of
\* ai.llm_calls, through repairs from four places and all evaluator rounds.
CallsAreDistinct == ~again
=============================================================================
