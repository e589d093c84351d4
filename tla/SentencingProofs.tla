-------------------------- MODULE SentencingProofs --------------------------
(***************************************************************************)
(* What Sentencing saves and the calls it makes for it, for any            *)
(* intensities, limits and times.                                          *)
(***************************************************************************)
EXTENDS Sentencing, TLAPS

(***************************************************************************)
(* Types.  The counters keep their bounds because a repair is entered only *)
(* below RepairMax, and each pass of the texts gets EvalRounds rounds: at  *)
(* the evaluator no more rounds are used up than the attempts made.        *)
(***************************************************************************)
RepairIsLeft == at = "writer_repair" => state.repair_count < RepairMax

RoundsUsed ==
    /\ state.eval_round <= EvalRounds * (state.repair_count + 1)
    /\ at = "evaluator" => state.eval_round <= EvalRounds * state.repair_count + state.attempt
    /\ at \in {"begin_generation", "load_valid_prep", "minimal_dossier", "inline_context",
               "sentencing", "writer", "join", "deterministic_validate"} =>
         state.eval_round <= EvalRounds * state.repair_count

\* The evaluator is given a text for each intensity.
Whole == at = "evaluator" => \A i \in Intensity : state.drafts[i] \in Text

\* A sentence stands from the writer on, exactly where one is due.
SentenceDue ==
    /\ at \in {"load_valid_prep", "minimal_dossier", "inline_context", "sentencing", "writer",
              "join", "deterministic_validate", "evaluator", "writer_repair", "finalize"} =>
         /\ state.sentencing # NULL => state.needs
         /\ Regenerate /\ state.needs =>
              state.sentencing = [source |-> "FIXED", reason |-> "given"]
    /\ at = "sentencing" => state.needs /\ ~Regenerate
    /\ at \in {"writer", "join", "deterministic_validate", "evaluator", "writer_repair",
              "finalize"} =>
         (state.needs => state.sentencing # NULL)

GInv == at \in Nodes /\ state \in GraphState /\ RepairIsLeft /\ RoundsUsed /\ Whole /\ SentenceDue

TInv == TypeOK /\ GInv

LEMMA RoundsGrow ==
    ASSUME NEW n \in Nat, NEW m \in Nat, n <= m
    PROVE  /\ EvalRounds \in Nat \ {0}
           /\ EvalRounds * n \in Nat /\ EvalRounds * (n + 1) \in Nat
           /\ EvalRounds * n + EvalRounds = EvalRounds * (n + 1)
           /\ EvalRounds * n <= EvalRounds * m
  BY SentencingAssumption

LEMMA TemplateIsText ==
    ASSUME state \in GraphState PROVE Template \in Text /\ Template.source = "TEMPLATE"
  <1>1. (state.templates = "good") \in BOOLEAN
    OBVIOUS
  <1>2. 0 \in 0..RepairMax
    BY SentencingAssumption
  <1> QED
    BY <1>1, <1>2 DEF Template, Text

LEMMA TemplatedType ==
    ASSUME state \in GraphState, NEW drafts \in Drafts, NEW gone
    PROVE  Templated(drafts, gone) \in Drafts
  BY TemplateIsText DEF Templated, Drafts

LEMMA TemplatedWhole ==
    ASSUME state \in GraphState, NEW drafts \in Drafts, NEW gone,
           \A i \in Intensity : drafts[i] \in Text
    PROVE  \A i \in Intensity : Templated(drafts, gone)[i] \in Text
  BY TemplateIsText DEF Templated

LEMMA FailsType ==
    ASSUME NEW s \in GraphState, NEW code \in Failures, Fails(s, code),
           s.eval_round <= EvalRounds * (s.repair_count + 1)
    PROVE  GInv'
  <1>1. /\ at' = "generation_failed" /\ state' \in GraphState
        /\ state'.repair_count = s.repair_count /\ state'.eval_round = s.eval_round
    BY DEF Fails, Goes, GraphState
  <1> QED
    BY <1>1 DEF GInv, Nodes, RepairIsLeft, RoundsUsed, Whole, SentenceDue

LEMMA RepairsType ==
    ASSUME NEW s \in GraphState, NEW targets \in SUBSET Intensity,
           NEW kept \in SUBSET (Intensity \X Text), Repairs(s, targets, kept),
           state \in GraphState, MayRepair,
           s.repair_count = state.repair_count, s.mode = state.mode,
           s.eval_round <= EvalRounds * (s.repair_count + 1), s.needs <=> s.sentencing # NULL
    PROVE  GInv'
  <1>1. /\ at' = "writer_repair" /\ state' \in GraphState
        /\ state'.repair_count = s.repair_count /\ state'.eval_round = s.eval_round
        /\ state'.mode = s.mode /\ state'.needs = s.needs /\ state'.sentencing = s.sentencing
    BY DEF Repairs, Goes, GraphState
  <1>2. s.mode = "INITIAL" /\ s.repair_count < RepairMax
    BY DEF MayRepair
  <1>3. RepairIsLeft' /\ RoundsUsed' /\ Whole'
    BY <1>1, <1>2 DEF RepairIsLeft, RoundsUsed, Whole
  <1>4. SentenceDue'
    BY <1>1, <1>2 DEF SentenceDue, Regenerate
  <1> QED
    BY <1>1, <1>3, <1>4 DEF GInv, Nodes

LEMMA CallType ==
    ASSUME TypeOK, NEW made \in SUBSET ({"context", "sentencing", "writer", "evaluator"} \X Nat),
           Call(made)
    PROVE  /\ calls' \subseteq {"context", "sentencing", "writer", "evaluator"} \X Nat
           /\ again' \in BOOLEAN
  <1>1. again' \in BOOLEAN
    BY Zenon DEF TypeOK, Call
  <1> QED
    BY <1>1 DEF TypeOK, Call

LEMMA IndexType ==
    ASSUME NEW i \in Intensity, NEW offset \in Nat
    PROVE  WriterCallIndex(offset, i) \in Nat
  <1>1. Position[i] \in 0..2
    BY SentencingAssumption DEF WriterSlots
  <1> QED
    BY <1>1 DEF WriterCallIndex, WriterSlots

LEMMA InitType == Init => TInv
  <1> SUFFICES ASSUME Init PROVE TInv
    OBVIOUS
  <1>1. PICK mode \in {"INITIAL", "REGENERATE"}, needs \in BOOLEAN,
          templates \in {"good", "bad", "none"} :
         state = [mode |-> mode, needs |-> needs, templates |-> templates,
                  sentencing |-> NULL, drafts |-> [i \in Intensity |-> NULL],
                  invalid |-> {}, errors |-> {}, repair_count |-> 0,
                  repair_targets |-> {}, eval_kept |-> {}, attempt |-> 0,
                  eval_round |-> 0, draft_hash |-> NULL, failure |-> NULL]
    BY DEF Init
  <1>2. EvalRounds * (RepairMax + 1) \in Nat /\ EvalRounds * (0 + 1) \in Nat /\ EvalRounds * 0 = 0
    BY SentencingAssumption
  <1>3. state \in GraphState
    BY <1>1, <1>2, SentencingAssumption DEF GraphState, Drafts
  <1>4. calls = {} /\ passed = {} /\ saved = NULL /\ left \in 0..Start /\ at = "begin_generation"
    BY SentencingAssumption DEF Init
  <1>5. again \in BOOLEAN
    BY Zenon DEF Init
  <1>6. TypeOK
    BY <1>3, <1>4, <1>5 DEF TypeOK, Nodes
  <1>7. RepairIsLeft /\ RoundsUsed /\ Whole /\ SentenceDue
    BY <1>1, <1>2, <1>4 DEF RepairIsLeft, RoundsUsed, Whole, SentenceDue
  <1> QED
    BY <1>3, <1>4, <1>6, <1>7 DEF TInv, GInv, Nodes
-----------------------------------------------------------------------------
(* The outcomes of the larger nodes.                                       *)

\* What assemble lets pass.
LEMMA Assembled ==
    ASSUME state \in GraphState, NEW drafts \in Drafts, AssembleFailure(drafts) = NULL
    PROVE  /\ \A i \in Intensity : drafts[i] \in Text
           /\ Bad(drafts) # {} => ~Regenerate /\ state.templates = "good"
           /\ AIs(Templated(drafts, Bad(drafts))) # {}
  <1> DEFINE null == \E i \in Intensity : drafts[i] = NULL
             strict == Bad(drafts) # {} /\ Regenerate
             worn == \E i \in Bad(drafts) : drafts[i].source = "TEMPLATE"
             none == Bad(drafts) # {} /\ state.templates = "none"
             bad == Bad(drafts) # {} /\ state.templates = "bad"
             bare == AIs(Templated(drafts, Bad(drafts))) = {}
  <1>1. ASSUME null \/ strict \/ worn \/ none \/ bad \/ bare
        PROVE  AssembleFailure(drafts) \in {"SCHEMA_INVALID", "EVAL_FAILED"}
    <2>1. AssembleFailure(drafts) =
            CASE null -> "SCHEMA_INVALID" [] strict -> "EVAL_FAILED" [] worn -> "SCHEMA_INVALID"
              [] none -> "EVAL_FAILED" [] bad -> "SCHEMA_INVALID" [] bare -> "EVAL_FAILED"
              [] OTHER -> NULL
      BY DEF AssembleFailure
    <2> HIDE DEF null, strict, worn, none, bad, bare
    <2> QED
      BY <1>1, <2>1
  <1>2. ~null /\ ~strict /\ ~none /\ ~bad /\ ~bare
    BY <1>1, NullAssumption DEF Failures
  <1>3. state.templates \in {"good", "bad", "none"}
    BY DEF GraphState
  <1> QED
    BY <1>2, <1>3 DEF Drafts

\* A correction fails, sends texts back or leaves texts for another round.
LEMMA CorrectSteps ==
    ASSUME state \in GraphState, NEW s \in GraphState, NEW rejected \in SUBSET Intensity,
           NEW incomplete \in SUBSET Intensity, NEW reasonFailed \in BOOLEAN,
           s.drafts = state.drafts, s.sentencing = state.sentencing,
           reasonFailed => s.sentencing # NULL,
           Correct(s, rejected, incomplete, reasonFailed)
    PROVE  \/ Fails(s, "EVAL_FAILED")
           \/ \E drafts \in Drafts, decision \in Decision \cup {NULL} :
                /\ decision # NULL <=> s.sentencing # NULL
                /\ ~reasonFailed => decision = s.sentencing
                /\ \/ /\ MayRepair
                      /\ \A i \in Intensity \ incomplete : drafts[i] = s.drafts[i]
                      /\ Repairs([s EXCEPT !.drafts = drafts, !.sentencing = decision,
                                            !.draft_hash = NULL],
                                 rejected, Kept(rejected \cup incomplete, reasonFailed))
                   \/ /\ AssembleFailure(drafts) = NULL
                      /\ Goes("evaluator", [s EXCEPT !.drafts = Templated(drafts, Bad(drafts)),
                                                     !.sentencing = decision, !.attempt = @ + 1])
  <1> DEFINE repair == rejected # {} /\ MayRepair /\ rejected \subseteq AIs(s.drafts)
             gone == IF repair THEN incomplete ELSE rejected \cup incomplete
             drafts == Templated(s.drafts, gone)
             decision == IF reasonFailed THEN [s.sentencing EXCEPT !.reason = "template"]
                         ELSE s.sentencing
  <1>1. drafts \in Drafts
    BY TemplatedType DEF GraphState
  <1>2. decision \in Decision \cup {NULL} /\ (decision # NULL <=> s.sentencing # NULL)
        /\ (~reasonFailed => decision = s.sentencing)
    BY NullAssumption DEF GraphState, Decision
  <1>3. CASE Fails(s, "EVAL_FAILED")
    BY <1>3
  <1>4. CASE ~Fails(s, "EVAL_FAILED")
    <2> DEFINE t == [s EXCEPT !.drafts = drafts,
                              !.sentencing = IF reasonFailed THEN [@ EXCEPT !.reason = "template"] ELSE @]
    <2>1. /\ [t EXCEPT !.draft_hash = NULL] =
                [s EXCEPT !.drafts = drafts, !.sentencing = decision, !.draft_hash = NULL]
          /\ [t EXCEPT !.drafts = Templated(@, Bad(@)), !.attempt = @ + 1] =
                [s EXCEPT !.drafts = Templated(drafts, Bad(drafts)), !.sentencing = decision,
                          !.attempt = @ + 1]
      BY DEF GraphState
    <2>2. \/ /\ repair
             /\ Repairs([t EXCEPT !.draft_hash = NULL], rejected,
                        Kept(rejected \cup incomplete, reasonFailed))
          \/ /\ AssembleFailure(drafts) = NULL
             /\ Goes("evaluator", [t EXCEPT !.drafts = Templated(@, Bad(@)), !.attempt = @ + 1])
      BY <1>4 DEF Correct
    <2>3. repair => \A i \in Intensity \ incomplete : drafts[i] = s.drafts[i]
      BY DEF Templated
    <2> HIDE DEF repair, drafts, decision, t
    <2>4. repair => MayRepair
      BY DEF repair
    <2> QED
      BY <1>1, <1>2, <2>1, <2>2, <2>3, <2>4
  <1> QED
    BY <1>3, <1>4

-----------------------------------------------------------------------------
(* The types are kept.                                                     *)

LEMMA Facts ==
    ASSUME TInv
    PROVE  /\ state \in GraphState /\ RepairMax \in Nat /\ EvalRounds \in Nat \ {0}
           /\ state.repair_count \in 0..RepairMax /\ state.eval_round \in Nat
           /\ state.attempt \in 0..EvalRounds - 1
           /\ state.drafts \in Drafts /\ state.sentencing \in Decision \cup {NULL}
           /\ EvalRounds * state.repair_count \in Nat
           /\ EvalRounds * (state.repair_count + 1) \in Nat
           /\ EvalRounds * (RepairMax + 1) \in Nat
           /\ EvalRounds * state.repair_count + EvalRounds = EvalRounds * (state.repair_count + 1)
           /\ EvalRounds * (state.repair_count + 1) <= EvalRounds * (RepairMax + 1)
  <1>1. /\ state \in GraphState /\ RepairMax \in Nat /\ EvalRounds \in Nat \ {0}
        /\ state.repair_count \in 0..RepairMax /\ state.eval_round \in Nat
        /\ state.attempt \in 0..EvalRounds - 1
        /\ state.drafts \in Drafts /\ state.sentencing \in Decision \cup {NULL}
    BY SentencingAssumption DEF TInv, TypeOK, GraphState
  <1>2. /\ state.repair_count \in Nat /\ state.repair_count + 1 \in Nat
        /\ state.repair_count <= RepairMax
    BY <1>1
  <1>3. /\ EvalRounds * state.repair_count \in Nat
        /\ EvalRounds * (state.repair_count + 1) \in Nat
        /\ EvalRounds * (RepairMax + 1) \in Nat
        /\ EvalRounds * state.repair_count + EvalRounds = EvalRounds * (state.repair_count + 1)
    BY <1>1, <1>2
  <1>4. EvalRounds * (state.repair_count + 1) <= EvalRounds * (RepairMax + 1)
    BY <1>1, <1>2, RoundsGrow
  <1> QED
    BY <1>1, <1>3, <1>4

\* What a step leaves alone or does beside the graph's own state.
Beside ==
    /\ left \in 0..Start
    /\ saved \in [drafts : Drafts, sentencing : Decision \cup {NULL}] \cup {NULL}
    /\ passed \subseteq Intensity \X Text \X (Decision \cup {NULL})

Called ==
    /\ calls \subseteq {"context", "sentencing", "writer", "evaluator"} \X Nat
    /\ again \in BOOLEAN

LEMMA Parts == TInv <=> GInv /\ Beside /\ Called
  BY DEF TInv, TypeOK, GInv, Beside, Called

LEMMA PartsPrimed == TInv' <=> GInv' /\ Beside' /\ Called'
  BY DEF TInv, TypeOK, GInv, Beside, Called

LEMMA NoCallType == TInv /\ NoCall => Called'
  BY Zenon DEF NoCall, TInv, TypeOK, Called

LEMMA QuietType == TInv /\ Quietly => Beside' /\ Called'
  BY NoCallType DEF Quietly, TInv, TypeOK, Beside

\* A failure of the state as it is.
LEMMA FailsHere ==
    ASSUME TInv, NEW code \in Failures, Fails(state, code)
    PROVE  GInv'
  BY Facts, FailsType DEF TInv, GInv, RoundsUsed

LEMMA OpeningType ==
    ASSUME TInv,
           BeginGeneration \/ LoadValidPrep \/ MinimalDossier \/ InlineContext \/ SentencingNode
    PROVE  TInv'
  <1> USE Facts, Parts DEF GInv
  <1>1. CASE BeginGeneration
    <2>1. /\ at = "begin_generation" /\ Quietly
          /\ \/ Goes("end", state)
             \/ Fails(state, "SCHEMA_INVALID")
             \/ \E decision \in {[source |-> "FIXED", reason |-> "given"], NULL} :
                  /\ decision # NULL => state.needs
                  /\ Regenerate /\ state.needs => decision = [source |-> "FIXED", reason |-> "given"]
                  /\ Goes("load_valid_prep", [state EXCEPT !.sentencing = decision])
      BY <1>1 DEF BeginGeneration, GraphState
    <2>2. CASE Goes("end", state)
      BY <2>1, <2>2, QuietType, PartsPrimed
      DEF Goes, Nodes, RepairIsLeft, RoundsUsed, Whole, SentenceDue
    <2>3. CASE Fails(state, "SCHEMA_INVALID")
      BY <2>1, <2>3, FailsHere, QuietType, PartsPrimed DEF Failures
    <2>4. ASSUME NEW decision \in {[source |-> "FIXED", reason |-> "given"], NULL},
                 decision # NULL => state.needs,
                 Regenerate /\ state.needs => decision = [source |-> "FIXED", reason |-> "given"],
                 Goes("load_valid_prep", [state EXCEPT !.sentencing = decision])
          PROVE  GInv'
      <3>1. decision \in Decision \cup {NULL}
        BY DEF Decision
      <3>2. /\ at' = "load_valid_prep" /\ state' \in GraphState
            /\ state'.repair_count = state.repair_count /\ state'.eval_round = state.eval_round
            /\ state'.mode = state.mode /\ state'.needs = state.needs
            /\ state'.sentencing = decision
        BY <2>4, <3>1 DEF Goes, GraphState
      <3> QED
        BY <2>1, <2>4, <3>2
        DEF Nodes, RepairIsLeft, RoundsUsed, Whole, SentenceDue, Regenerate
    <2> QED
      BY <2>1, <2>2, <2>3, <2>4, QuietType, PartsPrimed
  <1>2. ASSUME at \in {"load_valid_prep", "minimal_dossier", "inline_context"},
               Goes(SentencingOrWriter, state)
        PROVE  GInv'
    <2>1. state' = state /\ at' \in {"sentencing", "writer"}
      BY <1>2 DEF Goes, SentencingOrWriter
    <2>2. /\ at' = "sentencing" => state.needs /\ ~Regenerate
          /\ at' = "writer" => (state.needs => state.sentencing # NULL)
      <3>1. state.mode \in {"INITIAL", "REGENERATE"} /\ NULL \notin Decision
        BY NullAssumption DEF GraphState
      <3>2. [source |-> "FIXED", reason |-> "given"] \in Decision
        BY DEF Decision
      <3>3. Regenerate /\ state.needs =>
              state.sentencing = [source |-> "FIXED", reason |-> "given"]
        BY <1>2 DEF SentenceDue
      <3> QED
        BY <1>2, <3>1, <3>2, <3>3 DEF Goes, SentencingOrWriter, Regenerate
    <2>3. SentenceDue'
      BY <1>2, <2>1, <2>2 DEF SentenceDue, Regenerate
    <2> QED
      BY <1>2, <2>1, <2>3 DEF Nodes, RepairIsLeft, RoundsUsed, Whole
  <1>3. CASE LoadValidPrep
    <2>1. ASSUME NEW node \in {"inline_context", "minimal_dossier"}, Goes(node, state) PROVE GInv'
      BY <1>3, <2>1
      DEF LoadValidPrep, Goes, Nodes, RepairIsLeft, RoundsUsed, Whole, SentenceDue, Regenerate
    <2> QED
      BY <1>2, <1>3, <2>1, QuietType, PartsPrimed DEF LoadValidPrep
  <1>4. CASE MinimalDossier
    BY <1>2, <1>4, FailsHere, QuietType, PartsPrimed DEF MinimalDossier, Failures
  <1>5. CASE InlineContext
    <2>1. GInv'
      BY <1>2, <1>5, FailsHere DEF InlineContext, Failures
    <2>2. Called'
      BY <1>5, CallType, NoCallType DEF InlineContext, TInv, Called
    <2> QED
      BY <1>5, <2>1, <2>2, PartsPrimed DEF InlineContext, Beside
  <1>6. CASE SentencingNode
    <2>1. /\ at = "sentencing" /\ UNCHANGED <<left, saved, passed>>
          /\ \/ Fails(state, "EVIDENCE_INVALIDATED")
             \/ \E decision \in Decision : Goes("writer", [state EXCEPT !.sentencing = decision])
      BY <1>6 DEF SentencingNode, Decision
    <2>2. ASSUME NEW decision \in Decision, Goes("writer", [state EXCEPT !.sentencing = decision])
          PROVE  GInv'
      <3>1. /\ at' = "writer" /\ state' \in GraphState
            /\ state'.repair_count = state.repair_count /\ state'.eval_round = state.eval_round
            /\ state'.mode = state.mode /\ state'.needs = state.needs
            /\ state'.sentencing = decision /\ decision # NULL
        BY <2>2, NullAssumption DEF Goes, GraphState
      <3> QED
        BY <2>1, <3>1 DEF Nodes, RepairIsLeft, RoundsUsed, Whole, SentenceDue, Regenerate
    <2>3. Called'
      BY <1>6, CallType, NoCallType DEF SentencingNode, TInv, Called
    <2> QED
      BY <2>1, <2>2, <2>3, FailsHere, PartsPrimed DEF Beside, Failures
  <1> QED
    BY <1>1, <1>3, <1>4, <1>5, <1>6

LEMMA FanOutType ==
    ASSUME TInv, at \in {"writer", "writer_repair"},
           NEW targets \in SUBSET Intensity, NEW offset \in 0..RepairMax,
           NEW next \in {"join", "deterministic_validate"}, FanOut(targets, offset, next),
           state.eval_round <= EvalRounds * offset
    PROVE  TInv'
  <1> USE Facts, Parts DEF GInv
  <1>1. CASE Fails(state, "EVIDENCE_INVALIDATED") /\ UNCHANGED left /\ NoCall
    BY <1>1, FailsHere, NoCallType, PartsPrimed DEF FanOut, Beside, Failures
  <1>2. CASE ~(Fails(state, "EVIDENCE_INVALIDATED") /\ UNCHANGED left /\ NoCall)
    <2>1. PICK answer \in [targets -> Answers], later \in 0..left :
            /\ left' = later
            /\ Goes(next,
                 [state EXCEPT
                    !.drafts = [i \in Intensity |->
                                  IF i \in targets THEN NewDraft(answer[i], offset) ELSE @[i]],
                    !.invalid = (@ \ targets) \cup {i \in targets : answer[i] = "INVALID_CARD"},
                    !.errors = IF next = "join" THEN {answer[i] : i \in targets} \ Written ELSE {},
                    !.repair_count = offset,
                    !.repair_targets = {},
                    !.draft_hash = NULL])
            /\ Call({<<"writer", WriterCallIndex(offset, i)>> :
                       i \in {j \in targets : answer[j] # "SKIPPED"}})
      BY <1>2 DEF FanOut
    <2>2. \A i \in targets : NewDraft(answer[i], offset) \in Text \cup {NULL}
      <3>1. \A i \in targets : (answer[i] = "CLEAN") \in BOOLEAN
        OBVIOUS
      <3> QED
        BY <3>1, TemplateIsText DEF NewDraft, Text
    <2>3. DEFINE drafts == [i \in Intensity |->
                              IF i \in targets THEN NewDraft(answer[i], offset) ELSE state.drafts[i]]
                 errors == IF next = "join" THEN {answer[i] : i \in targets} \ Written ELSE {}
                 invalid == (state.invalid \ targets) \cup {i \in targets : answer[i] = "INVALID_CARD"}
    <2>4. drafts \in Drafts
      BY <2>2 DEF Drafts
    <2>5. errors \subseteq {"INVALID_CARD", "SKIPPED", "BUDGET", "TIMEOUT", "VENDOR"}
      BY DEF Answers, Written
    <2>6. invalid \subseteq Intensity
      BY DEF GraphState
    <2>7. /\ at' = next
          /\ state' = [state EXCEPT !.drafts = drafts, !.invalid = invalid, !.errors = errors,
                                    !.repair_count = offset, !.repair_targets = {},
                                    !.draft_hash = NULL]
      BY <2>1 DEF Goes
    <2> HIDE DEF drafts, errors, invalid
    <2>8. /\ state' \in GraphState
          /\ state'.repair_count = offset /\ state'.eval_round = state.eval_round
          /\ state'.mode = state.mode /\ state'.needs = state.needs
          /\ state'.sentencing = state.sentencing
      BY <2>4, <2>5, <2>6, <2>7 DEF GraphState
    <2>9. RepairIsLeft' /\ RoundsUsed' /\ Whole' /\ at' \in Nodes
      <3>1. EvalRounds * offset \in Nat /\ EvalRounds * (offset + 1) \in Nat
            /\ EvalRounds * offset + EvalRounds = EvalRounds * (offset + 1)
        BY RoundsGrow
      <3> QED
        BY <2>7, <2>8, <3>1 DEF RepairIsLeft, RoundsUsed, Whole, Nodes
    <2>10. SentenceDue'
      BY <2>7, <2>8 DEF SentenceDue, Regenerate
    <2>11. Called'
      BY <2>1, CallType, IndexType DEF TInv, Called
    <2>12. left' \in 0..Start
      BY <2>1, SentencingAssumption DEF Beside
    <2> QED
      BY <2>8, <2>9, <2>10, <2>11, <2>12, PartsPrimed DEF FanOut, Beside
  <1> QED
    BY <1>1, <1>2

LEMMA WritingType ==
    ASSUME TInv, Writer \/ WriterRepair
    PROVE  TInv'
  <1>1. CASE Writer
    BY <1>1, Facts, FanOutType DEF Writer, TInv, GInv, RoundsUsed
  <1>2. CASE WriterRepair
    <2>1. state.repair_targets \in SUBSET Intensity
      BY Facts DEF GraphState
    <2>2. state.repair_count + 1 \in 0..RepairMax
      BY <1>2, Facts DEF WriterRepair, TInv, GInv, RepairIsLeft
    <2>3. state.eval_round <= EvalRounds * (state.repair_count + 1)
      BY DEF TInv, GInv, RoundsUsed
    <2> QED
      BY <1>2, <2>1, <2>2, <2>3, FanOutType DEF WriterRepair
  <1> QED
    BY <1>1, <1>2

LEMMA JoinType ==
    ASSUME TInv, Join
    PROVE  TInv'
  <1> USE Facts, Parts DEF GInv
  <1> DEFINE s == [state EXCEPT !.errors = {}]
  <1>1. /\ s \in GraphState /\ s.repair_count = state.repair_count
        /\ s.eval_round = state.eval_round /\ s.mode = state.mode
        /\ s.needs = state.needs /\ s.sentencing = state.sentencing
    BY DEF GraphState
  <1>2. /\ state.invalid \in SUBSET Intensity /\ NoTextCode \in Failures
        /\ {} \subseteq Intensity \X Text
    BY DEF GraphState, NoTextCode, Failures
  <1>3. /\ at = "join" /\ Quietly
        /\ \/ MayRepair /\ Repairs(s, state.invalid, {})
           \/ \E code \in Failures : Fails(s, code)
           \/ Goes("deterministic_validate", s)
    BY <1>2 DEF Join, Failures
  <1> HIDE DEF s
  <1>4. state.needs <=> state.sentencing # NULL
    BY <1>3 DEF SentenceDue
  <1>5. CASE MayRepair /\ Repairs(s, state.invalid, {})
    BY <1>1, <1>2, <1>3, <1>4, <1>5, RepairsType, QuietType, PartsPrimed DEF RoundsUsed
  <1>6. ASSUME NEW code \in Failures, Fails(s, code) PROVE TInv'
    BY <1>1, <1>3, <1>6, FailsType, QuietType, PartsPrimed DEF RoundsUsed
  <1>7. CASE Goes("deterministic_validate", s)
    <2>1. SentenceDue'
      BY <1>1, <1>3, <1>7 DEF Goes, SentenceDue, Regenerate
    <2> QED
      BY <1>1, <1>3, <1>7, <2>1, QuietType, PartsPrimed
      DEF Goes, Nodes, RepairIsLeft, RoundsUsed, Whole
  <1> QED
    BY <1>3, <1>5, <1>6, <1>7

LEMMA ValidateType ==
    ASSUME TInv, DeterministicValidate
    PROVE  TInv'
  <1> USE Facts, Parts DEF GInv
  <1> DEFINE bad == Bad(state.drafts)
             drafts == Templated(state.drafts, bad)
             s == [state EXCEPT !.drafts = drafts, !.attempt = 0]
  <1>1. drafts \in Drafts
    BY TemplatedType
  <1>2. /\ bad \in SUBSET Intensity /\ {} \subseteq Intensity \X Text
        /\ AssembleFailure(state.drafts) \in Failures \cup {NULL}
    BY DEF Bad, AssembleFailure, Failures
  <1>3. [state EXCEPT !.drafts = Templated(@, bad), !.attempt = 0] = s
    BY DEF GraphState
  <1>4. /\ at = "deterministic_validate" /\ Quietly
        /\ \/ MayRepair /\ Repairs(state, bad, {})
           \/ \E code \in Failures : Fails(state, code)
           \/ AssembleFailure(state.drafts) = NULL /\ Goes("evaluator", s)
    <2>1. \/ MayRepair /\ Repairs(state, bad, {})
          \/ AssembleFailure(state.drafts) # NULL /\ Fails(state, AssembleFailure(state.drafts))
          \/ /\ AssembleFailure(state.drafts) = NULL
             /\ Goes("evaluator", [state EXCEPT !.drafts = Templated(@, bad), !.attempt = 0])
      BY DEF DeterministicValidate
    <2> HIDE DEF s, bad
    <2> QED
      BY <1>2, <1>3, <2>1 DEF DeterministicValidate
  <1>5. AssembleFailure(state.drafts) = NULL => \A i \in Intensity : drafts[i] \in Text
    BY Assembled, TemplatedWhole
  <1> HIDE DEF drafts, bad
  <1>6. /\ s \in GraphState /\ s.repair_count = state.repair_count
        /\ s.eval_round = state.eval_round /\ s.attempt = 0 /\ s.mode = state.mode
        /\ s.needs = state.needs /\ s.sentencing = state.sentencing /\ s.drafts = drafts
    <2>1. 0 \in 0..EvalRounds - 1
      OBVIOUS
    <2>2. s \in GraphState
      BY <1>1, <2>1 DEF GraphState
    <2> QED
      BY <2>2 DEF GraphState
  <1> HIDE DEF s
  <1>7. state.needs <=> state.sentencing # NULL
    BY <1>4 DEF SentenceDue
  <1>8. CASE MayRepair /\ Repairs(state, bad, {})
    BY <1>2, <1>4, <1>7, <1>8, RepairsType, QuietType, PartsPrimed DEF RoundsUsed
  <1>9. ASSUME NEW code \in Failures, Fails(state, code) PROVE TInv'
    BY <1>4, <1>9, FailsHere, QuietType, PartsPrimed
  <1>10. CASE AssembleFailure(state.drafts) = NULL /\ Goes("evaluator", s)
    <2>1. SentenceDue'
      BY <1>4, <1>6, <1>10 DEF Goes, SentenceDue, Regenerate
    <2> QED
      BY <1>4, <1>5, <1>6, <1>10, <2>1, QuietType, PartsPrimed
      DEF Goes, Nodes, RepairIsLeft, RoundsUsed, Whole
  <1> QED
    BY <1>4, <1>8, <1>9, <1>10

\* A round begun is a round within the bound.
LEMMA RoundBegun ==
    ASSUME TInv, at = "evaluator", NEW kept \in SUBSET (Intensity \X Text),
           NEW s, s = [state EXCEPT !.eval_round = @ + 1, !.eval_kept = kept]
    PROVE  /\ s \in GraphState /\ s.eval_round = state.eval_round + 1
           /\ s.repair_count = state.repair_count /\ s.mode = state.mode
           /\ s.needs = state.needs /\ s.sentencing = state.sentencing
           /\ s.drafts = state.drafts /\ s.attempt = state.attempt
           /\ s.eval_kept = kept /\ s.templates = state.templates
           /\ s.eval_round <= EvalRounds * (s.repair_count + 1)
           /\ s.eval_round <= EvalRounds * s.repair_count + s.attempt + 1
  <1> USE Facts
  <1>1. state.eval_round <= EvalRounds * state.repair_count + state.attempt
    BY DEF TInv, GInv, RoundsUsed
  <1>2. state.eval_round + 1 <= EvalRounds * (state.repair_count + 1)
    BY <1>1
  <1>3. state.eval_round + 1 \in 0..EvalRounds * (RepairMax + 1)
    BY <1>2
  <1>4. s \in GraphState
    BY <1>3 DEF GraphState
  <1> QED
    BY <1>1, <1>2, <1>4 DEF GraphState

LEMMA KeptType ==
    ASSUME Whole, at = "evaluator", NEW changed, NEW reasonFailed
    PROVE  Kept(changed, reasonFailed) \subseteq Intensity \X Text
  BY DEF Whole, Kept

LEMMA EvaluatorCallsType ==
    ASSUME TInv, EvaluatorCalls
    PROVE  Called'
  <1>1. \A apart \in BOOLEAN : EvaluatorCallIndex(apart) \in Nat
    BY Facts DEF EvaluatorCallIndex, EvaluatorSlots
  <1>2. \A group \in Groups : EvaluatorCallIndex(group \subseteq Hell) \in Nat
    <2> TAKE group \in Groups
    <2>1. (group \subseteq Hell) \in BOOLEAN
      BY Zenon
    <2> QED
      BY <1>1, <2>1
  <1> DEFINE made == {<<"evaluator", EvaluatorCallIndex(group \subseteq Hell)>> : group \in Groups}
  <1>3. made \in SUBSET ({"context", "sentencing", "writer", "evaluator"} \X Nat)
    BY <1>2
  <1> QED
    BY <1>3, CallType DEF EvaluatorCalls, TInv, Called

\* What a report brings about.
LEMMA JudgeSteps ==
    ASSUME TInv, at = "evaluator", NEW verdict, NEW reasonFailed \in BOOLEAN, NEW global,
           reasonFailed => state.needs, Judge(verdict, reasonFailed, global)
    PROVE  \E s \in GraphState, judged \in SUBSET Intensity :
             /\ s = [state EXCEPT !.eval_round = @ + 1, !.eval_kept = {}]
             /\ passed' = passed \cup {<<i, state.drafts[i], state.sentencing>> : i \in judged}
             /\ \/ /\ \A i \in Intensity \ judged : <<i, state.drafts[i]>> \in state.eval_kept
                   /\ Goes("finalize", [s EXCEPT !.draft_hash = [drafts |-> state.drafts,
                                                                 sentencing |-> state.sentencing]])
                \/ Fails(s, "EVAL_FAILED")
                \/ /\ ~Regenerate /\ state.attempt # EvalRounds - 1
                   /\ \E rejected, incomplete \in SUBSET Intensity :
                        /\ \A i \in Intensity \ (rejected \cup incomplete \cup judged) :
                             <<i, state.drafts[i]>> \in state.eval_kept
                        /\ Correct(s, rejected, incomplete, reasonFailed)
  <1> DEFINE passes(i) == \/ i \notin Scope
                          \/ verdict[i] = "pass"
                          \/ verdict[i] = "fail" /\ state.drafts[i].source = "TEMPLATE"
             notPassed == {i \in Intensity : ~passes(i)}
             rejected == {i \in notPassed : verdict[i] = "fail"}
             s == [state EXCEPT !.eval_round = @ + 1, !.eval_kept = {}]
             judged == Scope \ notPassed
  <1>1. s \in GraphState
    BY RoundBegun
  <1>2. \A i \in Intensity \ Scope : <<i, state.drafts[i]>> \in state.eval_kept
    BY DEF Scope
  <1>3. Scope \subseteq Intensity
    BY DEF Scope
  <1>4. /\ judged \in SUBSET Intensity /\ notPassed \in SUBSET Intensity
        /\ rejected \in SUBSET Intensity /\ rejected \cup (notPassed \ rejected) = notPassed
    BY <1>3
  <1>5. \A i \in Intensity \ (notPassed \cup judged) : <<i, state.drafts[i]>> \in state.eval_kept
    BY <1>2
  <1>6. /\ passed' = passed \cup {<<i, state.drafts[i], state.sentencing>> : i \in judged}
        /\ \/ /\ notPassed = {}
              /\ Goes("finalize", [s EXCEPT !.draft_hash = [drafts |-> state.drafts,
                                                            sentencing |-> state.sentencing]])
           \/ Fails(s, "EVAL_FAILED")
           \/ /\ ~Regenerate /\ state.attempt # EvalRounds - 1
              /\ Correct(s, rejected, notPassed \ rejected, reasonFailed)
    BY DEF Judge
  <1>7. \A i \in Intensity \ (rejected \cup (notPassed \ rejected) \cup judged) :
          <<i, state.drafts[i]>> \in state.eval_kept
    BY <1>4, <1>5
  <1>8. (notPassed \ rejected) \in SUBSET Intensity
    BY <1>4
  <1>9. s = [state EXCEPT !.eval_round = @ + 1, !.eval_kept = {}]
    OBVIOUS
  <1> HIDE DEF notPassed, rejected, s, judged
  <1>10. CASE notPassed = {} /\ Goes("finalize", [s EXCEPT !.draft_hash = [drafts |-> state.drafts,
                                                            sentencing |-> state.sentencing]])
    BY <1>1, <1>4, <1>5, <1>6, <1>9, <1>10
  <1>11. CASE Fails(s, "EVAL_FAILED")
    BY <1>1, <1>4, <1>6, <1>9, <1>11
  <1>12. CASE /\ ~Regenerate /\ state.attempt # EvalRounds - 1
              /\ Correct(s, rejected, notPassed \ rejected, reasonFailed)
    BY <1>1, <1>4, <1>6, <1>7, <1>8, <1>9, <1>12
  <1> QED
    BY <1>6, <1>10, <1>11, <1>12

LEMMA JudgeType ==
    ASSUME TInv, at = "evaluator", NEW verdict, NEW reasonFailed \in BOOLEAN, NEW global,
           reasonFailed => state.needs, Judge(verdict, reasonFailed, global)
    PROVE  GInv' /\ passed' \subseteq Intensity \X Text \X (Decision \cup {NULL})
  <1> USE Facts, Parts DEF GInv
  <1>1. PICK s \in GraphState, judged \in SUBSET Intensity :
             /\ s = [state EXCEPT !.eval_round = @ + 1, !.eval_kept = {}]
             /\ passed' = passed \cup {<<i, state.drafts[i], state.sentencing>> : i \in judged}
             /\ \/ /\ \A i \in Intensity \ judged : <<i, state.drafts[i]>> \in state.eval_kept
                   /\ Goes("finalize", [s EXCEPT !.draft_hash = [drafts |-> state.drafts,
                                                                 sentencing |-> state.sentencing]])
                \/ Fails(s, "EVAL_FAILED")
                \/ /\ ~Regenerate /\ state.attempt # EvalRounds - 1
                   /\ \E rejected, incomplete \in SUBSET Intensity :
                        /\ \A i \in Intensity \ (rejected \cup incomplete \cup judged) :
                             <<i, state.drafts[i]>> \in state.eval_kept
                        /\ Correct(s, rejected, incomplete, reasonFailed)
    BY JudgeSteps
  <1>2. /\ s.eval_round = state.eval_round + 1
        /\ s.repair_count = state.repair_count /\ s.mode = state.mode
        /\ s.needs = state.needs /\ s.sentencing = state.sentencing
        /\ s.drafts = state.drafts /\ s.attempt = state.attempt
        /\ s.eval_round <= EvalRounds * (s.repair_count + 1)
        /\ s.eval_round <= EvalRounds * s.repair_count + s.attempt + 1
    <2>1. {} \in SUBSET (Intensity \X Text) /\ s = [state EXCEPT !.eval_round = @ + 1, !.eval_kept = {}]
      BY <1>1
    <2> HIDE Facts, Parts DEF GInv
    <2> QED
      BY <2>1, RoundBegun, Zenon
  <1>3. state.needs <=> state.sentencing # NULL
    BY DEF SentenceDue
  <1>4. \A i \in Intensity : state.drafts[i] \in Text
    BY DEF Whole
  <1>5. passed' \subseteq Intensity \X Text \X (Decision \cup {NULL})
    BY <1>1, <1>4 DEF Beside
  <1>6. CASE Fails(s, "EVAL_FAILED")
    BY <1>2, <1>5, <1>6, FailsType DEF Failures
  <1>7. CASE Goes("finalize", [s EXCEPT !.draft_hash = [drafts |-> state.drafts,
                                                        sentencing |-> state.sentencing]])
    <2>1. /\ at' = "finalize" /\ state' \in GraphState
          /\ state'.repair_count = s.repair_count /\ state'.eval_round = s.eval_round
          /\ state'.mode = s.mode /\ state'.needs = s.needs /\ state'.sentencing = s.sentencing
      BY <1>7 DEF Goes, GraphState
    <2>2. SentenceDue'
      BY <1>2, <2>1 DEF SentenceDue, Regenerate
    <2> QED
      BY <1>2, <1>5, <2>1, <2>2 DEF Nodes, RepairIsLeft, RoundsUsed, Whole
  <1>8. ASSUME NEW rejected \in SUBSET Intensity, NEW incomplete \in SUBSET Intensity,
               Correct(s, rejected, incomplete, reasonFailed), ~Regenerate,
               state.attempt # EvalRounds - 1
        PROVE  GInv'
    <2>1. CASE Fails(s, "EVAL_FAILED")
      BY <1>2, <2>1, FailsType DEF Failures
    <2>2. ASSUME NEW drafts \in Drafts, NEW decision \in Decision \cup {NULL},
                 decision # NULL <=> s.sentencing # NULL, MayRepair,
                 Repairs([s EXCEPT !.drafts = drafts, !.sentencing = decision, !.draft_hash = NULL],
                         rejected, Kept(rejected \cup incomplete, reasonFailed))
          PROVE  GInv'
      <3> DEFINE t == [s EXCEPT !.drafts = drafts, !.sentencing = decision, !.draft_hash = NULL]
                 kept == Kept(rejected \cup incomplete, reasonFailed)
      <3>1. /\ t \in GraphState /\ t.repair_count = s.repair_count
            /\ t.eval_round = s.eval_round /\ t.mode = s.mode /\ t.needs = s.needs
            /\ t.sentencing = decision
        BY DEF GraphState
      <3>2. kept \in SUBSET (Intensity \X Text)
        BY KeptType
      <3>3. Repairs(t, rejected, kept)
        BY <2>2
      <3> HIDE DEF t, kept
      <3> QED
        BY <1>2, <1>3, <2>2, <3>1, <3>2, <3>3, RepairsType
    <2>3. ASSUME NEW drafts \in Drafts, NEW decision \in Decision \cup {NULL},
                 decision # NULL <=> s.sentencing # NULL, ~reasonFailed => decision = s.sentencing,
                 AssembleFailure(drafts) = NULL,
                 Goes("evaluator", [s EXCEPT !.drafts = Templated(drafts, Bad(drafts)),
                                             !.sentencing = decision, !.attempt = @ + 1])
          PROVE  GInv'
      <3>1. state' = [s EXCEPT !.drafts = Templated(drafts, Bad(drafts)),
                               !.sentencing = decision, !.attempt = @ + 1]
            /\ at' = "evaluator"
        BY <2>3 DEF Goes
      <3>2. Templated(drafts, Bad(drafts)) \in Drafts
            /\ \A i \in Intensity : Templated(drafts, Bad(drafts))[i] \in Text
        BY <2>3, Assembled, TemplatedType, TemplatedWhole
      <3>3. s.attempt + 1 \in 0..EvalRounds - 1
        BY <1>2, <1>8
      <3>4. state' \in GraphState
        BY <3>1, <3>2, <3>3 DEF GraphState
      <3>5. /\ state'.repair_count = s.repair_count /\ state'.eval_round = s.eval_round
            /\ state'.attempt = s.attempt + 1 /\ state'.mode = s.mode /\ state'.needs = s.needs
            /\ state'.sentencing = decision
            /\ \A i \in Intensity : state'.drafts[i] \in Text
        BY <3>1, <3>2 DEF GraphState
      <3>6. RepairIsLeft' /\ RoundsUsed' /\ Whole'
        BY <1>2, <3>1, <3>5 DEF RepairIsLeft, RoundsUsed, Whole
      <3>7. SentenceDue'
        <4>1. state'.mode = "INITIAL" /\ (state'.needs <=> state'.sentencing # NULL)
          BY <1>2, <1>3, <1>8, <2>3, <3>5 DEF Regenerate, GraphState
        <4> QED
          BY <3>1, <4>1 DEF SentenceDue, Regenerate
      <3> QED
        BY <3>1, <3>4, <3>6, <3>7 DEF Nodes
    <2>4. reasonFailed => s.sentencing # NULL
      BY <1>2, <1>3
    <2>5. \/ Fails(s, "EVAL_FAILED")
          \/ \E drafts \in Drafts, decision \in Decision \cup {NULL} :
                /\ decision # NULL <=> s.sentencing # NULL
                /\ ~reasonFailed => decision = s.sentencing
                /\ \/ /\ MayRepair
                      /\ \A i \in Intensity \ incomplete : drafts[i] = s.drafts[i]
                      /\ Repairs([s EXCEPT !.drafts = drafts, !.sentencing = decision,
                                            !.draft_hash = NULL],
                                 rejected, Kept(rejected \cup incomplete, reasonFailed))
                   \/ /\ AssembleFailure(drafts) = NULL
                      /\ Goes("evaluator", [s EXCEPT !.drafts = Templated(drafts, Bad(drafts)),
                                                     !.sentencing = decision, !.attempt = @ + 1])
      BY <1>2, <1>8, <2>4, CorrectSteps
    <2> QED
      BY <2>1, <2>2, <2>3, <2>5
  <1> QED
    BY <1>1, <1>5, <1>6, <1>7, <1>8

LEMMA EvaluatorType ==
    ASSUME TInv, NoTimeToJudge \/ Evaluator
    PROVE  TInv'
  <1> USE Parts
  <1>1. at = "evaluator"
    BY DEF NoTimeToJudge, Evaluator
  <1>2. ASSUME NEW code \in Failures, Fails([state EXCEPT !.eval_round = @ + 1], code) PROVE GInv'
    <2> DEFINE s == [state EXCEPT !.eval_round = @ + 1, !.eval_kept = state.eval_kept]
    <2>1. [state EXCEPT !.eval_round = @ + 1] = s
      BY Facts DEF GraphState
    <2>2. state.eval_kept \in SUBSET (Intensity \X Text)
      BY Facts DEF GraphState
    <2>3. s \in GraphState /\ s.eval_round <= EvalRounds * (s.repair_count + 1)
      BY <1>1, <2>2, RoundBegun
    <2> HIDE DEF s
    <2> QED
      BY <1>2, <2>1, <2>3, FailsType
  <1>3. CASE NoTimeToJudge
    BY <1>2, <1>3, QuietType, PartsPrimed DEF NoTimeToJudge, Failures
  <1>4. CASE Evaluator
    <2>1. Called'
      BY <1>4, EvaluatorCallsType DEF Evaluator
    <2>2. CASE Fails(state, "EVIDENCE_INVALIDATED") /\ UNCHANGED passed
      BY <1>4, <2>1, <2>2, FailsHere, PartsPrimed DEF Evaluator, Beside, Failures
    <2>3. ASSUME NEW code \in {"BUDGET_EXCEEDED", "VENDOR_UNAVAILABLE", "EVAL_FAILED"},
                 Fails([state EXCEPT !.eval_round = @ + 1], code), UNCHANGED passed
          PROVE  TInv'
      BY <1>2, <1>4, <2>1, <2>3, PartsPrimed DEF Evaluator, Beside, Failures
    <2>4. ASSUME NEW verdict, NEW reasonFailed \in BOOLEAN, NEW global \in BOOLEAN,
                 reasonFailed => state.needs, Judge(verdict, reasonFailed, global)
          PROVE  TInv'
      <3>1. GInv' /\ passed' \subseteq Intensity \X Text \X (Decision \cup {NULL})
        BY <1>1, <2>4, JudgeType
      <3> QED
        BY <1>4, <2>1, <3>1, PartsPrimed DEF Evaluator, Beside
    <2> QED
      BY <1>4, <2>2, <2>3, <2>4 DEF Evaluator
  <1> QED
    BY <1>3, <1>4

LEMMA FinalizeType ==
    ASSUME TInv, Finalize
    PROVE  TInv'
  <1> USE Parts
  <1>1. /\ at = "finalize" /\ UNCHANGED <<left, passed>> /\ NoCall
        /\ \/ Fails(state, "EVIDENCE_INVALIDATED") /\ UNCHANGED saved
           \/ Goes("end", state) /\ saved' \in {saved, state.draft_hash}
           \/ MayRepair /\ Repairs(state, AIs(state.drafts), {}) /\ UNCHANGED saved
           \/ Fails(state, "SCHEMA_INVALID") /\ UNCHANGED saved
    BY DEF Finalize
  <1>2. Called'
    BY <1>1, NoCallType
  <1>3. saved' \in {saved, state.draft_hash} => Beside'
    BY <1>1, Facts DEF GraphState, Beside
  <1>4. ASSUME NEW code \in {"EVIDENCE_INVALIDATED", "SCHEMA_INVALID"}, Fails(state, code),
               UNCHANGED saved
        PROVE  TInv'
    BY <1>2, <1>3, <1>4, FailsHere, PartsPrimed DEF Failures
  <1>5. CASE Goes("end", state) /\ saved' \in {saved, state.draft_hash}
    BY <1>2, <1>3, <1>5, PartsPrimed
    DEF GInv, Goes, Nodes, RepairIsLeft, RoundsUsed, Whole, SentenceDue
  <1>6. CASE MayRepair /\ Repairs(state, AIs(state.drafts), {}) /\ UNCHANGED saved
    <2>1. AIs(state.drafts) \in SUBSET Intensity /\ {} \in SUBSET (Intensity \X Text)
      BY DEF AIs
    <2>2. state.needs <=> state.sentencing # NULL
      BY <1>1 DEF GInv, SentenceDue
    <2>3. state.eval_round <= EvalRounds * (state.repair_count + 1)
      BY DEF GInv, RoundsUsed
    <2>4. GInv'
      BY <1>6, <2>1, <2>2, <2>3, Facts, RepairsType
    <2> QED
      BY <1>2, <1>3, <1>6, <2>4, PartsPrimed
  <1> QED
    BY <1>1, <1>4, <1>5, <1>6

LEMMA NextType == TInv /\ [Next]_vars => TInv'
  <1> SUFFICES ASSUME TInv, [Next]_vars PROVE TInv'
    OBVIOUS
  <1> USE Parts
  <1>1. CASE GenerationFailed \/ CutOff
    <2>1. Goes("end", state) /\ Quietly
      BY <1>1 DEF GenerationFailed, CutOff
    <2> QED
      BY <2>1, QuietType, PartsPrimed
      DEF GInv, Goes, Nodes, RepairIsLeft, RoundsUsed, Whole, SentenceDue
  <1>2. CASE TimePasses
    <2>1. Called'
      BY <1>2, NoCallType DEF TimePasses
    <2>2. Beside'
      BY <1>2 DEF TimePasses, Beside
    <2>3. GInv'
      BY <1>2 DEF TimePasses, GInv, RepairIsLeft, RoundsUsed, Whole, SentenceDue, Regenerate
    <2> QED
      BY <2>1, <2>2, <2>3, PartsPrimed
  <1>3. CASE UNCHANGED vars
    <2>1. Called'
      BY <1>3, NoCallType DEF vars, NoCall
    <2>2. Beside'
      BY <1>3 DEF vars, Beside
    <2>3. GInv'
      BY <1>3 DEF vars, GInv, RepairIsLeft, RoundsUsed, Whole, SentenceDue, Regenerate
    <2> QED
      BY <2>1, <2>2, <2>3, PartsPrimed
  <1> QED
    BY <1>1, <1>2, <1>3, OpeningType, WritingType, JoinType, ValidateType, EvaluatorType,
       FinalizeType DEF Next

\* The state of a run is always of its type, whatever the models answer: so no
\* text is repaired more than RepairMax times, from whichever of the four nodes
\* a repair is asked for, and run_evaluator begins at most EvalRounds rounds for
\* each pass of the texts (route_after_evaluator, repair_count, eval_round).
THEOREM SentencingTypeCorrect == Spec => []TypeOK
  <1>1. TInv => TypeOK
    BY DEF TInv
  <1> QED
    BY InitType, NextType, <1>1, PTL DEF Spec

-----------------------------------------------------------------------------
(***************************************************************************)
(* What is saved was judged.  A text kept from an earlier round was passed *)
(* beside the sentence that still stands, because a sentence whose reason  *)
(* is replaced keeps nothing; the hash is taken only when every text was   *)
(* passed in this round or is kept.                                        *)
(***************************************************************************)
Opening == {"begin_generation", "load_valid_prep", "minimal_dossier", "inline_context", "sentencing"}

KeptWasPassed ==
    /\ \A kept \in state.eval_kept : <<kept[1], kept[2], state.sentencing>> \in passed
    /\ at \in Opening => state.eval_kept = {}

HashIsJudged ==
    state.draft_hash # NULL =>
        \A i \in Intensity :
            <<i, state.draft_hash.drafts[i], state.draft_hash.sentencing>> \in passed

JInv == KeptWasPassed /\ HashIsJudged /\ SavedIsJudged

\* A step that takes no new hash and keeps texts only beside their sentence.
LEMMA JudgedStays ==
    ASSUME JInv, passed \subseteq passed', saved' \in {saved, state.draft_hash},
           state'.draft_hash \in {NULL, state.draft_hash},
           \/ state'.eval_kept = {}
           \/ /\ state'.eval_kept = state.eval_kept
              /\ state'.sentencing = state.sentencing /\ at' \notin Opening
    PROVE  JInv'
  <1>1. KeptWasPassed'
    BY DEF JInv, KeptWasPassed
  <1>2. HashIsJudged'
    BY DEF JInv, HashIsJudged
  <1>3. SavedIsJudged'
    BY DEF JInv, HashIsJudged, SavedIsJudged
  <1> QED
    BY <1>1, <1>2, <1>3 DEF JInv

\* A failure takes nothing new.
LEMMA FailsJudged ==
    ASSUME JInv, NEW s \in GraphState, NEW code, Fails(s, code), passed \subseteq passed',
           UNCHANGED saved, s.draft_hash = state.draft_hash,
           s.eval_kept = {} \/ (s.eval_kept = state.eval_kept /\ s.sentencing = state.sentencing)
    PROVE  JInv'
  <1>1. /\ at' = "generation_failed" /\ state'.draft_hash = s.draft_hash
        /\ state'.eval_kept = s.eval_kept /\ state'.sentencing = s.sentencing
    BY DEF Fails, Goes, GraphState
  <1> QED
    BY <1>1, JudgedStays DEF Opening

\* A repair that keeps nothing.
LEMMA RepairsJudged ==
    ASSUME JInv, NEW s \in GraphState, NEW targets, Repairs(s, targets, {}),
           UNCHANGED <<passed, saved>>, s.draft_hash = state.draft_hash
    PROVE  JInv'
  <1>1. state'.draft_hash = s.draft_hash /\ state'.eval_kept = {}
    BY DEF Repairs, Goes, GraphState
  <1> QED
    BY <1>1, JudgedStays

LEMMA OpeningJudged ==
    ASSUME TInv, JInv,
           BeginGeneration \/ LoadValidPrep \/ MinimalDossier \/ InlineContext \/ SentencingNode
    PROVE  JInv'
  <1>1. state \in GraphState
    BY Facts
  <1>2. state.eval_kept = {}
    BY DEF JInv, KeptWasPassed, Opening, BeginGeneration, LoadValidPrep, MinimalDossier,
           InlineContext, SentencingNode
  <1>3. UNCHANGED <<passed, saved>>
    BY DEF BeginGeneration, LoadValidPrep, MinimalDossier, InlineContext, SentencingNode, Quietly
  <1>4. state'.eval_kept = {} /\ state'.draft_hash = state.draft_hash
    <2>1. CASE BeginGeneration
      BY <1>1, <1>2, <2>1 DEF BeginGeneration, Goes, Fails, GraphState
    <2>2. CASE LoadValidPrep \/ MinimalDossier \/ InlineContext
      BY <1>1, <1>2, <2>2 DEF LoadValidPrep, MinimalDossier, InlineContext, Goes, Fails, GraphState
    <2>3. CASE SentencingNode
      BY <1>1, <1>2, <2>3 DEF SentencingNode, Goes, Fails, GraphState
    <2> QED
      BY <2>1, <2>2, <2>3
  <1> QED
    BY <1>3, <1>4, JudgedStays

LEMMA FanOutJudged ==
    ASSUME TInv, JInv, at \in {"writer", "writer_repair"}, NEW targets, NEW offset,
           NEW next \in {"join", "deterministic_validate"}, FanOut(targets, offset, next)
    PROVE  JInv'
  <1>1. state \in GraphState /\ UNCHANGED <<passed, saved>>
    BY Facts DEF FanOut
  <1>2. CASE Fails(state, "EVIDENCE_INVALIDATED")
    BY <1>1, <1>2, FailsJudged
  <1>3. CASE ~Fails(state, "EVIDENCE_INVALIDATED")
    <2>1. PICK drafts, invalid, errors :
            Goes(next, [state EXCEPT !.drafts = drafts, !.invalid = invalid, !.errors = errors,
                                     !.repair_count = offset, !.repair_targets = {},
                                     !.draft_hash = NULL])
      <3>1. PICK answer \in [targets -> Answers] :
              Goes(next,
                 [state EXCEPT
                    !.drafts = [i \in Intensity |->
                                  IF i \in targets THEN NewDraft(answer[i], offset) ELSE @[i]],
                    !.invalid = (@ \ targets) \cup {i \in targets : answer[i] = "INVALID_CARD"},
                    !.errors = IF next = "join" THEN {answer[i] : i \in targets} \ Written ELSE {},
                    !.repair_count = offset,
                    !.repair_targets = {},
                    !.draft_hash = NULL])
        BY <1>3 DEF FanOut
      <3> DEFINE drafts == [i \in Intensity |->
                              IF i \in targets THEN NewDraft(answer[i], offset) ELSE state.drafts[i]]
                 invalid == (state.invalid \ targets) \cup {i \in targets : answer[i] = "INVALID_CARD"}
                 errors == IF next = "join" THEN {answer[i] : i \in targets} \ Written ELSE {}
      <3>2. Goes(next, [state EXCEPT !.drafts = drafts, !.invalid = invalid, !.errors = errors,
                                     !.repair_count = offset, !.repair_targets = {},
                                     !.draft_hash = NULL])
        BY <3>1
      <3> HIDE DEF drafts, invalid, errors
      <3> QED
        BY <3>2
    <2>2. /\ at' = next /\ state'.draft_hash = NULL /\ state'.eval_kept = state.eval_kept
          /\ state'.sentencing = state.sentencing
      BY <1>1, <2>1 DEF Goes, GraphState
    <2> QED
      BY <1>1, <2>2, JudgedStays DEF Opening
  <1> QED
    BY <1>2, <1>3

LEMMA WritingJudged ==
    ASSUME TInv, JInv, Writer \/ WriterRepair
    PROVE  JInv'
  BY FanOutJudged DEF Writer, WriterRepair

LEMMA CheckingJudged ==
    ASSUME TInv, JInv, Join \/ DeterministicValidate
    PROVE  JInv'
  <1>1. state \in GraphState /\ UNCHANGED <<passed, saved>>
    BY Facts DEF Join, DeterministicValidate, Quietly
  <1>2. CASE Join
    <2> DEFINE s == [state EXCEPT !.errors = {}]
    <2>1. /\ s \in GraphState /\ s.draft_hash = state.draft_hash
          /\ s.eval_kept = state.eval_kept /\ s.sentencing = state.sentencing
      BY <1>1 DEF GraphState
    <2>2. \/ Repairs(s, state.invalid, {})
          \/ \E code \in {NoTextCode, "SCHEMA_INVALID"} : Fails(s, code)
          \/ Goes("deterministic_validate", s)
      BY <1>2 DEF Join
    <2> HIDE DEF s
    <2>3. CASE Goes("deterministic_validate", s)
      BY <1>1, <2>1, <2>3, JudgedStays DEF Goes, Opening
    <2> QED
      BY <1>1, <2>1, <2>2, <2>3, RepairsJudged, FailsJudged
  <1>3. CASE DeterministicValidate
    <2> DEFINE drafts == Templated(state.drafts, Bad(state.drafts))
    <2>1. \/ Repairs(state, Bad(state.drafts), {})
          \/ Fails(state, AssembleFailure(state.drafts))
          \/ Goes("evaluator", [state EXCEPT !.drafts = drafts, !.attempt = 0])
      BY <1>3 DEF DeterministicValidate
    <2> HIDE DEF drafts
    <2>2. CASE Goes("evaluator", [state EXCEPT !.drafts = drafts, !.attempt = 0])
      <3>1. /\ at' = "evaluator" /\ state'.draft_hash = state.draft_hash
            /\ state'.eval_kept = state.eval_kept /\ state'.sentencing = state.sentencing
        BY <1>1, <2>2 DEF Goes, GraphState
      <3> QED
        BY <1>1, <3>1, JudgedStays DEF Opening
    <2> QED
      BY <1>1, <2>1, <2>2, RepairsJudged, FailsJudged
  <1> QED
    BY <1>2, <1>3

LEMMA JudgeJudged ==
    ASSUME TInv, JInv, at = "evaluator", NEW verdict, NEW reasonFailed \in BOOLEAN, NEW global,
           reasonFailed => state.needs, Judge(verdict, reasonFailed, global), UNCHANGED saved
    PROVE  JInv'
  <1>1. PICK s \in GraphState, judged \in SUBSET Intensity :
             /\ s = [state EXCEPT !.eval_round = @ + 1, !.eval_kept = {}]
             /\ passed' = passed \cup {<<i, state.drafts[i], state.sentencing>> : i \in judged}
             /\ \/ /\ \A i \in Intensity \ judged : <<i, state.drafts[i]>> \in state.eval_kept
                   /\ Goes("finalize", [s EXCEPT !.draft_hash = [drafts |-> state.drafts,
                                                                 sentencing |-> state.sentencing]])
                \/ Fails(s, "EVAL_FAILED")
                \/ /\ ~Regenerate /\ state.attempt # EvalRounds - 1
                   /\ \E rejected, incomplete \in SUBSET Intensity :
                        /\ \A i \in Intensity \ (rejected \cup incomplete \cup judged) :
                             <<i, state.drafts[i]>> \in state.eval_kept
                        /\ Correct(s, rejected, incomplete, reasonFailed)
    BY JudgeSteps
  <1>2. /\ s.drafts = state.drafts /\ s.sentencing = state.sentencing /\ s.eval_kept = {}
        /\ s.draft_hash = state.draft_hash
    BY <1>1, Facts DEF GraphState
  <1>3. passed \subseteq passed'
    BY <1>1
  <1>4. \A i \in Intensity : i \in judged \/ <<i, state.drafts[i]>> \in state.eval_kept =>
          <<i, state.drafts[i], state.sentencing>> \in passed'
    <2> SUFFICES ASSUME NEW i \in Intensity, i \in judged \/ <<i, state.drafts[i]>> \in state.eval_kept
                 PROVE  <<i, state.drafts[i], state.sentencing>> \in passed'
      OBVIOUS
    <2>1. CASE i \in judged
      BY <1>1, <2>1
    <2>2. CASE <<i, state.drafts[i]>> \in state.eval_kept
      <3>1. <<i, state.drafts[i], state.sentencing>> \in passed
        BY <2>2 DEF JInv, KeptWasPassed
      <3> QED
        BY <1>3, <3>1
    <2> QED
      BY <2>1, <2>2
  <1>5. CASE Fails(s, "EVAL_FAILED")
    BY <1>2, <1>3, <1>5, FailsJudged
  <1>6. CASE /\ \A i \in Intensity \ judged : <<i, state.drafts[i]>> \in state.eval_kept
             /\ Goes("finalize", [s EXCEPT !.draft_hash = [drafts |-> state.drafts,
                                                           sentencing |-> state.sentencing]])
    <2>1. /\ at' = "finalize" /\ state'.eval_kept = {}
          /\ state'.draft_hash = [drafts |-> state.drafts, sentencing |-> state.sentencing]
      BY <1>2, <1>6 DEF Goes, GraphState
    <2>2. KeptWasPassed'
      BY <2>1 DEF KeptWasPassed, Opening
    <2>3. HashIsJudged'
      <3>1. \A i \in Intensity : <<i, state.drafts[i], state.sentencing>> \in passed'
        BY <1>4, <1>6, Zenon
      <3>2. state'.draft_hash.drafts = state.drafts /\ state'.draft_hash.sentencing = state.sentencing
        BY <2>1
      <3> QED
        BY <3>1, <3>2 DEF HashIsJudged
    <2>4. SavedIsJudged'
      BY <1>3 DEF JInv, SavedIsJudged
    <2> QED
      BY <2>2, <2>3, <2>4 DEF JInv
  <1>7. ASSUME NEW rejected \in SUBSET Intensity, NEW incomplete \in SUBSET Intensity,
               \A i \in Intensity \ (rejected \cup incomplete \cup judged) :
                  <<i, state.drafts[i]>> \in state.eval_kept,
               Correct(s, rejected, incomplete, reasonFailed)
        PROVE  JInv'
    <2>1. reasonFailed => s.sentencing # NULL
      BY <1>2 DEF TInv, GInv, SentenceDue
    <2>2. \/ Fails(s, "EVAL_FAILED")
          \/ \E drafts \in Drafts, decision \in Decision \cup {NULL} :
                /\ decision # NULL <=> s.sentencing # NULL
                /\ ~reasonFailed => decision = s.sentencing
                /\ \/ /\ MayRepair
                      /\ \A i \in Intensity \ incomplete : drafts[i] = s.drafts[i]
                      /\ Repairs([s EXCEPT !.drafts = drafts, !.sentencing = decision,
                                            !.draft_hash = NULL],
                                 rejected, Kept(rejected \cup incomplete, reasonFailed))
                   \/ /\ AssembleFailure(drafts) = NULL
                      /\ Goes("evaluator", [s EXCEPT !.drafts = Templated(drafts, Bad(drafts)),
                                                     !.sentencing = decision, !.attempt = @ + 1])
      BY <1>2, <1>7, <2>1, Facts, CorrectSteps
    <2>3. ASSUME NEW drafts, NEW decision, ~reasonFailed => decision = s.sentencing,
                 Repairs([s EXCEPT !.drafts = drafts, !.sentencing = decision, !.draft_hash = NULL],
                         rejected, Kept(rejected \cup incomplete, reasonFailed))
          PROVE  JInv'
      <3> DEFINE kept == Kept(rejected \cup incomplete, reasonFailed)
      <3>1. \A k \in kept : <<k[1], k[2], decision>> \in passed'
        BY <1>2, <1>4, <1>7, <2>3 DEF Kept
      <3> HIDE DEF kept
      <3>2. Repairs([s EXCEPT !.drafts = drafts, !.sentencing = decision, !.draft_hash = NULL],
                    rejected, kept)
        BY <2>3 DEF kept
      <3>3. /\ at' = "writer_repair" /\ state'.draft_hash = NULL /\ state'.eval_kept = kept
            /\ state'.sentencing = decision
        BY <3>2 DEF Repairs, Goes, GraphState
      <3>4. KeptWasPassed'
        BY <3>1, <3>3 DEF KeptWasPassed, Opening
      <3>5. HashIsJudged' /\ SavedIsJudged'
        BY <1>3, <3>3 DEF JInv, HashIsJudged, SavedIsJudged
      <3> QED
        BY <3>4, <3>5 DEF JInv
    <2>4. ASSUME NEW drafts, NEW decision,
                 Goes("evaluator", [s EXCEPT !.drafts = Templated(drafts, Bad(drafts)),
                                             !.sentencing = decision, !.attempt = @ + 1])
          PROVE  JInv'
      <3>1. state'.draft_hash = s.draft_hash /\ state'.eval_kept = {}
        BY <1>2, <2>4 DEF Goes, GraphState
      <3> QED
        BY <1>2, <1>3, <3>1, JudgedStays
    <2>5. CASE Fails(s, "EVAL_FAILED")
      BY <1>5, <2>5
    <2> QED
      BY <2>2, <2>3, <2>4, <2>5
  <1> QED
    BY <1>1, <1>5, <1>6, <1>7

LEMMA EvaluatorJudged ==
    ASSUME TInv, JInv, NoTimeToJudge \/ Evaluator
    PROVE  JInv'
  <1>1. state \in GraphState /\ at = "evaluator" /\ UNCHANGED saved
    BY Facts DEF NoTimeToJudge, Evaluator, Quietly
  <1>2. ASSUME NEW code, Fails([state EXCEPT !.eval_round = @ + 1], code), UNCHANGED passed
        PROVE  JInv'
    <2>1. /\ at' = "generation_failed" /\ state'.draft_hash = state.draft_hash
          /\ state'.eval_kept = state.eval_kept /\ state'.sentencing = state.sentencing
      BY <1>1, <1>2 DEF Fails, Goes, GraphState
    <2> QED
      BY <1>1, <1>2, <2>1, JudgedStays DEF Opening
  <1>3. CASE NoTimeToJudge
    BY <1>2, <1>3 DEF NoTimeToJudge, Quietly
  <1>4. CASE Evaluator
    <2>1. CASE Fails(state, "EVIDENCE_INVALIDATED") /\ UNCHANGED passed
      BY <1>1, <2>1, FailsJudged
    <2>2. ASSUME NEW verdict, NEW reasonFailed \in BOOLEAN, NEW global \in BOOLEAN,
                 reasonFailed => state.needs, Judge(verdict, reasonFailed, global)
          PROVE  JInv'
      BY <1>1, <2>2, JudgeJudged
    <2> QED
      BY <1>2, <1>4, <2>1, <2>2 DEF Evaluator
  <1> QED
    BY <1>3, <1>4

LEMMA FinalizeJudged ==
    ASSUME TInv, JInv, Finalize
    PROVE  JInv'
  <1>1. /\ state \in GraphState /\ at = "finalize" /\ UNCHANGED passed
        /\ \/ Fails(state, "EVIDENCE_INVALIDATED") /\ UNCHANGED saved
           \/ Goes("end", state) /\ saved' \in {saved, state.draft_hash}
           \/ Repairs(state, AIs(state.drafts), {}) /\ UNCHANGED saved
           \/ Fails(state, "SCHEMA_INVALID") /\ UNCHANGED saved
    BY Facts DEF Finalize
  <1>2. CASE Goes("end", state) /\ saved' \in {saved, state.draft_hash}
    BY <1>1, <1>2, JudgedStays DEF Goes, Opening
  <1> QED
    BY <1>1, <1>2, FailsJudged, RepairsJudged

LEMMA NextJudged == TInv /\ JInv /\ [Next]_vars => JInv'
  <1> SUFFICES ASSUME TInv, JInv, [Next]_vars PROVE JInv'
    OBVIOUS
  <1>1. CASE GenerationFailed \/ CutOff
    <2>1. at' = "end" /\ state' = state /\ UNCHANGED <<passed, saved>>
      BY <1>1 DEF GenerationFailed, CutOff, Goes, Quietly
    <2> QED
      BY <2>1, JudgedStays DEF Opening
  <1>2. CASE TimePasses \/ UNCHANGED vars
    <2>1. UNCHANGED <<at, state, passed, saved>>
      BY <1>2 DEF TimePasses, vars
    <2> QED
      BY <2>1 DEF JInv, KeptWasPassed, HashIsJudged, SavedIsJudged
  <1> QED
    BY <1>1, <1>2, OpeningJudged, WritingJudged, CheckingJudged, EvaluatorJudged, FinalizeJudged
    DEF Next

\* Every text of a saved verdict was passed by the evaluator as it is saved,
\* beside the sentence it is saved with, for any intensities, limits, models'
\* answers and times (eval_kept, evaluated_draft_hash, the check in finalize).
THEOREM SentencingSavedIsJudged == Spec => []SavedIsJudged
  <1>1. Init => JInv
    <2> SUFFICES ASSUME Init PROVE JInv
      OBVIOUS
    <2>1. state.eval_kept = {} /\ state.draft_hash = NULL /\ saved = NULL
      BY DEF Init
    <2> QED
      BY <2>1 DEF JInv, KeptWasPassed, HashIsJudged, SavedIsJudged
  <1>2. JInv => SavedIsJudged
    BY DEF JInv
  <1> QED
    BY InitType, NextType, NextJudged, <1>1, <1>2, PTL DEF Spec

-----------------------------------------------------------------------------
(***************************************************************************)
(* No call takes the place of another: the calls of the writer made so far *)
(* are numbered below the slots of the passes begun, those of the          *)
(* evaluator below the slots of the rounds begun, and the dossier and the  *)
(* sentence are asked for once, before any text.  A round given up for     *)
(* withdrawn evidence does not count, but then no node calls any more.     *)
(***************************************************************************)
Over == {"generation_failed", "end"}

Numbered ==
    at \notin Over =>
        \A k \in Nat :
            /\ <<"writer", k>> \in calls => k < WriterSlots * (state.repair_count + 1)
            /\ <<"evaluator", k>> \in calls => k < EvaluatorSlots * state.eval_round

Unasked ==
    /\ at \in Opening \ {"sentencing"} => \A k \in Nat : <<"context", k>> \notin calls
    /\ at \in Opening => \A k \in Nat : <<"sentencing", k>> \notin calls
    /\ at \in Opening \cup {"writer"} => \A k \in Nat : <<"writer", k>> \notin calls

CInv == ~again /\ Numbered /\ Unasked

LEMMA NewCalls ==
    ASSUME CInv, NEW made, Call(made), made \cap calls = {}
    PROVE  calls' = calls \cup made /\ ~again'
  <1>1. calls' = calls \cup made /\ (again' <=> again \/ made \cap calls # {})
    BY Zenon DEF Call
  <1> QED
    BY <1>1 DEF CInv

LEMMA NoNewCalls ==
    ASSUME CInv, NoCall
    PROVE  calls' = calls /\ ~again'
  <1>1. calls' = calls /\ (again' <=> again)
    BY Zenon DEF NoCall
  <1> QED
    BY <1>1 DEF CInv

\* After the end nothing is asked of the calls but that they were distinct.
LEMMA OverIsDistinct ==
    ASSUME at' \in Over, ~again'
    PROVE  CInv'
  BY DEF CInv, Numbered, Unasked, Over, Opening

\* A step that calls nothing, counts nothing and leads on.
LEMMA CountedStays ==
    ASSUME CInv, NoCall, at \notin Over, at' \notin Opening \cup {"writer"},
           state'.repair_count = state.repair_count, state'.eval_round = state.eval_round
    PROVE  CInv'
  <1>1. calls' = calls /\ ~again'
    BY NoNewCalls
  <1>2. Numbered'
    BY <1>1 DEF CInv, Numbered
  <1>3. Unasked'
    BY DEF Unasked, Opening
  <1> QED
    BY <1>1, <1>2, <1>3 DEF CInv

\* An opening node calls at most itself, once.
LEMMA OpeningNumbered ==
    ASSUME TInv, CInv, at \in Opening,
           BeginGeneration \/ LoadValidPrep \/ MinimalDossier \/ InlineContext \/ SentencingNode
    PROVE  CInv'
  <1>1. /\ state \in GraphState
        /\ \A k \in Nat : <<"writer", k>> \notin calls /\ <<"sentencing", k>> \notin calls
        /\ \A k \in Nat : <<"evaluator", k>> \in calls => k < EvaluatorSlots * state.eval_round
    BY Facts DEF CInv, Numbered, Unasked, Opening, Over
  <1>2. ASSUME at' \notin Over
        PROVE  /\ state'.repair_count = state.repair_count
               /\ state'.eval_round = state.eval_round
    <2>1. CASE BeginGeneration
      BY <1>1, <1>2, <2>1 DEF BeginGeneration, Goes, Fails, GraphState, Over
    <2>2. CASE LoadValidPrep \/ MinimalDossier \/ InlineContext
      BY <1>1, <1>2, <2>2
      DEF LoadValidPrep, MinimalDossier, InlineContext, Goes, Fails, GraphState, Over
    <2>3. CASE SentencingNode
      BY <1>1, <1>2, <2>3 DEF SentencingNode, Goes, Fails, GraphState, Over
    <2> QED
      BY <2>1, <2>2, <2>3
  <1>3. ASSUME ~again', calls' \subseteq calls \cup {<<"context", 0>>, <<"sentencing", 0>>},
               Unasked' \/ at' \in Over
        PROVE  CInv'
    <2>1. CASE at' \in Over
      BY <1>3, <2>1, OverIsDistinct
    <2>2. CASE at' \notin Over
      <3>1. Numbered'
        BY <1>1, <1>2, <1>3, <2>2 DEF Numbered
      <3> QED
        BY <1>3, <2>2, <3>1 DEF CInv
    <2> QED
      BY <2>1, <2>2
  <1>4. CASE BeginGeneration \/ LoadValidPrep \/ MinimalDossier
    <2>1. at \in Opening \ {"sentencing"}
      BY <1>4 DEF BeginGeneration, LoadValidPrep, MinimalDossier, Opening
    <2>2. calls' = calls /\ ~again'
      BY <1>4, NoNewCalls DEF BeginGeneration, LoadValidPrep, MinimalDossier, Quietly
    <2> QED
      BY <1>1, <1>3, <2>1, <2>2 DEF CInv, Unasked
  <1>5. CASE InlineContext
    <2>1. at = "inline_context" /\ at' \in {"sentencing", "writer"} \cup Over
      BY <1>5 DEF InlineContext, Goes, Fails, SentencingOrWriter, Over
    <2>2. {<<"context", 0>>} \cap calls = {}
      BY <2>1 DEF CInv, Unasked, Opening
    <2>3. calls' \subseteq calls \cup {<<"context", 0>>} /\ ~again'
      BY <1>5, <2>2, NewCalls, NoNewCalls DEF InlineContext
    <2>4. Unasked' \/ at' \in Over
      BY <1>1, <2>1, <2>3 DEF Unasked, Opening
    <2> QED
      BY <1>3, <2>3, <2>4
  <1>6. CASE SentencingNode
    <2>1. at' \in {"writer"} \cup Over
      BY <1>6 DEF SentencingNode, Goes, Fails, Over
    <2>2. {<<"sentencing", 0>>} \cap calls = {}
      BY <1>1
    <2>3. calls' \subseteq calls \cup {<<"sentencing", 0>>} /\ ~again'
      BY <1>6, <2>2, NewCalls, NoNewCalls DEF SentencingNode
    <2>4. Unasked' \/ at' \in Over
      BY <1>1, <2>1, <2>3 DEF Unasked, Opening
    <2> QED
      BY <1>3, <2>3, <2>4
  <1> QED
    BY <1>4, <1>5, <1>6

\* A pass of the writer has slots of its own.
LEMMA FanOutNumbered ==
    ASSUME TInv, CInv, NEW targets \in SUBSET Intensity, NEW offset \in Nat,
           NEW next \in {"join", "deterministic_validate"}, FanOut(targets, offset, next),
           at \notin Over,
           \A k \in Nat : <<"writer", k>> \in calls => k < WriterSlots * offset
    PROVE  CInv'
  <1>1. state \in GraphState
    BY Facts
  <1>2. CASE Fails(state, "EVIDENCE_INVALIDATED") /\ UNCHANGED left /\ NoCall
    BY <1>2, NoNewCalls, OverIsDistinct DEF Fails, Goes, Over
  <1>3. ASSUME NEW answer \in [targets -> Answers],
               Goes(next,
                 [state EXCEPT
                    !.drafts = [i \in Intensity |->
                                  IF i \in targets THEN NewDraft(answer[i], offset) ELSE @[i]],
                    !.invalid = (@ \ targets) \cup {i \in targets : answer[i] = "INVALID_CARD"},
                    !.errors = IF next = "join" THEN {answer[i] : i \in targets} \ Written ELSE {},
                    !.repair_count = offset,
                    !.repair_targets = {},
                    !.draft_hash = NULL]),
               Call({<<"writer", WriterCallIndex(offset, i)>> :
                       i \in {j \in targets : answer[j] # "SKIPPED"}})
        PROVE  CInv'
    <2> DEFINE made == {<<"writer", WriterCallIndex(offset, i)>> :
                          i \in {j \in targets : answer[j] # "SKIPPED"}}
    <2>1. \A i \in Intensity : /\ WriterCallIndex(offset, i) \in Nat
                               /\ WriterCallIndex(offset, i) >= WriterSlots * offset
                               /\ WriterCallIndex(offset, i) < WriterSlots * (offset + 1)
      <3> TAKE i \in Intensity
      <3>1. Position[i] \in 0..2
        BY SentencingAssumption DEF WriterSlots
      <3> QED
        BY <3>1 DEF WriterCallIndex, WriterSlots
    <2>2. \A c \in made : \E k \in Nat : /\ c = <<"writer", k>>
                                         /\ k >= WriterSlots * offset
                                         /\ k < WriterSlots * (offset + 1)
      BY <2>1
    <2>3. Call(made)
      BY <1>3
    <2> HIDE DEF made
    <2>4. made \cap calls = {}
      <3> SUFFICES ASSUME NEW c \in made, c \in calls PROVE FALSE
        OBVIOUS
      <3>1. PICK k \in Nat : c = <<"writer", k>> /\ k >= WriterSlots * offset
        BY <2>2
      <3>2. k < WriterSlots * offset
        BY <3>1
      <3> QED
        BY <3>1, <3>2 DEF WriterSlots
    <2>5. calls' = calls \cup made /\ ~again'
      BY <2>3, <2>4, NewCalls
    <2>6. /\ at' = next /\ state'.repair_count = offset
          /\ state'.eval_round = state.eval_round
      BY <1>1, <1>3 DEF Goes, GraphState
    <2>7. \A k \in Nat : <<"writer", k>> \in calls' => k < WriterSlots * (offset + 1)
      BY <2>2, <2>5 DEF WriterSlots
    <2>8. \A k \in Nat : <<"evaluator", k>> \in calls' => k < EvaluatorSlots * state'.eval_round
      BY <2>2, <2>5, <2>6 DEF CInv, Numbered
    <2> QED
      BY <2>5, <2>6, <2>7, <2>8 DEF CInv, Numbered, Unasked, Opening
  <1> QED
    BY <1>2, <1>3 DEF FanOut

LEMMA WritingNumbered ==
    ASSUME TInv, CInv, Writer \/ WriterRepair
    PROVE  CInv'
  <1>1. state.repair_count \in Nat /\ state.repair_targets \in SUBSET Intensity
    BY Facts DEF GraphState
  <1>2. CASE Writer
    <2>1. \A k \in Nat : <<"writer", k>> \notin calls
      BY <1>2 DEF Writer, CInv, Unasked
    <2> QED
      BY <1>1, <1>2, <2>1, FanOutNumbered DEF Writer, Over
  <1>3. CASE WriterRepair
    <2>1. at \notin Over
      BY <1>3 DEF WriterRepair, Over
    <2>2. \A k \in Nat : <<"writer", k>> \in calls => k < WriterSlots * (state.repair_count + 1)
      BY <2>1 DEF CInv, Numbered
    <2>3. state.repair_count + 1 \in Nat
      BY <1>1
    <2> QED
      BY <1>1, <1>3, <2>1, <2>2, <2>3, FanOutNumbered DEF WriterRepair
  <1> QED
    BY <1>2, <1>3

LEMMA CheckingNumbered ==
    ASSUME TInv, CInv, Join \/ DeterministicValidate \/ Finalize
    PROVE  CInv'
  <1>1. state \in GraphState /\ NoCall /\ at \notin Over
    BY Facts DEF Join, DeterministicValidate, Finalize, Quietly, Over
  <1>2. /\ at' \notin Opening \cup {"writer"}
        /\ state'.repair_count = state.repair_count /\ state'.eval_round = state.eval_round
    <2>1. CASE Join
      BY <1>1, <2>1 DEF Join, Repairs, Fails, Goes, Opening, GraphState
    <2>2. CASE DeterministicValidate
      BY <1>1, <2>2 DEF DeterministicValidate, Repairs, Fails, Goes, Opening, GraphState
    <2>3. CASE Finalize
      BY <1>1, <2>3 DEF Finalize, Repairs, Fails, Goes, Opening, GraphState
    <2> QED
      BY <2>1, <2>2, <2>3
  <1> QED
    BY <1>1, <1>2, CountedStays

\* A report counts its round, wherever it leads.
LEMMA JudgeCounts ==
    ASSUME TInv, at = "evaluator", NEW verdict, NEW reasonFailed \in BOOLEAN, NEW global,
           reasonFailed => state.needs, Judge(verdict, reasonFailed, global)
    PROVE  /\ at' \notin Opening \cup {"writer"}
           /\ state'.repair_count = state.repair_count
           /\ state'.eval_round = state.eval_round + 1
  <1>1. PICK s \in GraphState, judged \in SUBSET Intensity :
             /\ s = [state EXCEPT !.eval_round = @ + 1, !.eval_kept = {}]
             /\ passed' = passed \cup {<<i, state.drafts[i], state.sentencing>> : i \in judged}
             /\ \/ /\ \A i \in Intensity \ judged : <<i, state.drafts[i]>> \in state.eval_kept
                   /\ Goes("finalize", [s EXCEPT !.draft_hash = [drafts |-> state.drafts,
                                                                 sentencing |-> state.sentencing]])
                \/ Fails(s, "EVAL_FAILED")
                \/ /\ ~Regenerate /\ state.attempt # EvalRounds - 1
                   /\ \E rejected, incomplete \in SUBSET Intensity :
                        /\ \A i \in Intensity \ (rejected \cup incomplete \cup judged) :
                             <<i, state.drafts[i]>> \in state.eval_kept
                        /\ Correct(s, rejected, incomplete, reasonFailed)
    BY JudgeSteps
  <1>2. /\ s.repair_count = state.repair_count /\ s.eval_round = state.eval_round + 1
        /\ s.drafts = state.drafts /\ s.sentencing = state.sentencing
    BY <1>1, Facts DEF GraphState
  <1>3. CASE Fails(s, "EVAL_FAILED")
    BY <1>2, <1>3 DEF Fails, Goes, Opening, GraphState
  <1>4. CASE Goes("finalize", [s EXCEPT !.draft_hash = [drafts |-> state.drafts,
                                                        sentencing |-> state.sentencing]])
    BY <1>2, <1>4 DEF Goes, Opening, GraphState
  <1>5. ASSUME NEW rejected \in SUBSET Intensity, NEW incomplete \in SUBSET Intensity,
               Correct(s, rejected, incomplete, reasonFailed)
        PROVE  /\ at' \notin Opening \cup {"writer"}
               /\ state'.repair_count = s.repair_count /\ state'.eval_round = s.eval_round
    BY <1>5 DEF Correct, Repairs, Fails, Goes, Opening, GraphState
  <1> QED
    BY <1>1, <1>2, <1>3, <1>4, <1>5

\* A round has slots of its own, if it is counted or the last.
LEMMA EvaluatorNumbered ==
    ASSUME TInv, CInv, NoTimeToJudge \/ Evaluator
    PROVE  CInv'
  <1>1. /\ state \in GraphState /\ state.repair_count \in Nat /\ state.eval_round \in Nat
        /\ at = "evaluator"
    BY Facts DEF NoTimeToJudge, Evaluator
  <1>2. CASE NoTimeToJudge
    BY <1>2, NoNewCalls, OverIsDistinct DEF NoTimeToJudge, Quietly, Fails, Goes, Over
  <1>3. CASE Evaluator
    <2> DEFINE made == {<<"evaluator", EvaluatorCallIndex(group \subseteq Hell)>> : group \in Groups}
    <2>1. \A c \in made : \E k \in Nat : /\ c = <<"evaluator", k>>
                                         /\ k >= EvaluatorSlots * state.eval_round
                                         /\ k < EvaluatorSlots * (state.eval_round + 1)
      <3>1. \A apart \in BOOLEAN :
              /\ EvaluatorCallIndex(apart) \in Nat
              /\ EvaluatorCallIndex(apart) >= EvaluatorSlots * state.eval_round
              /\ EvaluatorCallIndex(apart) < EvaluatorSlots * (state.eval_round + 1)
        BY <1>1 DEF EvaluatorCallIndex, EvaluatorSlots
      <3>2. \A group \in Groups : (group \subseteq Hell) \in BOOLEAN
        BY Zenon
      <3> QED
        BY <3>1, <3>2
    <2>2. Call(made)
      BY <1>3 DEF Evaluator, EvaluatorCalls
    <2> HIDE DEF made
    <2>3. \A k \in Nat : <<"evaluator", k>> \in calls => k < EvaluatorSlots * state.eval_round
      BY <1>1 DEF CInv, Numbered, Over
    <2>4. made \cap calls = {}
      <3> SUFFICES ASSUME NEW c \in made, c \in calls PROVE FALSE
        OBVIOUS
      <3>1. PICK k \in Nat : c = <<"evaluator", k>> /\ k >= EvaluatorSlots * state.eval_round
        BY <2>1
      <3>2. k < EvaluatorSlots * state.eval_round
        BY <2>3, <3>1
      <3> QED
        BY <1>1, <3>1, <3>2 DEF EvaluatorSlots
    <2>5. calls' = calls \cup made /\ ~again'
      BY <2>2, <2>4, NewCalls
    <2>6. CASE at' \in Over
      BY <2>5, <2>6, OverIsDistinct
    <2>7. ASSUME NEW verdict, NEW reasonFailed \in BOOLEAN, NEW global \in BOOLEAN,
                 reasonFailed => state.needs, Judge(verdict, reasonFailed, global)
          PROVE  CInv'
      <3>1. /\ at' \notin Opening \cup {"writer"}
            /\ state'.repair_count = state.repair_count
            /\ state'.eval_round = state.eval_round + 1
        BY <1>1, <2>7, JudgeCounts
      <3>2. \A k \in Nat : <<"evaluator", k>> \in calls' => k < EvaluatorSlots * state'.eval_round
        BY <1>1, <2>1, <2>3, <2>5, <3>1 DEF EvaluatorSlots
      <3>3. \A k \in Nat : <<"writer", k>> \in calls' => k < WriterSlots * (state'.repair_count + 1)
        BY <1>1, <2>1, <2>5, <3>1 DEF CInv, Numbered, Over
      <3> QED
        BY <2>5, <3>1, <3>2, <3>3 DEF CInv, Numbered, Unasked, Opening
    <2> QED
      BY <1>3, <2>6, <2>7 DEF Evaluator, Fails, Goes, Over
  <1> QED
    BY <1>2, <1>3

LEMMA NextNumbered == TInv /\ CInv /\ [Next]_vars => CInv'
  <1> SUFFICES ASSUME TInv, CInv, [Next]_vars PROVE CInv'
    OBVIOUS
  <1>1. CASE GenerationFailed \/ CutOff
    BY <1>1, NoNewCalls, OverIsDistinct DEF GenerationFailed, CutOff, Goes, Quietly, Over
  <1>2. CASE TimePasses \/ UNCHANGED vars
    <2>1. NoCall /\ at' = at /\ state' = state
      BY <1>2 DEF TimePasses, vars, NoCall
    <2>2. calls' = calls /\ ~again'
      BY <2>1, NoNewCalls
    <2> QED
      BY <2>1, <2>2 DEF CInv, Numbered, Unasked
  <1>3. CASE BeginGeneration \/ LoadValidPrep \/ MinimalDossier \/ InlineContext \/ SentencingNode
    <2>1. at \in Opening
      BY <1>3 DEF BeginGeneration, LoadValidPrep, MinimalDossier, InlineContext, SentencingNode,
                  Opening
    <2> QED
      BY <1>3, <2>1, OpeningNumbered
  <1> QED
    BY <1>1, <1>2, <1>3, WritingNumbered, CheckingNumbered, EvaluatorNumbered DEF Next

\* No two calls of a run share node and call_index, through however many
\* repairs and rounds: each pass of the writer has three slots of its own and
\* each round of the evaluator two (writer_call_index, evaluator_call_index).
THEOREM SentencingCallsAreDistinct == Spec => []CallsAreDistinct
  <1>1. Init => CInv
    <2> SUFFICES ASSUME Init PROVE CInv
      OBVIOUS
    <2>1. calls = {} /\ ~again
      BY Zenon DEF Init
    <2> QED
      BY <2>1 DEF CInv, Numbered, Unasked
  <1>2. CInv => CallsAreDistinct
    BY DEF CInv, CallsAreDistinct
  <1> QED
    BY InitType, NextType, NextNumbered, <1>1, <1>2, PTL DEF Spec

-----------------------------------------------------------------------------
(***************************************************************************)
(* What is saved is sound.  The evaluator gets only what assemble lets     *)
(* pass, and hands on what it got; a TEXT_RETRY, which is never repaired   *)
(* and given no template, comes to assemble with texts of a model alone.   *)
(***************************************************************************)
Fit(drafts) ==
    /\ \A i \in Intensity : drafts[i] \in Text /\ drafts[i].clean
    /\ AIs(drafts) # {}

JudgedIsFit ==
    /\ at \in {"evaluator", "finalize"} =>
         Fit(state.drafts) /\ (Regenerate => AIs(state.drafts) = Intensity)
    /\ at = "deterministic_validate" /\ Regenerate => AIs(state.drafts) = Intensity
    /\ at = "writer_repair" => ~Regenerate

FInv == JudgedIsFit /\ SavedIsSound

\* Assemble's rules on what is left or put in place of the others.
LEMMA AssembledIsFit ==
    ASSUME state \in GraphState, NEW drafts \in Drafts, AssembleFailure(drafts) = NULL
    PROVE  /\ Fit(Templated(drafts, Bad(drafts)))
           /\ Regenerate => Templated(drafts, Bad(drafts)) = drafts
  <1> DEFINE new == Templated(drafts, Bad(drafts))
  <1>1. /\ \A i \in Intensity : drafts[i] \in Text
        /\ Bad(drafts) # {} => ~Regenerate /\ state.templates = "good"
        /\ AIs(new) # {}
    BY Assembled
  <1>2. ASSUME NEW i \in Intensity PROVE new[i] \in Text /\ new[i].clean
    <2>1. CASE i \in Bad(drafts)
      <3>1. new[i] = Template /\ Template.clean
        BY <1>1, <2>1 DEF Templated, Template
      <3> QED
        BY <3>1, TemplateIsText
    <2>2. CASE i \notin Bad(drafts)
      <3>1. new[i] = drafts[i]
        BY <2>2 DEF Templated
      <3>2. drafts[i] # NULL
        BY <1>1, NullAssumption
      <3> QED
        BY <1>1, <2>2, <3>1, <3>2 DEF Bad
    <2> QED
      BY <2>1, <2>2
  <1>3. Regenerate => new = drafts
    BY <1>1 DEF Templated, Drafts
  <1> QED
    BY <1>1, <1>2, <1>3 DEF Fit

\* A step that saves nothing, and leads to neither of the checked nodes.
LEMMA UncheckedStays ==
    ASSUME FInv, UNCHANGED saved, state'.needs = state.needs, state'.mode = state.mode,
           at' \notin {"deterministic_validate", "evaluator", "finalize"},
           at' = "writer_repair" => state.mode = "INITIAL"
    PROVE  FInv'
  <1>1. JudgedIsFit'
    BY DEF JudgedIsFit, Regenerate
  <1>2. SavedIsSound'
    BY DEF FInv, SavedIsSound, Regenerate, AIs
  <1> QED
    BY <1>1, <1>2 DEF FInv

\* A step that saves nothing, and leads to one of them with what fits.
LEMMA CheckedStays ==
    ASSUME FInv, UNCHANGED saved, state'.needs = state.needs, state'.mode = state.mode,
           \/ /\ at' \in {"evaluator", "finalize"} /\ Fit(state'.drafts)
              /\ Regenerate => AIs(state'.drafts) = Intensity
           \/ at' = "deterministic_validate" /\ (Regenerate => AIs(state'.drafts) = Intensity)
    PROVE  FInv'
  <1>1. \A drafts : AIs(drafts)' = AIs(drafts') /\ Fit(drafts)' = Fit(drafts')
    BY DEF AIs, Fit
  <1>2. JudgedIsFit'
    BY <1>1 DEF JudgedIsFit, Regenerate, Fit, AIs
  <1>3. SavedIsSound'
    BY DEF FInv, SavedIsSound, Regenerate, AIs
  <1> QED
    BY <1>2, <1>3 DEF FInv

LEMMA OpeningFits ==
    ASSUME TInv, FInv,
           BeginGeneration \/ LoadValidPrep \/ MinimalDossier \/ InlineContext \/ SentencingNode
    PROVE  FInv'
  <1>1. state \in GraphState
    BY Facts
  <1>2. UNCHANGED saved
    BY DEF BeginGeneration, LoadValidPrep, MinimalDossier, InlineContext, SentencingNode, Quietly
  <1>3. /\ state'.needs = state.needs /\ state'.mode = state.mode
        /\ at' \in Opening \cup {"writer"} \cup Over
    <2>1. CASE BeginGeneration
      BY <1>1, <2>1 DEF BeginGeneration, Goes, Fails, GraphState, Opening, Over
    <2>2. CASE LoadValidPrep \/ MinimalDossier \/ InlineContext
      BY <1>1, <2>2
      DEF LoadValidPrep, MinimalDossier, InlineContext, SentencingOrWriter, Goes, Fails, GraphState,
          Opening, Over
    <2>3. CASE SentencingNode
      BY <1>1, <2>3 DEF SentencingNode, Goes, Fails, GraphState, Opening, Over
    <2> QED
      BY <2>1, <2>2, <2>3
  <1> QED
    BY <1>2, <1>3, UncheckedStays DEF Opening, Over

LEMMA WritingFits ==
    ASSUME TInv, FInv, Writer \/ WriterRepair
    PROVE  FInv'
  <1>1. state \in GraphState
    BY Facts
  <1>2. ASSUME NEW targets, NEW offset, NEW next, FanOut(targets, offset, next)
        PROVE  /\ UNCHANGED saved /\ state'.needs = state.needs /\ state'.mode = state.mode
               /\ at' \in {"generation_failed", next}
    BY <1>1, <1>2 DEF FanOut, Fails, Goes, GraphState
  <1>3. CASE Writer
    BY <1>2, <1>3, UncheckedStays DEF Writer
  <1>4. CASE WriterRepair
    <2>1. ~Regenerate
      BY <1>4 DEF FInv, JudgedIsFit, WriterRepair
    <2>2. /\ UNCHANGED saved /\ state'.needs = state.needs /\ state'.mode = state.mode
          /\ at' \in {"generation_failed", "deterministic_validate"}
      BY <1>2, <1>4 DEF WriterRepair
    <2> QED
      BY <2>1, <2>2, UncheckedStays, CheckedStays
  <1> QED
    BY <1>3, <1>4

LEMMA JoinFits ==
    ASSUME TInv, FInv, Join
    PROVE  FInv'
  <1> DEFINE s == [state EXCEPT !.errors = {}]
  <1>1. /\ state \in GraphState /\ UNCHANGED saved
        /\ s.needs = state.needs /\ s.mode = state.mode /\ s.drafts = state.drafts
    BY Facts DEF Join, Quietly, GraphState
  <1>2. \/ MayRepair /\ Repairs(s, state.invalid, {})
        \/ \E code : Fails(s, code)
        \/ /\ Regenerate => AIs(state.drafts) = Intensity
           /\ Goes("deterministic_validate", s)
    BY DEF Join
  <1>3. CASE MayRepair /\ Repairs(s, state.invalid, {})
    BY <1>1, <1>3, UncheckedStays DEF MayRepair, Repairs, Goes, GraphState
  <1>4. ASSUME NEW code, Fails(s, code) PROVE FInv'
    BY <1>1, <1>4, UncheckedStays DEF Fails, Goes, GraphState
  <1>5. CASE (Regenerate => AIs(state.drafts) = Intensity) /\ Goes("deterministic_validate", s)
    BY <1>1, <1>5, CheckedStays DEF Goes
  <1> QED
    BY <1>2, <1>3, <1>4, <1>5

LEMMA ValidateFits ==
    ASSUME TInv, FInv, DeterministicValidate
    PROVE  FInv'
  <1> DEFINE drafts == Templated(state.drafts, Bad(state.drafts))
  <1>1. state \in GraphState /\ state.drafts \in Drafts /\ UNCHANGED saved
    BY Facts DEF DeterministicValidate, Quietly
  <1>2. \/ MayRepair /\ Repairs(state, Bad(state.drafts), {})
        \/ Fails(state, AssembleFailure(state.drafts))
        \/ /\ AssembleFailure(state.drafts) = NULL
           /\ Goes("evaluator", [state EXCEPT !.drafts = drafts, !.attempt = 0])
    BY DEF DeterministicValidate
  <1> HIDE DEF drafts
  <1>3. CASE MayRepair /\ Repairs(state, Bad(state.drafts), {})
    BY <1>1, <1>3, UncheckedStays DEF MayRepair, Repairs, Goes, GraphState
  <1>4. CASE Fails(state, AssembleFailure(state.drafts))
    BY <1>1, <1>4, UncheckedStays DEF Fails, Goes, GraphState
  <1>5. CASE /\ AssembleFailure(state.drafts) = NULL
             /\ Goes("evaluator", [state EXCEPT !.drafts = drafts, !.attempt = 0])
    <2>1. Fit(drafts) /\ (Regenerate => drafts = state.drafts)
      BY <1>1, <1>5, AssembledIsFit DEF drafts
    <2>2. Regenerate => AIs(state.drafts) = Intensity
      BY DEF FInv, JudgedIsFit, DeterministicValidate
    <2>3. /\ at' = "evaluator" /\ state'.drafts = drafts
          /\ state'.needs = state.needs /\ state'.mode = state.mode
      BY <1>1, <1>5 DEF Goes, GraphState
    <2> QED
      BY <1>1, <2>1, <2>2, <2>3, CheckedStays
  <1> QED
    BY <1>2, <1>3, <1>4, <1>5

LEMMA JudgeFits ==
    ASSUME TInv, FInv, at = "evaluator", NEW verdict, NEW reasonFailed \in BOOLEAN, NEW global,
           reasonFailed => state.needs, Judge(verdict, reasonFailed, global), UNCHANGED saved
    PROVE  FInv'
  <1>1. PICK s \in GraphState, judged \in SUBSET Intensity :
             /\ s = [state EXCEPT !.eval_round = @ + 1, !.eval_kept = {}]
             /\ passed' = passed \cup {<<i, state.drafts[i], state.sentencing>> : i \in judged}
             /\ \/ /\ \A i \in Intensity \ judged : <<i, state.drafts[i]>> \in state.eval_kept
                   /\ Goes("finalize", [s EXCEPT !.draft_hash = [drafts |-> state.drafts,
                                                                 sentencing |-> state.sentencing]])
                \/ Fails(s, "EVAL_FAILED")
                \/ /\ ~Regenerate /\ state.attempt # EvalRounds - 1
                   /\ \E rejected, incomplete \in SUBSET Intensity :
                        /\ \A i \in Intensity \ (rejected \cup incomplete \cup judged) :
                             <<i, state.drafts[i]>> \in state.eval_kept
                        /\ Correct(s, rejected, incomplete, reasonFailed)
    BY JudgeSteps
  <1>2. /\ s.needs = state.needs /\ s.mode = state.mode
        /\ s.drafts = state.drafts /\ s.sentencing = state.sentencing
    BY <1>1, Facts DEF GraphState
  <1>3. CASE Fails(s, "EVAL_FAILED")
    BY <1>2, <1>3, UncheckedStays DEF Fails, Goes, GraphState
  <1>4. CASE Goes("finalize", [s EXCEPT !.draft_hash = [drafts |-> state.drafts,
                                                        sentencing |-> state.sentencing]])
    <2>1. Fit(state.drafts) /\ (Regenerate => AIs(state.drafts) = Intensity)
      BY DEF FInv, JudgedIsFit
    <2>2. /\ at' = "finalize" /\ state'.drafts = state.drafts
          /\ state'.needs = state.needs /\ state'.mode = state.mode
      BY <1>2, <1>4 DEF Goes, GraphState
    <2> QED
      BY <2>1, <2>2, CheckedStays
  <1>5. ASSUME NEW rejected \in SUBSET Intensity, NEW incomplete \in SUBSET Intensity,
               Correct(s, rejected, incomplete, reasonFailed), ~Regenerate
        PROVE  FInv'
    <2>1. reasonFailed => s.sentencing # NULL
      BY <1>2 DEF TInv, GInv, SentenceDue
    <2>2. \/ Fails(s, "EVAL_FAILED")
          \/ \E drafts \in Drafts, decision \in Decision \cup {NULL} :
                /\ decision # NULL <=> s.sentencing # NULL
                /\ ~reasonFailed => decision = s.sentencing
                /\ \/ /\ MayRepair
                      /\ \A i \in Intensity \ incomplete : drafts[i] = s.drafts[i]
                      /\ Repairs([s EXCEPT !.drafts = drafts, !.sentencing = decision,
                                            !.draft_hash = NULL],
                                 rejected, Kept(rejected \cup incomplete, reasonFailed))
                   \/ /\ AssembleFailure(drafts) = NULL
                      /\ Goes("evaluator", [s EXCEPT !.drafts = Templated(drafts, Bad(drafts)),
                                                     !.sentencing = decision, !.attempt = @ + 1])
      BY <1>2, <1>5, <2>1, Facts, CorrectSteps
    <2>3. ASSUME NEW drafts, NEW decision, NEW kept, MayRepair,
                 Repairs([s EXCEPT !.drafts = drafts, !.sentencing = decision, !.draft_hash = NULL],
                         rejected, kept)
          PROVE  FInv'
      BY <1>2, <2>3, UncheckedStays DEF MayRepair, Repairs, Goes, GraphState
    <2>4. ASSUME NEW drafts \in Drafts, NEW decision, AssembleFailure(drafts) = NULL,
                 Goes("evaluator", [s EXCEPT !.drafts = Templated(drafts, Bad(drafts)),
                                             !.sentencing = decision, !.attempt = @ + 1])
          PROVE  FInv'
      <3>1. Fit(Templated(drafts, Bad(drafts)))
        BY <2>4, Facts, AssembledIsFit
      <3>2. /\ at' = "evaluator" /\ state'.drafts = Templated(drafts, Bad(drafts))
            /\ state'.needs = state.needs /\ state'.mode = state.mode
        BY <1>2, <2>4 DEF Goes, GraphState
      <3> QED
        BY <1>5, <3>1, <3>2, CheckedStays
    <2> QED
      BY <1>3, <2>2, <2>3, <2>4
  <1> QED
    BY <1>1, <1>3, <1>4, <1>5

LEMMA EvaluatorFits ==
    ASSUME TInv, FInv, NoTimeToJudge \/ Evaluator
    PROVE  FInv'
  <1>1. state \in GraphState /\ at = "evaluator" /\ UNCHANGED saved
    BY Facts DEF NoTimeToJudge, Evaluator, Quietly
  <1>2. ASSUME NEW code, Fails([state EXCEPT !.eval_round = @ + 1], code) \/ Fails(state, code)
        PROVE  FInv'
    BY <1>1, <1>2, UncheckedStays DEF Fails, Goes, GraphState
  <1>3. ASSUME NEW verdict, NEW reasonFailed \in BOOLEAN, NEW global \in BOOLEAN,
               reasonFailed => state.needs, Judge(verdict, reasonFailed, global)
        PROVE  FInv'
    BY <1>1, <1>3, JudgeFits
  <1> QED
    BY <1>2, <1>3 DEF NoTimeToJudge, Evaluator

LEMMA FinalizeFits ==
    ASSUME TInv, FInv, Finalize
    PROVE  FInv'
  <1>1. /\ state \in GraphState /\ at = "finalize"
        /\ state.draft_hash = [drafts |-> state.drafts, sentencing |-> state.sentencing]
        /\ \/ \E code : Fails(state, code) /\ UNCHANGED saved
           \/ Goes("end", state) /\ saved' \in {saved, state.draft_hash}
           \/ MayRepair /\ Repairs(state, AIs(state.drafts), {}) /\ UNCHANGED saved
    BY Facts DEF Finalize
  <1>2. ASSUME NEW code, Fails(state, code), UNCHANGED saved
        PROVE  FInv'
    BY <1>1, <1>2, UncheckedStays DEF Fails, Goes, GraphState
  <1>3. CASE MayRepair /\ Repairs(state, AIs(state.drafts), {}) /\ UNCHANGED saved
    BY <1>1, <1>3, UncheckedStays DEF MayRepair, Repairs, Goes, GraphState
  <1>4. CASE Goes("end", state) /\ UNCHANGED saved
    BY <1>4, UncheckedStays DEF Goes
  <1>5. CASE Goes("end", state) /\ saved' = state.draft_hash
    <2>1. Fit(state.drafts) /\ (Regenerate => AIs(state.drafts) = Intensity)
      BY <1>1 DEF FInv, JudgedIsFit
    <2>2. /\ state.sentencing # NULL <=> state.needs
          /\ Regenerate /\ state.needs =>
               state.sentencing = [source |-> "FIXED", reason |-> "given"]
      BY <1>1 DEF TInv, GInv, SentenceDue
    <2>3. state' = state /\ at' = "end"
          /\ saved'.drafts = state.drafts /\ saved'.sentencing = state.sentencing
      BY <1>1, <1>5 DEF Goes
    <2>4. \A i \in Intensity : state.drafts[i] # NULL
      BY <2>1, NullAssumption DEF Fit
    <2>5. SavedIsSound'
      BY <2>1, <2>2, <2>3, <2>4 DEF SavedIsSound, Fit, AIs, Regenerate
    <2>6. JudgedIsFit'
      BY <2>3 DEF JudgedIsFit
    <2> QED
      BY <2>5, <2>6 DEF FInv
  <1> QED
    BY <1>1, <1>2, <1>3, <1>4, <1>5

LEMMA NextFits == TInv /\ FInv /\ [Next]_vars => FInv'
  <1> SUFFICES ASSUME TInv, FInv, [Next]_vars PROVE FInv'
    OBVIOUS
  <1>1. CASE GenerationFailed \/ CutOff
    BY <1>1, UncheckedStays DEF GenerationFailed, CutOff, Goes, Quietly
  <1>2. CASE TimePasses \/ UNCHANGED vars
    <2>1. UNCHANGED <<at, state, saved>>
      BY <1>2 DEF TimePasses, vars
    <2> QED
      BY <2>1 DEF FInv, JudgedIsFit, SavedIsSound, Fit, AIs, Regenerate
  <1> QED
    BY <1>1, <1>2, OpeningFits, WritingFits, JoinFits, ValidateFits, EvaluatorFits, FinalizeFits
    DEF Next

\* A verdict is saved whole: a text that keeps the rules for each intensity, at
\* least one of a model, with a sentence exactly where one is due; and a
\* TEXT_RETRY saves texts of the model alone beside the sentence that stands
\* (assemble, join, route_after_evaluator, finalize).
THEOREM SentencingSavedIsSound == Spec => []SavedIsSound
  <1>1. Init => FInv
    <2> SUFFICES ASSUME Init PROVE FInv
      OBVIOUS
    <2>1. at = "begin_generation" /\ saved = NULL
      BY DEF Init
    <2> QED
      BY <2>1 DEF FInv, JudgedIsFit, SavedIsSound
  <1>2. FInv => SavedIsSound
    BY DEF FInv
  <1> QED
    BY InitType, NextType, NextFits, <1>1, <1>2, PTL DEF Spec
=============================================================================
