------------------------------- MODULE Report -------------------------------
(***************************************************************************)
(* What run_evaluator (graphs/sentencing.py) makes of the answers of the   *)
(* evaluators in one round: the entries of a text are merged, advisory     *)
(* codes are forgiven, templates pass, and validate_evaluation             *)
(* (domain/validation.py) decides.  Functions without state.               *)
(*                                                                         *)
(* A pass is yes, no, or odd: neither true nor false, or missing.  Of the  *)
(* codes only UNGROUNDED_CLAIM is advisory.                                *)
(***************************************************************************)
EXTENDS Naturals, Sequences, SequencesExt, Filters

CONSTANTS
    Targets,            \* the intensities of the run, in order, as a sequence
    MaxViolations       \* max_length of violations in the contract

\* The intensities of a snapshot, each once.
ASSUME ReportAssumption ==
    /\ Targets \in Seq(STRING) \ {<<>>} /\ Range(Targets) \subseteq {"mild", "spicy", "hell"}
    /\ \A j, k \in DOMAIN Targets : Targets[j] = Targets[k] => j = k
    /\ MaxViolations \in Nat

Advisory == {"UNGROUNDED_CLAIM"}

Passes == {"yes", "no", "odd"}

\* A check, and an entry: the check of the text of an intensity.
Check == [pass : Passes, violations : Seq(STRING)]
Entry == [intensity : STRING, pass : Passes, violations : Seq(STRING)]

\* Of several entries: _dedup_dicts.
Distinct(items) ==
    LET out[n \in 0..Len(items)] ==
            IF n = 0 THEN <<>>
            ELSE IF items[n] \in Range(out[n - 1]) THEN out[n - 1]
            ELSE Append(out[n - 1], items[n])
    IN  out[Len(items)]

-----------------------------------------------------------------------------
\* The pass of two: any that is odd makes the whole odd.
Both(first, second) ==
    IF first # "odd" /\ second # "odd"
    THEN IF first = "yes" /\ second = "yes" THEN "yes" ELSE "no"
    ELSE "odd"

\* _merge_reports: two answers when hell has a model of its own.
MergedCheck(checks) ==
    IF Len(checks) = 1 THEN checks[1]
    ELSE IF \E k \in DOMAIN checks : checks[k].pass = "odd"
    THEN [pass |-> "odd", violations |-> <<>>]
    ELSE [pass |-> IF \A k \in DOMAIN checks : checks[k].pass = "yes" THEN "yes" ELSE "no",
          violations |-> FlattenSeq([k \in DOMAIN checks |-> checks[k].violations])]

MergeReports(outputs) ==
    [sentence_check |-> MergedCheck([k \in DOMAIN outputs |-> outputs[k].sentence_check]),
     reason_check |-> MergedCheck([k \in DOMAIN outputs |-> outputs[k].reason_check]),
     texts |-> FlattenSeq([k \in DOMAIN outputs |-> outputs[k].texts])]

OfAnIntensity(entry) == entry.intensity \in {"mild", "spicy", "hell"}

\* The last answer would count alone.
JoinedByTheLast(first, second) ==
    [second EXCEPT !.violations = Distinct(first.violations \o @)]

\* Two entries of one intensity, the first with what is merged into it so far.
Joined(first, second) ==
    [first EXCEPT !.pass = Both(@, second.pass),
                  !.violations = Distinct(@ \o second.violations)]

\* An entry among the merged ones.
Place(merged, entry) ==
    IF \E k \in DOMAIN merged : merged[k].intensity = entry.intensity
    THEN [k \in DOMAIN merged |-> IF merged[k].intensity = entry.intensity
                                  THEN Joined(merged[k], entry) ELSE merged[k]]
    ELSE Append(merged, entry)

\* _merge_same_intensity: one entry for each intensity, in the order in which
\* they come; what is of no intensity is left as it is, at the end.
MergeSameIntensity(entries) ==
    LET known == {e \in Range(entries) : OfAnIntensity(e)}
        whole == Select(entries, known)
        placed[n \in 0..Len(whole)] ==
            IF n = 0 THEN <<>> ELSE Place(placed[n - 1], whole[n])
    IN  placed[Len(whole)] \o Select(entries, Range(entries) \ known)

\* _forgive_advisory, of a check or an entry.
Forgiven(check) ==
    LET kept == Select(check.violations, Range(check.violations) \ Advisory)
    IN  IF check.pass # "no" \/ Len(kept) = Len(check.violations) THEN check
        ELSE [check EXCEPT !.violations = kept, !.pass = IF kept = <<>> THEN "yes" ELSE "no"]

\* _pass_template_entries
TemplatePasses(entry, templates) ==
    IF entry.intensity \in templates
    THEN [entry EXCEPT !.pass = "yes", !.violations = <<>>]
    ELSE entry

\* The entries of a round: those of this round, then the kept ones it has not
\* judged again, in the order of the targets.
Entries(texts, templates, reused) ==
    LET merged == MergeSameIntensity(texts)
        fresh == [k \in DOMAIN merged |-> TemplatePasses(Forgiven(merged[k]), templates)]
        judged == {fresh[k].intensity : k \in DOMAIN fresh}
        of(i) == Select(fresh, {e \in Range(fresh) : e.intensity = i})
                   \o (IF i \in DOMAIN reused \ judged THEN <<reused[i]>> ELSE <<>>)
    IN  FlattenSeq([n \in DOMAIN Targets |-> of(Targets[n])])
          \o Select(fresh, {e \in Range(fresh) : e.intensity \notin Range(Targets)})

\* EvaluationReport.model_validate: the shape of all there is.
Valid(check) == check.pass # "odd" /\ Len(check.violations) <= MaxViolations

ReportContract(report) ==
    /\ Valid(report.sentence_check) /\ Valid(report.reason_check)
    /\ Len(report.texts) \in 1..3
    /\ \A k \in DOMAIN report.texts : Valid(report.texts[k]) /\ OfAnIntensity(report.texts[k])

\* validate_evaluation, sorted by what run_evaluator does with the issues: of
\* the texts, of the reason, or of neither, which fails the run.
Weigh(report) ==
    LET entriesOf(i) == {k \in DOMAIN report.texts : report.texts[k].intensity = i}
        says(i, pass) == \E k \in entriesOf(i) : report.texts[k].pass = pass
    IN  [rejected |-> {i \in Range(Targets) : says(i, "no")},
         missing |-> {i \in Range(Targets) : entriesOf(i) = {}},
         reasonFailed |-> report.reason_check.pass # "yes",
         global |-> \/ ~ReportContract(report)
                    \/ report.sentence_check.pass # "yes"
                    \/ \E k \in DOMAIN report.texts :
                         report.texts[k].intensity \notin Range(Targets)]

\* One round, from the answers to the verdict on each text.
Round(outputs, templates, reused) ==
    LET merged == MergeReports(outputs)
    IN  Weigh([sentence_check |-> Forgiven(merged.sentence_check),
               reason_check |-> Forgiven(merged.reason_check),
               texts |-> Entries(merged.texts, templates, reused)])

\* Nothing is wrong with any of it.
Accepts(verdict) ==
    verdict.rejected = {} /\ verdict.missing = {} /\ ~verdict.reasonFailed /\ ~verdict.global

=============================================================================
