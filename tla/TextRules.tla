----------------------------- MODULE TextRules ------------------------------
(***************************************************************************)
(* The rules on the texts of a verdict (domain/validation.py,              *)
(* apply_text_rules) and what assemble (graphs/sentencing.py) does with    *)
(* what they find: functions of their arguments, without state.            *)
(*                                                                         *)
(* A line (a headline or a sentence) is the number of its characters that  *)
(* are not IDs like F1, whether it holds IDs, and the words in it the      *)
(* lexicon looks for.  rough is a word of SPICY_ALLOWED_PROFANITY, rude    *)
(* any other of PROFANITY; plain is a plain-style ending of a sentence;    *)
(* never stands for what no intensity may hold: death words, worn phrases, *)
(* emoji, U+FFFD and the internal codes.                                   *)
(***************************************************************************)
EXTENDS Naturals, Sequences, SequencesExt, Filters

CONSTANTS
    Known,              \* label_map: the labels of the dossier
    HeadlineMax, TotalMax, StatementMin, StatementMax,   \* of TextDraft
    CardHeadlineMax, CardStatementMax,                   \* of CardTextDraft
    IdLength            \* characters IDs add to a line that holds them

\* A card is a text, and one sentence is enough (contracts/writer.py).
ASSUME TextAssumption ==
    /\ {HeadlineMax, TotalMax, StatementMax,
        CardHeadlineMax, CardStatementMax, IdLength} \subseteq Nat \ {0}
    /\ CardHeadlineMax <= HeadlineMax /\ CardStatementMax <= TotalMax
    /\ StatementMin = 1

Intensities == {"mild", "spicy", "hell"}
Words == {"rough", "rude", "plain", "never"}

Line == [len : Nat, ids : BOOLEAN, words : SUBSET Words]
Item == [kind : {"fact", "claim", "opinion"}, labels : SUBSET STRING, line : Line]
Text == [intensity : Intensities, headline : Line, statement : Seq(Item)]

Length(line) == line.len + IF line.ids THEN IdLength ELSE 0

Strip(line) == [line EXCEPT !.ids = FALSE]

-----------------------------------------------------------------------------
(* apply_text_rules.                                                       *)

GroundedKinds == {"fact", "claim"}

\* One known label is not enough.
GroundedByAny(item) == item.kind \in GroundedKinds => item.labels \cap Known # {}

Grounded(item) ==
    item.kind \in GroundedKinds => item.labels # {} /\ item.labels \subseteq Known

\* Rule 1: facts and claims without known labels go.
GroundedOnly(statement) == Select(statement, {item \in Range(statement) : Grounded(item)})

NoId(item) == ~item.line.ids

Stripped(item) == [item EXCEPT !.line = Strip(@)]

\* Rule 2: sentences that hold IDs go; where that would leave too few, only
\* the IDs go, and what is empty then.
Cleaned(kept) ==
    LET clean == Select(kept, {item \in Range(kept) : NoId(item)})
        stripped == [k \in DOMAIN kept |-> IF NoId(kept[k]) THEN kept[k] ELSE Stripped(kept[k])]
    IN  IF Len(clean) = Len(kept) \/ Len(clean) >= StatementMin
        THEN clean
        ELSE Select(stripped, {item \in Range(stripped) : item.line.len > 0})

Rebuild(text) ==
    [text EXCEPT !.headline = Strip(@), !.statement = Cleaned(GroundedOnly(@))]

Total(statement) == FoldLeft(LAMBDA sum, item : sum + Length(item.line), 0, statement)

\* Rule 3, and the issue of rule 1.
RebuildIssues(before, text) ==
    {issue \in {"UNGROUNDED_CLAIM", "SCHEMA_INVALID"} :
       IF issue = "UNGROUNDED_CLAIM"
       THEN before.statement # <<>> /\ GroundedOnly(before.statement) = <<>>
       ELSE \/ Length(text.headline) > HeadlineMax
            \/ Total(text.statement) > TotalMax
            \/ Len(text.statement) \notin StatementMin..StatementMax}

Lines(text) == {text.headline} \cup {text.statement[k].line : k \in DOMAIN text.statement}

\* _RULE_INTENSITIES and profanity_hits: hell forbids no profanity.
Applies(rule, intensity) ==
    intensity \in (CASE rule = "PROFANITY" -> {"mild", "spicy"}
                     [] rule = "BANMAL" -> {"mild"}
                     [] OTHER -> Intensities)

\* Rules 6 and 7 look at the text as it was rebuilt.
Hits(text) ==
    LET words == UNION {line.words : line \in Lines(text)}
        i == text.intensity
    IN  {w \in words :
           \/ w = "rude" /\ Applies("PROFANITY", i)
           \/ w = "rough" /\ Applies("PROFANITY", i) /\ i # "spicy"
           \/ w = "plain" /\ Applies("BANMAL", i)
           \/ w = "never" /\ Applies("DEATH_WORDS", i)}

\* Where each label that is known is cited: (position, label).
EvidenceRefs(text) ==
    {ref \in (DOMAIN text.statement) \X Known : ref[2] \in text.statement[ref[1]].labels}

\* Rule 4: the heaviest sentence makes the heavy tag.
MemeTag(result, sentence, rank) ==
    CASE result = "guilty" ->
           IF sentence \in DOMAIN rank /\ \A s \in DOMAIN rank : rank[s] <= rank[sentence]
           THEN "GUILTY_HEAVY" ELSE "GUILTY_LIGHT"
      [] result = "notGuilty" -> "NOT_GUILTY"
      [] result = "agree" -> "APPROVED"
      [] result = "disagree" -> "REJECTED"

\* All texts at once: rebuilt texts, references, and issues as pairs of
\* position (0 for the draft as a whole) and code.
ApplyTextRules(texts, targets) ==
    LET rebuilt == [n \in DOMAIN texts |-> Rebuild(texts[n])]
        keys == {texts[n].intensity : n \in DOMAIN texts}
        duplicate(n) == \E m \in 1..n - 1 : texts[m].intensity = texts[n].intensity
        of(n) == RebuildIssues(texts[n], rebuilt[n])
                   \cup (IF duplicate(n) THEN {"DUPLICATE_INTENSITY"} ELSE {})
                   \cup Hits(rebuilt[n])
    IN  [texts |-> rebuilt,
         refs |-> [n \in DOMAIN texts |-> EvidenceRefs(rebuilt[n])],
         issues |-> (UNION {{n} \X of(n) : n \in DOMAIN texts})
                      \cup (IF keys # targets THEN {<<0, "INTENSITY_SET_MISMATCH">>} ELSE {})]

-----------------------------------------------------------------------------
(* validate_writer_draft: whether a draft keeps its contract, for a draft  *)
(* of the contract's types.  Of the graphs none calls it.                  *)

CheckText(text) ==
    {code \in {"LENGTH_EXCEEDED", "STATEMENT_COUNT", "UNKNOWN_EVIDENCE_LABEL"} :
       CASE code = "LENGTH_EXCEEDED" ->
              Length(text.headline) > HeadlineMax \/ Total(text.statement) > TotalMax
         [] code = "STATEMENT_COUNT" -> Len(text.statement) \notin StatementMin..StatementMax
         [] OTHER -> \E k \in DOMAIN text.statement : ~(text.statement[k].labels \subseteq Known)}

ValidateWriterDraft(texts, targets) ==
    (UNION {CheckText(texts[n]) : n \in DOMAIN texts})
      \cup {"DUPLICATE_INTENSITY" : n \in {m \in DOMAIN texts :
               \E k \in 1..m - 1 : texts[k].intensity = texts[m].intensity}}
      \cup (IF {texts[n].intensity : n \in DOMAIN texts} # targets
            THEN {"INTENSITY_SET_MISMATCH"} ELSE {})

-----------------------------------------------------------------------------
(* The card contract, and assemble.                                        *)

\* CardTextDraft: one line and one item.
Card(text) ==
    /\ Length(text.headline) \in 1..CardHeadlineMax
    /\ Len(text.statement) = 1
    /\ Length(text.statement[1].line) \in 1..CardStatementMax

\* Without the card: after the rules a card may be empty.
RejectedByRules(rules) ==
    {n \in DOMAIN rules.texts : \E issue \in rules.issues : issue[1] = n}

\* The texts the rules or, after them, the card contract rejects.
Rejected(rules) ==
    {n \in DOMAIN rules.texts : ~Card(rules.texts[n]) \/ \E issue \in rules.issues : issue[1] = n}

Failure(code) == [kind |-> "failure", code |-> code]

\* One turn of assemble's loop over the drafts in the order of the targets.
\* template is the text put in place of a rejected one, if there is one.  How the
\* turn ends is a function of what the rules say, which is looked at many times.
Turn(texts, sources, targets, template, regenerate, mayRepair) ==
    LET applied == ApplyTextRules(texts, targets)
        least(S) == CHOOSE n \in S : \A m \in S : n <= m
        end == [rules \in {applied} |->
            LET bad == Rejected(rules)
                byRule == {n \in bad : \E issue \in rules.issues : issue[1] = n}
                first == least(IF byRule # {} THEN byRule ELSE bad)
                templated == {n \in bad : sources[n] = "TEMPLATE"}
            IN  IF \E issue \in rules.issues : issue[1] = 0 THEN Failure("SCHEMA_INVALID")
                ELSE IF bad = {}
                THEN IF \A n \in DOMAIN texts : sources[n] = "TEMPLATE" THEN Failure("EVAL_FAILED")
                     ELSE [kind |-> "texts", texts |-> rules.texts, sources |-> sources]
                ELSE IF regenerate THEN Failure("EVAL_FAILED")
                ELSE IF mayRepair /\ templated = {} THEN [kind |-> "repair", bad |-> bad]
                ELSE IF template = <<>>
                THEN Failure(IF first \in templated THEN "SCHEMA_INVALID" ELSE "EVAL_FAILED")
                ELSE IF templated # {} THEN Failure("SCHEMA_INVALID")
                ELSE [kind |-> "again",
                      texts |-> [n \in DOMAIN texts |->
                                   IF n \in bad THEN [template[1] EXCEPT !.intensity = texts[n].intensity]
                                   ELSE texts[n]],
                      sources |-> [n \in DOMAIN texts |-> IF n \in bad THEN "TEMPLATE" ELSE sources[n]]]]
    IN  end[applied]

\* template_text_draft: no template that is not a card.  Two turns are all the
\* loop takes: the second finds the templates in place.
Assemble(texts, sources, targets, template, regenerate, mayRepair) ==
    LET offered == IF template # <<>> /\ Card(template[1]) THEN template ELSE <<>>
        turn(drafts, from) == Turn(drafts, from, targets, offered, regenerate, mayRepair)
        first == turn(texts, sources)
        result == IF first.kind = "again" THEN turn(first.texts, first.sources) ELSE first
    IN  IF result.kind = "again" THEN Failure("SCHEMA_INVALID") ELSE result
=============================================================================
