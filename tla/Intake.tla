------------------------------- MODULE Intake -------------------------------
(***************************************************************************)
(* Graph A, the review of a post before it is submitted (graphs/intake.py, *)
(* domain/intake_rules.py): one request, at most one model call, one       *)
(* answer.  No state, so a function of the request and of what the model   *)
(* does.                                                                   *)
(*                                                                         *)
(* A text of the request is its length without blanks around it and what   *)
(* the patterns find in it: an injection, nothing that belongs to a        *)
(* spending, or neither.  A field of the model's output may be odd: of a   *)
(* type the contract refuses; or of a wrong type the contract coerces: a   *)
(* text or a number that reads as a boolean ("like yes", "like no"), a     *)
(* text that reads as a number.  Below 0 or NaN no confidence is tried.    *)
(***************************************************************************)
EXTENDS Naturals, FiniteSets

CONSTANTS
    ItemMax, ReasonMax,  \* ITEM_MAX_CODE_POINTS, REASON_MAX_CODE_POINTS
    MessageMax,          \* MESSAGE_MAX_CODE_POINTS
    Threshold, Certain,  \* CATEGORY_MISMATCH_THRESHOLD, and 1.0, in percent
    Category,
    NULL,
    Odd                 \* a value of a type that is refused

ASSUME IntakeAssumption ==
    /\ {ItemMax, ReasonMax, MessageMax, Threshold, Certain} \subseteq Nat
    /\ MessageMax > 0 /\ Threshold <= Certain
    /\ Category \cap {"unknown", "unhashable"} = {}
    /\ Odd \notin [value : Nat, text : BOOLEAN] \cup [len : Nat, first : Nat]
    /\ NULL \notin Nat \cup [len : Nat, first : Nat] \cup Category \cup {"unknown", "unhashable", Odd}

Found == {"nothing", "injection", "irrelevant"}

\* What the request may be, as FastAPI lets it through.
Request == [mode : {"INITIAL", "FINAL_CHECK"}, item : Nat, reason : Nat \cup {NULL},
            amount : Nat, category : Category, found : SUBSET Found]

\* A message: its length, and that of its first sentence (0 if it has no end).
Message == [len : Nat, first : Nat]

\* A boolean counts as the number 1 or 0, to Python as to the contract.
Confidence == [value : Nat, text : BOOLEAN]
Numeric(n) == [value |-> n, text |-> FALSE]
IsNumeric(confidence) == confidence # Odd /\ ~confidence.text

Output == [status : {"PASS", "NEEDS_CLARIFICATION", "BLOCKED", "odd"},
           message : Message \cup {NULL, Odd},
           item_review : {"OK", "VAGUE", "odd"},
           suggested : Category \cup {NULL, "unknown", "unhashable"},
           confidence : Confidence \cup {Odd},
           injection : {"yes", "no", "like yes", "like no", "odd"}]

\* None is configured; it fails or is cut short; or it stops with an output.
Reply == [kind : {"no_llm", "error"}] \cup [kind : {"stop"}, output : Output]

-----------------------------------------------------------------------------
(* validate_request                                                        *)

\* check_required
Required(req) ==
    /\ req.item \in 1..ItemMax
    /\ req.reason # NULL => req.reason <= ReasonMax
    /\ req.amount > 0

\* evaluate_rules: the code decides alone, an injection first.
RuleBlocks(req) == req.found \cap {"injection", "irrelevant"} # {}

Answer(req, status, source) ==
    [mode |-> req.mode, status |-> status, item_review |-> "OK", message |-> NULL,
     category_review |-> [status |-> "OK", suggested |-> NULL, confidence |-> Numeric(0)],
     injection |-> "no", source |-> source]

RuleBlocked(req) ==
    [Answer(req, "BLOCKED", "AI") EXCEPT !.injection = IF "injection" \in req.found THEN "yes" ELSE "no"]

\* fallback_result
Fallback(req) == [Answer(req, "PASS", "FALLBACK") EXCEPT !.message = [len |-> 0, first |-> 0]]

-----------------------------------------------------------------------------
(* validate_intake_output                                                  *)

\* _shorten_message: the first sentence if it fits, else as much as fits.
Shorten(message) ==
    IF message.len <= MessageMax THEN message
    ELSE [message EXCEPT !.len = IF message.first \in 1..MessageMax THEN message.first ELSE MessageMax]

Clamp(confidence) ==
    IF IsNumeric(confidence) /\ confidence.value > Certain THEN Numeric(Certain) ELSE confidence

Mismatch(req, output) ==
    /\ output.suggested \notin {NULL, req.category}
    /\ IsNumeric(output.confidence) /\ output.confidence.value >= Threshold

\* A category nobody knows is dropped, with what it was to correct.
CategoryReview(req, output) ==
    IF output.suggested = "unknown"
    THEN [status |-> "OK", suggested |-> NULL, confidence |-> Clamp(output.confidence)]
    ELSE [status |-> IF Mismatch(req, output) THEN "MISMATCH" ELSE "OK",
          suggested |-> output.suggested, confidence |-> output.confidence]

\* An injection the model has seen would not block.
CorrectedAsGiven(req, output) ==
    [mode |-> req.mode, source |-> "AI", status |-> output.status, injection |-> output.injection,
     item_review |-> output.item_review, category_review |-> CategoryReview(req, output),
     message |-> output.message]

\* The output as the server completes and corrects it.
Corrected(req, output) ==
    LET status == IF output.injection = "yes" THEN "BLOCKED" ELSE output.status
    IN  [mode |-> req.mode, source |-> "AI", status |-> status, injection |-> output.injection,
         item_review |-> IF req.mode = "FINAL_CHECK" THEN "OK" ELSE output.item_review,
         category_review |-> CategoryReview(req, output),
         message |-> IF status = "PASS" THEN NULL
                     ELSE IF output.message \in {NULL, Odd} THEN output.message
                     ELSE Shorten(output.message)]

\* IntakeResult.model_validate: the contract is lax, it takes what it can
\* coerce - after the corrections, which took only true for an injection and
\* only a number for a confidence.
AnswerContract(answer) ==
    /\ answer.status \in {"PASS", "NEEDS_CLARIFICATION", "BLOCKED"}
    /\ answer.mode = "FINAL_CHECK" => answer.status # "NEEDS_CLARIFICATION"
    /\ answer.item_review # "odd"
    /\ answer.message # Odd
    /\ answer.message # NULL => answer.message.len <= MessageMax
    /\ answer.category_review.suggested \in Category \cup {NULL}
    /\ answer.category_review.confidence # Odd
    /\ answer.category_review.confidence.value <= Certain
    /\ answer.injection # "odd"

AsBool(injection) ==
    CASE injection = "like yes" -> "yes" [] injection = "like no" -> "no" [] OTHER -> injection

Coerced(answer) ==
    LET review == answer.category_review
    IN  [answer EXCEPT !.injection = AsBool(@),
                       !.category_review = [review EXCEPT !.confidence = Numeric(@.value)]]

Clarifies(req, output) == req.mode = "FINAL_CHECK" /\ output.status = "NEEDS_CLARIFICATION"

-----------------------------------------------------------------------------
(* run_intake and its route                                                *)

Response(code, answer, called, remembered) ==
    [code |-> code, answer |-> answer, called |-> called, remembered |-> remembered]

\* A suggestion that cannot be looked up in a set is a TypeError, which
\* run_intake does not expect there.
RunIntake(req, reply) ==
    LET fallback == Response(200, Fallback(req), reply.kind # "no_llm", FALSE)
        answer == Corrected(req, reply.output)
    IN  IF ~Required(req) THEN Response(422, NULL, FALSE, FALSE)
        ELSE IF RuleBlocks(req) THEN Response(200, RuleBlocked(req), FALSE, FALSE)
        ELSE IF reply.kind # "stop" THEN fallback
        ELSE IF Clarifies(req, reply.output) THEN fallback
        ELSE IF reply.output.suggested = "unhashable" THEN Response(500, NULL, TRUE, FALSE)
        ELSE IF ~AnswerContract(answer) THEN fallback
        ELSE Response(200, Coerced(answer), TRUE, TRUE)
=============================================================================
