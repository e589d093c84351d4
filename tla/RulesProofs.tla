----------------------------- MODULE RulesProofs ------------------------------
(***************************************************************************)
(* What five of the rules keep, for any texts, limits, requests, answers,  *)
(* numerals and evidence: an intake request always gets a review that      *)
(* keeps its contract; the rules on texts lose no sound sentence and       *)
(* accept only sound texts; what assemble returns can be shown; of the     *)
(* evaluator's answers each text gets what is said about it; and what is   *)
(* claimed of a case, an amount, a repeat count or a fact, has its ground. *)
(*                                                                         *)
(* A text is a sequence of sentences of any length, which is filtered and  *)
(* summed up.  That the functions on its prefixes and on the subsets of    *)
(* its domain exist, and what they are, is shown by looking at a smallest  *)
(* prefix or subset for which it would not hold.  So are the merged        *)
(* entries of a round and the numeral that is read token by token.         *)
(*                                                                         *)
(* A card has one sentence.  What the rules and the card contract reject   *)
(* of cards is what cannot be shown, and what they do to the others they   *)
(* do once; hence assemble never takes a third turn, and its result comes  *)
(* back from it as it is.                                                  *)
(*                                                                         *)
(* A numeral is worth, at each of its tokens, what is closed, and what is  *)
(* open times the next large unit, and a number that waits for its unit.   *)
(***************************************************************************)
EXTENDS Rules, FiniteSetTheorems, NaturalsInduction, TLAPS

-----------------------------------------------------------------------------
(* Intake.                                                                 *)

\* A request is refused if its required values are wrong.
LEMMA RefusedIsWrong ==
    ASSUME NEW request \in Request
    PROVE  ~Required(request) <=>
             \/ request.item = 0 \/ request.item > ItemMax \/ request.amount <= 0
             \/ request.reason # NULL /\ request.reason > ReasonMax
  BY IntakeAssumption DEF Required, Request

\* A number is not odd.
LEMMA NumericFits ==
    ASSUME NEW n \in Nat
    PROVE  /\ Numeric(n) \in Confidence /\ Numeric(n).value = n
           /\ Numeric(n) # Odd /\ IsNumeric(Numeric(n))
  <1>1. Numeric(n) \in Confidence /\ Numeric(n).value = n /\ ~Numeric(n).text
    BY DEF Numeric, Confidence
  <1>2. Odd \notin Confidence
    BY IntakeAssumption DEF Confidence
  <1> QED
    BY <1>1, <1>2 DEF IsNumeric

\* A review by rule keeps what is promised.
LEMMA BlockedKeeps ==
    ASSUME NEW request \in Request, NEW reply \in Reply, RuleBlocks(request)
    PROVE  SoundReview(request, reply, Response(200, RuleBlocked(request), FALSE, FALSE))
  <1> DEFINE answer == RuleBlocked(request)
  <1>1. /\ answer.mode = request.mode /\ answer.status = "BLOCKED" /\ answer.item_review = "OK"
        /\ answer.message = NULL /\ answer.source = "AI" /\ answer.injection \in {"yes", "no"}
        /\ answer.category_review = [status |-> "OK", suggested |-> NULL, confidence |-> Numeric(0)]
    BY DEF RuleBlocked, Answer
  <1> HIDE DEF answer
  <1>2. /\ answer.category_review.status = "OK" /\ answer.category_review.suggested = NULL
        /\ answer.category_review.confidence = Numeric(0)
    BY <1>1
  <1>3. Numeric(0) # Odd /\ IsNumeric(Numeric(0)) /\ Numeric(0).value <= Certain
    BY NumericFits, IntakeAssumption
  <1>4. AnswerContract(answer)
    BY <1>1, <1>2, <1>3, IntakeAssumption DEF AnswerContract
  <1> QED
    BY <1>1, <1>2, <1>3, <1>4 DEF SoundReview, Response, answer

\* So does the fallback.
LEMMA FallbackKeeps ==
    ASSUME NEW request \in Request, NEW reply \in Reply, ~RuleBlocks(request),
           reply.kind = "stop" => Unusable(request, reply.output)
    PROVE  SoundReview(request, reply, Response(200, Fallback(request), reply.kind # "no_llm", FALSE))
  <1> DEFINE answer == Fallback(request)
  <1>1. /\ answer.mode = request.mode /\ answer.status = "PASS" /\ answer.item_review = "OK"
        /\ answer.message = [len |-> 0, first |-> 0] /\ answer.source = "FALLBACK"
        /\ answer.injection = "no"
        /\ answer.category_review = [status |-> "OK", suggested |-> NULL, confidence |-> Numeric(0)]
    BY DEF Fallback, Answer
  <1> HIDE DEF answer
  <1>2. /\ answer.category_review.status = "OK" /\ answer.category_review.suggested = NULL
        /\ answer.category_review.confidence = Numeric(0)
    BY <1>1
  <1>3. Numeric(0) # Odd /\ IsNumeric(Numeric(0)) /\ Numeric(0).value <= Certain
    BY NumericFits, IntakeAssumption
  <1>4. AnswerContract(answer)
    BY <1>1, <1>2, <1>3, IntakeAssumption DEF AnswerContract
  <1>5. ASSUME NEW called \in BOOLEAN, called <=> reply.kind # "no_llm"
        PROVE  SoundReview(request, reply, Response(200, answer, called, FALSE))
    BY <1>1, <1>2, <1>3, <1>4, <1>5 DEF SoundReview, Response, RuleBlocks
  <1> QED
    BY <1>5 DEF answer

\* The review of an answer, part by part.
LEMMA CorrectedParts ==
    ASSUME NEW request \in Request, NEW output \in Output
    PROVE  LET answer == Corrected(request, output)
           IN  /\ answer.mode = request.mode /\ answer.source = "AI"
               /\ answer.status = IF output.injection = "yes" THEN "BLOCKED" ELSE output.status
               /\ answer.injection = output.injection
               /\ answer.item_review = IF request.mode = "FINAL_CHECK" THEN "OK" ELSE output.item_review
               /\ \/ answer.message = NULL
                  \/ output.message \in {NULL, Odd} /\ answer.message = output.message
                  \/ output.message \notin {NULL, Odd} /\ answer.message = Shorten(output.message)
               /\ answer.category_review = CategoryReview(request, output)
  BY DEF Corrected

\* A message is cut to its limit.
LEMMA Short ==
    ASSUME NEW message \in Message PROVE Shorten(message) \in Message /\ Shorten(message).len <= MessageMax
  BY IntakeAssumption DEF Shorten, Message

\* What the contract makes of an answer it takes.
LEMMA CoercedParts ==
    ASSUME NEW request \in Request, NEW output \in Output
    PROVE  LET answer == Corrected(request, output)
               given == Coerced(answer)
               was == answer.category_review
               review == given.category_review
           IN  /\ given.mode = answer.mode /\ given.source = answer.source
               /\ given.status = answer.status /\ given.item_review = answer.item_review
               /\ given.message = answer.message
               /\ given.injection = AsBool(answer.injection)
               /\ review.status = was.status /\ review.suggested = was.suggested
               /\ review.confidence = Numeric(was.confidence.value)
  <1>1. PICK status, suggested, confidence :
          CategoryReview(request, output) =
            [status |-> status, suggested |-> suggested, confidence |-> confidence]
    BY DEF CategoryReview
  <1>2. PICK mode, verdict, item, message :
          Corrected(request, output) =
            [mode |-> mode, source |-> "AI", status |-> verdict, injection |-> output.injection,
             item_review |-> item, category_review |-> CategoryReview(request, output),
             message |-> message]
    BY DEF Corrected
  <1>3. PICK was : was = CategoryReview(request, output)
    OBVIOUS
  <1>4. PICK answer : answer = Corrected(request, output)
    OBVIOUS
  <1>5. PICK review : review = [was EXCEPT !.confidence = Numeric(@.value)]
    OBVIOUS
  <1>6. /\ review.status = was.status /\ review.suggested = was.suggested
        /\ review.confidence = Numeric(was.confidence.value)
    BY <1>1, <1>3, <1>5
  <1>7. answer.category_review = was
    BY <1>2, <1>3, <1>4
  <1>8. Coerced(answer) = [answer EXCEPT !.injection = AsBool(@), !.category_review = review]
    BY <1>5, <1>7 DEF Coerced
  <1>9. /\ Coerced(answer).mode = answer.mode /\ Coerced(answer).source = answer.source
        /\ Coerced(answer).status = answer.status
        /\ Coerced(answer).item_review = answer.item_review
        /\ Coerced(answer).message = answer.message
        /\ Coerced(answer).injection = AsBool(answer.injection)
        /\ Coerced(answer).category_review = review
    BY <1>2, <1>4, <1>8
  <1> QED
    BY <1>4, <1>6, <1>7, <1>9

\* So does the review of an answer, if it keeps the contract.
LEMMA AnsweredKeeps ==
    ASSUME NEW request \in Request, NEW reply \in Reply, ~RuleBlocks(request), reply.kind = "stop",
           reply.output.suggested # "unhashable", AnswerContract(Corrected(request, reply.output))
    PROVE  SoundReview(request, reply, Response(200, Coerced(Corrected(request, reply.output)), TRUE, TRUE))
  <1> DEFINE output == reply.output
             answer == Corrected(request, output)
             given == Coerced(answer)
             review == given.category_review
  <1>1. output \in Output
    BY DEF Reply
  <1>2. /\ answer.mode = request.mode /\ answer.source = "AI"
        /\ answer.status = IF output.injection = "yes" THEN "BLOCKED" ELSE output.status
        /\ answer.injection = output.injection
        /\ answer.category_review = CategoryReview(request, output)
    BY <1>1, CorrectedParts
  <1>3. /\ given.mode = answer.mode /\ given.source = answer.source
        /\ given.status = answer.status /\ given.item_review = answer.item_review
        /\ given.message = answer.message
        /\ given.injection = AsBool(answer.injection)
        /\ review.status = answer.category_review.status
        /\ review.suggested = answer.category_review.suggested
        /\ review.confidence = Numeric(answer.category_review.confidence.value)
    BY <1>1, CoercedParts
  <1>4. ASSUME review.status = "MISMATCH"
        PROVE  /\ review.suggested \in Category \ {request.category}
               /\ review.confidence.value >= Threshold /\ IsNumeric(output.confidence)
    <2>1. output.suggested # "unknown" /\ Mismatch(request, output)
      BY <1>2, <1>3, <1>4 DEF CategoryReview
    <2>2. review.suggested = output.suggested /\ review.confidence.value = output.confidence.value
      BY <1>2, <1>3, <2>1 DEF CategoryReview, Numeric
    <2> QED
      BY <1>1, <2>1, <2>2 DEF Mismatch, Output
  <1>5. /\ AnswerContract(given) /\ given.injection \in {"yes", "no"}
        /\ IsNumeric(review.confidence)
    <2>1. AnswerContract(answer)
      OBVIOUS
    <2>2. given.injection \in {"yes", "no"}
      BY <1>1, <1>2, <1>3, <2>1 DEF AnswerContract, AsBool, Output
    <2>3. /\ review.confidence # Odd /\ IsNumeric(review.confidence)
          /\ review.confidence.value = answer.category_review.confidence.value
      <3>1. answer.category_review.confidence \in Confidence
        <4>1. answer.category_review.confidence # Odd
          BY <2>1 DEF AnswerContract
        <4>2. output.confidence \in Confidence \cup {Odd}
          BY <1>1 DEF Output
        <4>3. answer.category_review.confidence \in {output.confidence, Clamp(output.confidence)}
          BY <1>2 DEF CategoryReview
        <4>4. Clamp(output.confidence) \in {output.confidence, Numeric(Certain)}
          BY DEF Clamp
        <4> QED
          BY <4>1, <4>2, <4>3, <4>4, NumericFits, IntakeAssumption
      <3>2. answer.category_review.confidence.value \in Nat
        BY <3>1 DEF Confidence
      <3> QED
        BY <1>3, <3>2, NumericFits
    <2> HIDE DEF given, answer
    <2> QED
      BY <1>3, <2>1, <2>2, <2>3 DEF AnswerContract
  <1>6. given.injection = "yes" => given.status = "BLOCKED" \/ output.injection = "like yes"
    BY <1>2, <1>3 DEF AsBool
  <1>7. given.mode = request.mode /\ given.source = "AI"
    BY <1>2, <1>3
  <1>8. SoundReview(request, reply, Response(200, given, TRUE, TRUE))
    <2> HIDE DEF given, answer, output
    <2>1. /\ Response(200, given, TRUE, TRUE).answer = given
          /\ Response(200, given, TRUE, TRUE).called /\ Response(200, given, TRUE, TRUE).remembered
      BY DEF Response
    <2> QED
      BY <1>4, <1>5, <1>6, <1>7, <2>1 DEF SoundReview, RuleBlocks, output
  <1> QED
    BY <1>8

\* An answer whose review does not keep the contract could not be used.
LEMMA Misfits ==
    ASSUME NEW request \in Request, NEW output \in Output, ~Clarifies(request, output),
           output.suggested # "unhashable", ~Unusable(request, output)
    PROVE  AnswerContract(Corrected(request, output))
  <1> DEFINE answer == Corrected(request, output)
             review == answer.category_review
  <1>1. /\ answer.mode = request.mode
        /\ answer.status = IF output.injection = "yes" THEN "BLOCKED" ELSE output.status
        /\ answer.injection = output.injection
        /\ answer.item_review = IF request.mode = "FINAL_CHECK" THEN "OK" ELSE output.item_review
        /\ \/ answer.message = NULL
           \/ output.message \in {NULL, Odd} /\ answer.message = output.message
           \/ output.message \notin {NULL, Odd} /\ answer.message = Shorten(output.message)
        /\ review = CategoryReview(request, output)
    BY CorrectedParts
  <1> HIDE DEF answer
  <1>2. /\ answer.status \in {"PASS", "NEEDS_CLARIFICATION", "BLOCKED"}
        /\ answer.mode = "FINAL_CHECK" => answer.status # "NEEDS_CLARIFICATION"
        /\ answer.item_review # "odd" /\ answer.injection # "odd"
    BY <1>1 DEF Unusable, Clarifies, Output, Request
  <1>3. answer.message # Odd /\ (answer.message # NULL => answer.message.len <= MessageMax)
    <2>1. output.message # Odd /\ output.message \in Message \cup {NULL}
      BY DEF Unusable, Output
    <2>2. CASE output.message = NULL
      BY <1>1, <2>2, IntakeAssumption
    <2>3. CASE output.message \in Message
      BY <1>1, <2>1, <2>3, Short, IntakeAssumption DEF Message
    <2> QED
      BY <2>1, <2>2, <2>3
  <1>4. /\ review.suggested \in Category \cup {NULL}
        /\ review.confidence # Odd /\ review.confidence.value <= Certain
    <2>1. output.confidence \in Confidence /\ output.confidence # Odd
      BY DEF Unusable, Output
    <2>2. CASE output.suggested = "unknown"
      <3>1. review.suggested = NULL /\ review.confidence = Clamp(output.confidence)
        BY <1>1, <2>2 DEF CategoryReview
      <3>2. CASE IsNumeric(output.confidence) /\ output.confidence.value > Certain
        <4>1. review.confidence = Numeric(Certain)
          BY <3>1, <3>2 DEF Clamp
        <4>2. Numeric(Certain) # Odd /\ Numeric(Certain).value <= Certain
          BY NumericFits, IntakeAssumption
        <4> QED
          BY <3>1, <4>1, <4>2
      <3>3. CASE ~(IsNumeric(output.confidence) /\ output.confidence.value > Certain)
        <4>1. review.confidence = output.confidence
          BY <3>1, <3>3 DEF Clamp
        <4>2. output.confidence.value <= Certain
          BY <2>1, <3>3, IntakeAssumption DEF Unusable, Confidence
        <4> QED
          BY <2>1, <3>1, <4>1, <4>2
      <3> QED
        BY <3>2, <3>3
    <2>3. CASE output.suggested # "unknown"
      <3>1. review.suggested = output.suggested /\ review.confidence = output.confidence
        BY <1>1, <2>3 DEF CategoryReview
      <3>2. output.confidence.value <= Certain
        BY <2>1, <2>3, IntakeAssumption DEF Unusable, Confidence
      <3> QED
        BY <2>1, <2>3, <3>1, <3>2 DEF Output
    <2> QED
      BY <2>2, <2>3
  <1> QED
    BY <1>2, <1>3, <1>4 DEF AnswerContract, answer

\* What run_intake returns for one request and one reply.
LEMMA IntakeOnce ==
    ASSUME asked.kind = "intake", asked.request \in Request, asked.reply \in Reply
    PROVE  IntakeAlwaysAnswers
  <1> DEFINE request == asked.request
             reply == asked.reply
             response == RunIntake(request, reply)
             fallback == Response(200, Fallback(request), reply.kind # "no_llm", FALSE)
  <1> SUFFICES /\ response.code = 422 <=> ~Required(request)
               /\ response.code = 500 => reply.kind = "stop" /\ reply.output.suggested = "unhashable"
               /\ response.code # 200 => ~response.remembered
               /\ response.code = 200 => SoundReview(request, reply, response)
    BY RefusedIsWrong DEF IntakeAlwaysAnswers
  <1>1. CASE ~Required(request)
    <2>1. response = Response(422, NULL, FALSE, FALSE)
      BY <1>1 DEF RunIntake
    <2> QED
      BY <1>1, <2>1 DEF Response
  <1>2. CASE Required(request) /\ RuleBlocks(request)
    <2>1. response = Response(200, RuleBlocked(request), FALSE, FALSE)
      BY <1>2 DEF RunIntake
    <2>2. SoundReview(request, reply, response)
      BY <1>2, <2>1, BlockedKeeps
    <2>3. response.code = 200
      BY <2>1 DEF Response
    <2> QED
      BY <1>2, <2>2, <2>3
  <1>3. ASSUME Required(request), ~RuleBlocks(request), response = fallback,
               reply.kind = "stop" => Unusable(request, reply.output)
        PROVE  response.code = 200 /\ SoundReview(request, reply, response)
    <2>1. SoundReview(request, reply, response)
      BY <1>3, FallbackKeeps
    <2>2. response.code = 200
      BY <1>3 DEF Response
    <2> QED
      BY <2>1, <2>2
  <1>4. CASE Required(request) /\ ~RuleBlocks(request) /\ reply.kind # "stop"
    <2>1. response = fallback
      BY <1>4 DEF RunIntake
    <2> HIDE DEF request, reply, response, fallback
    <2> QED
      BY <1>3, <1>4, <2>1
  <1>5. CASE Required(request) /\ ~RuleBlocks(request) /\ reply.kind = "stop" /\ Clarifies(request, reply.output)
    <2>1. response = fallback
      BY <1>5 DEF RunIntake
    <2>2. Unusable(request, reply.output)
      BY <1>5 DEF Clarifies, Unusable
    <2> HIDE DEF request, reply, response, fallback
    <2> QED
      BY <1>3, <1>5, <2>1, <2>2
  <1>6. CASE /\ Required(request) /\ ~RuleBlocks(request) /\ reply.kind = "stop"
             /\ ~Clarifies(request, reply.output) /\ reply.output.suggested = "unhashable"
    <2>1. response = Response(500, NULL, TRUE, FALSE)
      BY <1>6 DEF RunIntake
    <2> QED
      BY <1>6, <2>1 DEF Response
  <1>7. CASE /\ Required(request) /\ ~RuleBlocks(request) /\ reply.kind = "stop"
             /\ ~Clarifies(request, reply.output) /\ reply.output.suggested # "unhashable"
    <2>1. CASE ~AnswerContract(Corrected(request, reply.output))
      <3>1. response = fallback
        BY <1>7, <2>1 DEF RunIntake
      <3>2. Unusable(request, reply.output)
        BY <1>7, <2>1, Misfits DEF Reply
      <3> HIDE DEF request, reply, response, fallback
      <3> QED
        BY <1>3, <1>7, <3>1, <3>2
    <2>2. CASE AnswerContract(Corrected(request, reply.output))
      <3>1. response = Response(200, Coerced(Corrected(request, reply.output)), TRUE, TRUE)
        BY <1>7, <2>2 DEF RunIntake
      <3>2. SoundReview(request, reply, response)
        BY <1>7, <2>2, <3>1, AnsweredKeeps
      <3>3. response.code = 200
        BY <3>1 DEF Response
      <3> QED
        BY <1>7, <3>2, <3>3
    <2> QED
      BY <2>1, <2>2
  <1> QED
    BY <1>1, <1>2, <1>4, <1>5, <1>6, <1>7

-----------------------------------------------------------------------------
(* The inductive invariant.                                                *)

\* An answer of the evaluator.
Judgement == [texts : Seq(Entry), sentence_check : Check, reason_check : Check]

\* Entries of an earlier round that are kept: each passed.
KeptOf(reused) ==
    \A i \in DOMAIN reused :
       /\ i \in Range(Targets) /\ reused[i] \in Entry /\ reused[i].intensity = i
       /\ reused[i].pass = "yes" /\ Len(reused[i].violations) <= MaxViolations

\* A token of a numeral.
Token == [number : Nat] \cup [unit : DOMAIN SmallUnits \cup DOMAIN LargeUnits]

\* A backend counts what it says it counts.
CountsSo(past, snapshot, a) ==
    /\ snapshot.created \in Int /\ a.start \in Int /\ a.end \in Int
    /\ a.count = CountOf(past, snapshot, a.excludes, a.start, a.end)

\* What a backend resolves, and the rooms it may be told to.
Resolved(r) ==
    /\ r.aggregates.count \in Int
    /\ r.rules \in Seq(Range(r.rules)) /\ r.verdicts \in Seq(Range(r.verdicts))
    /\ r.sources \in Seq(Range(r.sources))
    /\ \A x \in Range(r.verdicts) \cup Range(r.sources) : x.scope.visibility \in Visibilities

\* What is asked is of the kind its rule is for.
Asked ==
    /\ asked.kind = "intake" => asked.request \in Request /\ asked.reply \in Reply
    /\ asked.kind = "text" => asked.texts \in Seq(Text)
    /\ asked.kind = "assemble" =>
         /\ asked.texts \in Seq(Text) /\ \A n \in DOMAIN asked.texts : Len(asked.texts[n].statement) = 1
         /\ asked.sources \in [DOMAIN asked.texts -> {"AI", "TEMPLATE"}]
         /\ asked.targets = {asked.texts[n].intensity : n \in DOMAIN asked.texts}
         /\ \A m, n \in DOMAIN asked.texts : asked.texts[m].intensity = asked.texts[n].intensity => m = n
         /\ asked.template # <<>> =>
              asked.template[1] \in Text /\ Len(asked.template[1].statement) = 1
         /\ asked.regenerate \in BOOLEAN /\ asked.mayRepair \in BOOLEAN
    /\ asked.kind = "report" =>
         /\ asked.outputs \in Seq(Judgement) /\ asked.outputs # <<>>
         /\ KeptOf(asked.reused)
    /\ asked.kind = "amount" => asked.tokens \in Seq(Token)
    /\ asked.kind = "aggregate" => CountsSo(asked.past, asked.snapshot, asked.aggregates)
    /\ asked.kind = "evidence" =>
         /\ Resolved(asked.resolved) /\ asked.limit \in Nat \ {0}
         /\ asked.items \in Seq(Range(asked.items))
         /\ {"fits", "labels"} \subseteq DOMAIN asked.candidate

LEMMA InitAsked == Init => Asked
  BY DEF Init, Nothing, Asked

\* The targets are some of the three, each of them once.
LEMMA TargetsAre ==
    /\ Targets \in Seq({"mild", "spicy", "hell"}) /\ Targets # <<>>
    /\ \A j, k \in DOMAIN Targets : (Targets[j] = Targets[k] => j = k)
  <1>1. /\ Targets \in Seq(STRING) /\ Targets # <<>> /\ Range(Targets) \subseteq {"mild", "spicy", "hell"}
        /\ \A j, k \in DOMAIN Targets : (Targets[j] = Targets[k] => j = k)
    BY ReportAssumption
  <1>2. /\ Len(Targets) \in Nat /\ DOMAIN Targets = 1..Len(Targets)
        /\ Targets = [n \in 1..Len(Targets) |-> Targets[n]]
    BY <1>1
  <1>3. \A n \in 1..Len(Targets) : Targets[n] \in {"mild", "spicy", "hell"}
    BY <1>1, <1>2 DEF Range
  <1>4. Targets \in [1..Len(Targets) -> {"mild", "spicy", "hell"}]
    BY <1>2, <1>3
  <1>5. Targets \in Seq({"mild", "spicy", "hell"})
    BY <1>2, <1>4
  <1> QED
    BY <1>1, <1>5

\* The last target is one of them.
LEMMA LastTarget == Last(Targets) \in Range(Targets) /\ Last(Targets) \in STRING
  <1>1. Targets \in Seq(STRING) /\ Targets # <<>>
    BY ReportAssumption
  <1>2. Len(Targets) \in DOMAIN Targets
    BY <1>1
  <1>3. Targets[Len(Targets)] \in STRING
    BY <1>1, <1>2
  <1> QED
    BY <1>2, <1>3 DEF Last, Range

LEMMA NextAsked == Asked /\ [Next]_asked => Asked'
  <1> SUFFICES ASSUME Asked, [Next]_asked PROVE Asked'
    OBVIOUS
  <1>1. CASE AskText
    <2>1. PICK targets \in {{"mild"}, {"mild", "hell"}},
               texts \in {<<one>> : one \in RuleTexts} \cup CardTexts \X CardTexts :
                 asked' = [kind |-> "text", texts |-> texts, targets |-> targets]
      BY <1>1 DEF AskText
    <2>2. texts \in Seq(Text)
      <3>1. CASE texts \in {<<one>> : one \in RuleTexts}
        <4>1. PICK one \in RuleTexts : texts = <<one>>
          BY <3>1
        <4> QED
          BY <4>1, RulesAssumption
      <3>2. CASE texts \in CardTexts \X CardTexts
        <4>1. PICK one \in CardTexts, two \in CardTexts : texts = <<one, two>>
          BY <3>2
        <4> QED
          BY <4>1, RulesAssumption
      <3> QED
        BY <3>1, <3>2
    <2>3. asked'.kind = "text" /\ asked'.texts = texts
      BY <2>1
    <2> QED
      BY <2>2, <2>3 DEF Asked
  <1>2. CASE AskAssemble
    <2>1. PICK one \in CardTexts, two \in CardTexts, template \in {<<>>} \cup {<<t>> : t \in CardTexts},
               regenerate \in BOOLEAN, mayRepair \in BOOLEAN :
            /\ one.intensity = "mild" /\ two.intensity = "hell"
            /\ template # <<>> => template[1].intensity = "mild"
            /\ \E texts \in {<<one>>, <<one, two>>} :
               \E sources \in [DOMAIN texts -> {"AI", "TEMPLATE"}] :
                  asked' = [kind |-> "assemble", texts |-> texts, sources |-> sources,
                            targets |-> {texts[n].intensity : n \in DOMAIN texts},
                            template |-> template, regenerate |-> regenerate, mayRepair |-> mayRepair]
      BY <1>2 DEF AskAssemble
    <2>2. PICK texts \in {<<one>>, <<one, two>>} : \E sources \in [DOMAIN texts -> {"AI", "TEMPLATE"}] :
            asked' = [kind |-> "assemble", texts |-> texts, sources |-> sources,
                      targets |-> {texts[n].intensity : n \in DOMAIN texts},
                      template |-> template, regenerate |-> regenerate, mayRepair |-> mayRepair]
      BY <2>1
    <2>3. PICK sources \in [DOMAIN texts -> {"AI", "TEMPLATE"}] :
            asked' = [kind |-> "assemble", texts |-> texts, sources |-> sources,
                      targets |-> {texts[n].intensity : n \in DOMAIN texts},
                      template |-> template, regenerate |-> regenerate, mayRepair |-> mayRepair]
      BY <2>2
    <2>4. one \in Text /\ two \in Text /\ Len(one.statement) = 1 /\ Len(two.statement) = 1
      BY RulesAssumption
    <2>5. template # <<>> => template[1] \in Text /\ Len(template[1].statement) = 1
      BY RulesAssumption
    <2>8. /\ texts \in Seq(Text) /\ DOMAIN texts \subseteq {1, 2}
          /\ \A n \in DOMAIN texts : texts[n] = IF n = 1 THEN one ELSE two
      <3>1. CASE texts = <<one>>
        BY <2>4, <3>1
      <3>2. CASE texts = <<one, two>>
        BY <2>4, <3>2
      <3> QED
        BY <2>2, <3>1, <3>2
    <2>9. \A m, n \in DOMAIN texts : (texts[m].intensity = texts[n].intensity => m = n)
      BY <2>1, <2>8
    <2>10. \A n \in DOMAIN texts : Len(texts[n].statement) = 1
      BY <2>4, <2>8
    <2>11. /\ asked'.kind = "assemble" /\ asked'.texts = texts /\ asked'.sources = sources
           /\ asked'.targets = {texts[n].intensity : n \in DOMAIN texts} /\ asked'.template = template
           /\ asked'.regenerate = regenerate /\ asked'.mayRepair = mayRepair
      BY <2>3
    <2> QED
      BY <2>5, <2>8, <2>9, <2>10, <2>11 DEF Asked
  <1>3. CASE AskReport
    <2>1. PICK templates \in (SUBSET {Last(Targets)}), kept \in (SUBSET {Last(Targets)}) :
            \/ \E n \in 0..MaxEntries : \E all \in [1..n -> Entries1] :
                 \/ asked' = OfReport(<<Output1(all, Yes, Yes)>>, templates, kept)
                 \/ \E cut \in 0..n :
                      asked' = OfReport(<<Output1(SubSeq(all, 1, cut), Yes, Yes),
                                          Output1(SubSeq(all, cut + 1, n), Yes, Yes)>>, templates, kept)
            \/ \E s, t, r \in Checks : \E e \in Entries1 :
                 \/ asked' = OfReport(<<Output1(<<e>>, s, r)>>, templates, kept)
                 \/ asked' = OfReport(<<Output1(<<e>>, s, Yes), Output1(<<>>, t, r)>>, templates, kept)
      BY <1>3 DEF AskReport
    <2>2. ASSUME NEW outputs \in Seq(Judgement), outputs # <<>>, asked' = OfReport(outputs, templates, kept)
          PROVE  Asked'
      <3>1. asked'.kind = "report" /\ asked'.outputs = outputs
        BY <2>2 DEF OfReport
      <3>2. asked'.reused = [i \in kept |-> [intensity |-> i, pass |-> "yes", violations |-> <<>>]]
        BY <2>2 DEF OfReport
      <3>3. KeptOf(asked'.reused)
        <4>1. ASSUME NEW i \in kept PROVE i \in Range(Targets) /\ i \in STRING
          <5>1. i = Last(Targets)
            OBVIOUS
          <5> QED
            BY <5>1, LastTarget
        <4>2. <<>> \in Seq(STRING) /\ Len(<<>>) <= MaxViolations
          BY ReportAssumption
        <4> QED
          BY <3>2, <4>1, <4>2 DEF KeptOf, Entry, Passes
      <3> QED
        BY <2>2, <3>1, <3>3 DEF Asked
    <2>3. ASSUME NEW texts \in Seq(Entry), NEW s \in Check, NEW r \in Check
          PROVE  Output1(texts, s, r) \in Judgement
      BY DEF Output1, Judgement
    <2>4. Yes \in Check
      BY DEF Yes, Check, Passes
    <2>5. CASE \E n \in 0..MaxEntries : \E all \in [1..n -> Entries1] :
                 \/ asked' = OfReport(<<Output1(all, Yes, Yes)>>, templates, kept)
                 \/ \E cut \in 0..n :
                      asked' = OfReport(<<Output1(SubSeq(all, 1, cut), Yes, Yes),
                                          Output1(SubSeq(all, cut + 1, n), Yes, Yes)>>, templates, kept)
      <3>0. PICK n \in 0..MaxEntries : \E all \in [1..n -> Entries1] :
                 \/ asked' = OfReport(<<Output1(all, Yes, Yes)>>, templates, kept)
                 \/ \E cut \in 0..n :
                      asked' = OfReport(<<Output1(SubSeq(all, 1, cut), Yes, Yes),
                                          Output1(SubSeq(all, cut + 1, n), Yes, Yes)>>, templates, kept)
        BY <2>5
      <3>1. PICK all \in [1..n -> Entries1] :
                 \/ asked' = OfReport(<<Output1(all, Yes, Yes)>>, templates, kept)
                 \/ \E cut \in 0..n :
                      asked' = OfReport(<<Output1(SubSeq(all, 1, cut), Yes, Yes),
                                          Output1(SubSeq(all, cut + 1, n), Yes, Yes)>>, templates, kept)
        BY <3>0
      <3>2. n \in Nat /\ all \in Seq(Entry) /\ Len(all) = n
        BY RulesAssumption
      <3>3. CASE asked' = OfReport(<<Output1(all, Yes, Yes)>>, templates, kept)
        <4>1. Output1(all, Yes, Yes) \in Judgement
          BY <2>3, <2>4, <3>2
        <4>2. <<Output1(all, Yes, Yes)>> \in Seq(Judgement) /\ <<Output1(all, Yes, Yes)>> # <<>>
          BY <4>1
        <4> QED
          BY <2>2, <3>3, <4>2
      <3>4. ASSUME NEW cut \in 0..n,
                   asked' = OfReport(<<Output1(SubSeq(all, 1, cut), Yes, Yes),
                                       Output1(SubSeq(all, cut + 1, n), Yes, Yes)>>, templates, kept)
            PROVE  Asked'
        <4> DEFINE one == Output1(SubSeq(all, 1, cut), Yes, Yes)
                   two == Output1(SubSeq(all, cut + 1, n), Yes, Yes)
        <4>1. SubSeq(all, 1, cut) \in Seq(Entry) /\ SubSeq(all, cut + 1, n) \in Seq(Entry)
          BY <3>2
        <4>2. one \in Judgement /\ two \in Judgement
          BY <2>3, <2>4, <4>1
        <4>3. <<one, two>> \in Seq(Judgement) /\ <<one, two>> # <<>>
          <5> HIDE DEF one, two
          <5> QED
            BY <4>2
        <4> QED
          BY <2>2, <3>4, <4>3
      <3> QED
        BY <3>1, <3>3, <3>4
    <2>6. CASE \E s, t, r \in Checks : \E e \in Entries1 :
                 \/ asked' = OfReport(<<Output1(<<e>>, s, r)>>, templates, kept)
                 \/ asked' = OfReport(<<Output1(<<e>>, s, Yes), Output1(<<>>, t, r)>>, templates, kept)
      <3>1. PICK s \in Checks, t \in Checks, r \in Checks, e \in Entries1 :
                 \/ asked' = OfReport(<<Output1(<<e>>, s, r)>>, templates, kept)
                 \/ asked' = OfReport(<<Output1(<<e>>, s, Yes), Output1(<<>>, t, r)>>, templates, kept)
        BY <2>6
      <3>2. s \in Check /\ t \in Check /\ r \in Check /\ <<e>> \in Seq(Entry) /\ <<>> \in Seq(Entry)
        BY RulesAssumption
      <3> DEFINE alone == Output1(<<e>>, s, r)
                 one == Output1(<<e>>, s, Yes)
                 two == Output1(<<>>, t, r)
      <3>3. alone \in Judgement /\ one \in Judgement /\ two \in Judgement
        BY <2>3, <2>4, <3>2
      <3>4. /\ <<alone>> \in Seq(Judgement) /\ <<alone>> # <<>>
            /\ <<one, two>> \in Seq(Judgement) /\ <<one, two>> # <<>>
        <4> HIDE DEF alone, one, two
        <4> QED
          BY <3>3
      <3> QED
        BY <2>2, <3>1, <3>4
    <2> QED
      BY <2>1, <2>5, <2>6
  <1>4. CASE AskIntake
    BY <1>4, RulesAssumption DEF AskIntake, Asked
  <1>5. CASE AskAmount
    <2>1. PICK n \in 1..MaxTokens : \E tokens \in [1..n -> Tokens] :
            asked' = [kind |-> "amount", tokens |-> tokens]
      BY <1>5 DEF AskAmount
    <2>2. PICK tokens \in [1..n -> Tokens] : asked' = [kind |-> "amount", tokens |-> tokens]
      BY <2>1
    <2>3. n \in Nat /\ Tokens \subseteq Token
      BY RulesAssumption DEF Token
    <2>4. tokens \in Seq(Token)
      BY <2>3
    <2>5. asked'.kind = "amount" /\ asked'.tokens = tokens
      BY <2>2
    <2> QED
      BY <2>4, <2>5 DEF Asked
  <1>6. CASE AskAggregate
    <2>0. PICK past \in (SUBSET Posts), s \in Snapshots, excludes \in {"p0", "p1"} :
            \E start \in s.created - Window - 1..s.created - Window + 1, end \in s.created..s.created + 1 :
               asked' = [kind |-> "aggregate", past |-> past, snapshot |-> s,
                         aggregates |-> [excludes |-> excludes, start |-> start, end |-> end,
                                         count |-> CountOf(past, s, excludes, start, end)]]
      BY <1>6 DEF AskAggregate
    <2>1. PICK start \in s.created - Window - 1..s.created - Window + 1, end \in s.created..s.created + 1 :
            asked' = [kind |-> "aggregate", past |-> past, snapshot |-> s,
                      aggregates |-> [excludes |-> excludes, start |-> start, end |-> end,
                                      count |-> CountOf(past, s, excludes, start, end)]]
      BY <2>0
    <2>2. s.created \in Int /\ start \in Int /\ end \in Int
      BY RulesAssumption, EvidenceAssumption
    <2> DEFINE counted == CountOf(past, s, excludes, start, end)
    <2>3. /\ asked'.kind = "aggregate" /\ asked'.past = past /\ asked'.snapshot = s
          /\ asked'.aggregates = [excludes |-> excludes, start |-> start, end |-> end, count |-> counted]
      BY <2>1
    <2>4. CountsSo(past, s, [excludes |-> excludes, start |-> start, end |-> end, count |-> counted])
      BY <2>2 DEF CountsSo
    <2> HIDE DEF counted
    <2> QED
      BY <2>3, <2>4 DEF Asked
  <1>7. CASE AskEvidence
    <2>1. PICK s \in Snapshots, r \in Resolutions, i \in Inferences, c \in Candidates, l \in Limits :
            asked' = [kind |-> "evidence", snapshot |-> s, resolved |-> r,
                      items |-> i, candidate |-> c, limit |-> l]
      BY <1>7 DEF AskEvidence
    <2>2. Resolved(r)
      BY RulesAssumption DEF Resolved
    <2>3. l \in Nat \ {0} /\ i \in Seq(Range(i)) /\ {"fits", "labels"} \subseteq DOMAIN c
      BY RulesAssumption
    <2>4. /\ asked'.kind = "evidence" /\ asked'.resolved = r /\ asked'.items = i
          /\ asked'.candidate = c /\ asked'.limit = l
      BY <2>1
    <2> QED
      BY <2>2, <2>3, <2>4 DEF Asked
  <1>8. CASE AskRecall
    BY <1>8 DEF AskRecall, Asked
  <1>9. CASE AskProcess
    BY <1>9 DEF AskProcess, Asked
  <1>10. CASE UNCHANGED asked
    BY <1>10 DEF Asked
  <1> QED
    BY <1>1, <1>2, <1>3, <1>4, <1>5, <1>6, <1>7, <1>8, <1>9, <1>10 DEF Next

\* In every reachable state what is asked is of the kind its rule is for.
THEOREM Typing == Spec => []Asked
  BY InitAsked, NextAsked, PTL DEF Spec

\* Whatever a request is and whatever the model says of it, run_intake answers
\* with a review that keeps the contract, but for a category that cannot be
\* hashed; an injection it detects blocks, unless the model reported it by a
\* value that is only coerced to true.
THEOREM IntakeAnswers == Spec => []IntakeAlwaysAnswers
  <1>1. Asked => IntakeAlwaysAnswers
    <2>1. asked.kind # "intake" => IntakeAlwaysAnswers
      BY DEF IntakeAlwaysAnswers
    <2> QED
      BY <2>1, IntakeOnce DEF Asked
  <1> QED
    BY <1>1, Typing, PTL

-----------------------------------------------------------------------------
(* Filters.                                                                *)

\* A set of numbers has a smallest one.
LEMMA Least ==
    ASSUME NEW T \in SUBSET Nat, T # {}
    PROVE  \E n \in T : \A m \in T : n <= m
  <1>1. PICK n \in T : \A m \in T : <<m, n>> \notin OpToRel(<, Nat)
    BY NatLessThanWellFounded, WFMin
  <1>2. ASSUME NEW m \in T PROVE n <= m
    <2>1. m \in Nat /\ n \in Nat
      OBVIOUS
    <2>2. CASE m < n
      <3>1. <<m, n>> \in OpToRel(<, Nat)
        BY <2>1, <2>2, Zenon DEF OpToRel
      <3> QED
        BY <1>1, <3>1
    <2> QED
      BY <2>1, <2>2
  <1> QED
    BY <1>2

\* What the first items of a sequence leave, one item after the other.
Steps(f, s, K, n) ==
    f = [m \in 0..n |-> IF m = 0 THEN <<>>
                        ELSE IF s[m] \in K THEN Append(f[m - 1], s[m]) ELSE f[m - 1]]

\* There is such a function for every sequence and prefix.
LEMMA StepsExist ==
    ASSUME NEW s, NEW K, NEW n \in Nat
    PROVE  \E f : Steps(f, s, K, n)
  <1> DEFINE T == {m \in Nat : ~\E f : Steps(f, s, K, m)}
  <1>1. CASE T = {}
    BY <1>1
  <1>2. CASE T # {}
    <2>1. PICK m \in T : \A k \in T : m <= k
      <3> HIDE DEF T
      <3>1. T \in SUBSET Nat
        BY DEF T
      <3> QED
        BY <1>2, <3>1, Least
    <2>2. m # 0
      <3>1. Steps([k \in 0..0 |-> <<>>], s, K, 0)
        BY DEF Steps
      <3>2. 0 \notin T
        BY <3>1
      <3> QED
        BY <2>1, <3>2
    <2>3. m \in Nat /\ m - 1 \in Nat /\ m - 1 \notin T
      BY <2>1, <2>2
    <2>4. PICK f : Steps(f, s, K, m - 1)
      BY <2>3
    <2> DEFINE last == IF s[m] \in K THEN Append(f[m - 1], s[m]) ELSE f[m - 1]
               g == [k \in 0..m |-> IF k = m THEN last ELSE f[k]]
    <2>5. ASSUME NEW k \in 0..m
          PROVE  g[k] = IF k = 0 THEN <<>>
                        ELSE IF s[k] \in K THEN Append(g[k - 1], s[k]) ELSE g[k - 1]
      <3>1. CASE k = m
        <4>1. g[m] = last /\ g[m - 1] = f[m - 1]
          BY <2>2, <2>3
        <4> HIDE DEF g
        <4> QED
          BY <2>2, <3>1, <4>1
      <3>2. CASE k # m
        <4>1. k \in 0..m - 1 /\ g[k] = f[k] /\ (k # 0 => g[k - 1] = f[k - 1])
          BY <2>3, <3>2
        <4>2. f[k] = IF k = 0 THEN <<>>
                     ELSE IF s[k] \in K THEN Append(f[k - 1], s[k]) ELSE f[k - 1]
          BY <2>4, <4>1 DEF Steps
        <4> HIDE DEF g
        <4> QED
          BY <4>1, <4>2
      <3> QED
        BY <3>1, <3>2
    <2>6. Steps(g, s, K, m)
      <3>1. DOMAIN g = 0..m /\ g = [k \in 0..m |-> g[k]]
        OBVIOUS
      <3> HIDE DEF g
      <3> QED
        BY <2>5, <3>1, Zenon DEF Steps
    <2> QED
      BY <2>1, <2>6
  <1> QED
    BY <1>1, <1>2

\* Select is the last of these steps.
LEMMA Selected ==
    ASSUME NEW S, NEW s \in Seq(S), NEW K
    PROVE  \E f : Steps(f, s, K, Len(s)) /\ Select(s, K) = f[Len(s)]
  <1> DEFINE chosen == CHOOSE f : Steps(f, s, K, Len(s))
  <1>1. Steps(chosen, s, K, Len(s))
    BY StepsExist
  <1>2. Select(s, K) = chosen[Len(s)]
    BY DEF Select, Steps
  <1> QED
    BY <1>1, <1>2

\* What a prefix of a sequence leaves.
Leaves(kept, S, s, K, n) ==
    /\ kept \in Seq(S) /\ Len(kept) <= n
    /\ Range(kept) = {s[k] : k \in 1..n} \cap K
    /\ Len(kept) = n <=> \A k \in 1..n : s[k] \in K
    /\ Len(kept) = n => \A k \in 1..n : kept[k] = s[k]

\* Each step leaves of its prefix what is kept.
LEMMA StepsLeave ==
    ASSUME NEW S, NEW s \in Seq(S), NEW K, NEW f, Steps(f, s, K, Len(s)), NEW n \in 0..Len(s)
    PROVE  Leaves(f[n], S, s, K, n)
  <1> DEFINE T == {m \in 0..Len(s) : ~Leaves(f[m], S, s, K, m)}
  <1>1. CASE T = {}
    BY <1>1
  <1>2. CASE T # {}
    <2>1. PICK m \in T : \A k \in T : m <= k
      <3> HIDE DEF T
      <3>1. T \in SUBSET Nat
        BY DEF T
      <3> QED
        BY <1>2, <3>1, Least
    <2>2. m \in 0..Len(s) /\ ~Leaves(f[m], S, s, K, m)
      OBVIOUS
    <2>3. m # 0
      <3>1. f[0] = <<>>
        BY DEF Steps
      <3>2. Leaves(<<>>, S, s, K, 0)
        BY DEF Leaves, Range
      <3> QED
        BY <2>2, <3>1, <3>2
    <2>4. m - 1 \in 0..Len(s) /\ Leaves(f[m - 1], S, s, K, m - 1)
      <3>1. m - 1 \in 0..Len(s) /\ m - 1 \notin T
        BY <2>1, <2>2, <2>3
      <3> QED
        BY <3>1
    <2> DEFINE old == f[m - 1]
               one == s[m]
    <2>5. f[m] = IF one \in K THEN Append(old, one) ELSE old
      BY <2>2, <2>3 DEF Steps
    <2>6. one \in S /\ m \in Nat /\ m \in 1..Len(s)
      BY <2>2, <2>3
    <2>7. {s[k] : k \in 1..m} = {s[k] : k \in 1..m - 1} \cup {one}
      BY <2>6
    <2>8. old \in Seq(S) /\ Len(old) <= m - 1 /\ Range(old) = {s[k] : k \in 1..m - 1} \cap K
      BY <2>4 DEF Leaves
    <2>9. CASE one \in K
      <3>1. f[m] = Append(old, one)
        BY <2>5, <2>9
      <3>2. Append(old, one) \in Seq(S) /\ Len(Append(old, one)) = Len(old) + 1
        BY <2>6, <2>8
      <3>3. Range(Append(old, one)) = Range(old) \cup {one}
        <4>1. ASSUME NEW q \in Seq(S) PROVE Range(q) = {q[k] : k \in 1..Len(q)}
          BY DEF Range
        <4>2. \A k \in 1..Len(old) + 1 : Append(old, one)[k] = IF k <= Len(old) THEN old[k] ELSE one
          BY <2>6, <2>8
        <4>3. Range(old) = {old[k] : k \in 1..Len(old)}
          BY <2>8, <4>1
        <4>4. Range(Append(old, one)) = {Append(old, one)[k] : k \in 1..Len(old) + 1}
          BY <3>2, <4>1
        <4>5. Len(old) \in Nat /\ Len(old) + 1 \in 1..Len(old) + 1
          BY <2>8
        <4> HIDE DEF old, one
        <4> QED
          BY <4>2, <4>3, <4>4, <4>5
      <3>4. Range(Append(old, one)) = {s[k] : k \in 1..m} \cap K
        BY <2>7, <2>8, <2>9, <3>3
      <3>5. Len(old) = m - 1 => \A k \in 1..m : Append(old, one)[k] = s[k]
        BY <2>4, <2>6, <2>8 DEF Leaves
      <3>6. (\A k \in 1..m : s[k] \in K) <=> \A k \in 1..m - 1 : s[k] \in K
        BY <2>6, <2>9
      <3>7. Len(old) = m - 1 <=> \A k \in 1..m - 1 : s[k] \in K
        BY <2>4 DEF Leaves
      <3>8. Len(old) \in Nat /\ (Len(old) + 1 = m <=> Len(old) = m - 1)
        BY <2>6, <2>8
      <3> QED
        BY <2>2, <2>6, <2>8, <3>1, <3>2, <3>4, <3>5, <3>6, <3>7, <3>8 DEF Leaves
    <2>10. CASE one \notin K
      <3>1. f[m] = old
        BY <2>5, <2>10
      <3>2. Range(old) = {s[k] : k \in 1..m} \cap K
        BY <2>7, <2>8, <2>10
      <3>3. Len(old) # m /\ Len(old) <= m
        BY <2>6, <2>8
      <3>4. ~\A k \in 1..m : s[k] \in K
        BY <2>6, <2>10
      <3> QED
        BY <2>2, <2>8, <3>1, <3>2, <3>3, <3>4 DEF Leaves
    <2> QED
      BY <2>9, <2>10
  <1> QED
    BY <1>1, <1>2

\* What Select leaves is what is kept; of a sequence that loses nothing, all.
LEMMA SelectKeeps ==
    ASSUME NEW S, NEW s \in Seq(S), NEW K
    PROVE  /\ Select(s, K) \in Seq(S) /\ Len(Select(s, K)) <= Len(s)
           /\ Range(Select(s, K)) = Range(s) \cap K
           /\ Len(Select(s, K)) = Len(s) <=> Range(s) \subseteq K
           /\ Range(s) \subseteq K => Select(s, K) = s
  <1>1. PICK f : Steps(f, s, K, Len(s)) /\ Select(s, K) = f[Len(s)]
    BY Selected
  <1>2. Leaves(f[Len(s)], S, s, K, Len(s))
    <2>1. Len(s) \in 0..Len(s)
      OBVIOUS
    <2> QED
      BY <1>1, <2>1, StepsLeave
  <1>3. Leaves(Select(s, K), S, s, K, Len(s))
    BY <1>1, <1>2
  <1>4. Range(s) = {s[k] : k \in 1..Len(s)}
    BY DEF Range
  <1>5. Range(s) \subseteq K <=> \A k \in 1..Len(s) : s[k] \in K
    BY <1>4
  <1>6. ASSUME Range(s) \subseteq K PROVE Select(s, K) = s
    BY <1>3, <1>5, <1>6 DEF Leaves
  <1> QED
    BY <1>3, <1>4, <1>5, <1>6 DEF Leaves

-----------------------------------------------------------------------------
(* One text, as the rules leave it.                                        *)

\* Rule 1 keeps what is grounded.
LEMMA GroundedOnlyKeeps ==
    ASSUME NEW s \in Seq(Item)
    PROVE  /\ GroundedOnly(s) \in Seq(Item)
           /\ Range(GroundedOnly(s)) = {item \in Range(s) : Grounded(item)}
           /\ (\A item \in Range(s) : Grounded(item)) => GroundedOnly(s) = s
  <1> DEFINE K == {item \in Range(s) : Grounded(item)}
  <1>1. GroundedOnly(s) = Select(s, K)
    BY DEF GroundedOnly
  <1>2. K \subseteq Range(s)
    OBVIOUS
  <1>3. Range(s) \cap K = K
    BY <1>2
  <1>4. (\A item \in Range(s) : Grounded(item)) => Range(s) \subseteq K
    OBVIOUS
  <1> HIDE DEF K
  <1>5. /\ Select(s, K) \in Seq(Item) /\ Range(Select(s, K)) = Range(s) \cap K
        /\ Range(s) \subseteq K => Select(s, K) = s
    BY SelectKeeps
  <1>6. K = {item \in Range(s) : Grounded(item)}
    BY DEF K
  <1> QED
    BY <1>1, <1>3, <1>4, <1>5, <1>6

\* A sentence without its IDs.
LEMMA StrippedItem ==
    ASSUME NEW item \in Item
    PROVE  /\ Stripped(item) \in Item /\ NoId(Stripped(item))
           /\ Grounded(item) => Grounded(Stripped(item))
  <1>1. /\ Stripped(item).kind = item.kind /\ Stripped(item).labels = item.labels
        /\ Stripped(item).line = [item.line EXCEPT !.ids = FALSE] /\ Stripped(item) \in Item
    BY DEF Stripped, Strip, Item, Line
  <1>2. Stripped(item).line.ids = FALSE
    BY <1>1 DEF Item, Line
  <1> QED
    BY <1>1, <1>2 DEF NoId, Grounded

\* Sentences without IDs are kept, the others only where there are no such.
LEMMA CleanedKeeps ==
    ASSUME NEW kept \in Seq(Item)
    PROVE  /\ Cleaned(kept) \in Seq(Item)
           /\ \A item \in Range(Cleaned(kept)) : NoId(item)
           /\ (\A item \in Range(kept) : NoId(item)) => Cleaned(kept) = kept
           /\ \/ Range(Cleaned(kept)) = {item \in Range(kept) : NoId(item)}
              \/ /\ \A item \in Range(kept) : ~NoId(item)
                 /\ \A item \in Range(Cleaned(kept)) :
                      item.line.len > 0 /\ \E old \in Range(kept) : item = Stripped(old)
  <1> DEFINE K == {item \in Range(kept) : NoId(item)}
             clean == Select(kept, K)
             stripped == [k \in DOMAIN kept |-> IF NoId(kept[k]) THEN kept[k] ELSE Stripped(kept[k])]
             P == {item \in Range(stripped) : item.line.len > 0}
  <1>1. Cleaned(kept) = IF Len(clean) = Len(kept) \/ Len(clean) >= StatementMin
                        THEN clean ELSE Select(stripped, P)
    BY DEF Cleaned
  <1>2. /\ clean \in Seq(Item) /\ Range(clean) = Range(kept) \cap K
        /\ Len(clean) = Len(kept) <=> Range(kept) \subseteq K
        /\ Range(kept) \subseteq K => clean = kept
    <2> HIDE DEF K
    <2> QED
      BY SelectKeeps
  <1>3. Range(clean) = K
    BY <1>2
  <1>4. (\A item \in Range(kept) : NoId(item)) => Range(kept) \subseteq K
    OBVIOUS
  <1>5. CASE Len(clean) = Len(kept) \/ Len(clean) >= StatementMin
    <2>1. Cleaned(kept) = clean
      BY <1>1, <1>5
    <2> HIDE DEF clean
    <2> QED
      BY <1>2, <1>3, <1>4, <2>1
  <1>6. CASE ~(Len(clean) = Len(kept) \/ Len(clean) >= StatementMin)
    <2>1. Cleaned(kept) = Select(stripped, P)
      BY <1>1, <1>6
    <2>2. Len(clean) = 0
      <3> HIDE DEF clean
      <3> QED
        BY <1>2, <1>6, TextAssumption
    <2>3. Range(clean) = {}
      <3> HIDE DEF clean
      <3> QED
        BY <1>2, <2>2 DEF Range
    <2>4. \A item \in Range(kept) : ~NoId(item)
      BY <1>3, <2>3
    <2>5. ~(Range(kept) \subseteq K)
      BY <1>2, <1>6
    <2>6. /\ stripped \in Seq(Item)
          /\ \A item \in Range(stripped) : \E old \in Range(kept) : item = Stripped(old)
      <3>1. \A k \in DOMAIN kept : kept[k] \in Item /\ kept[k] \in Range(kept)
        BY DEF Range
      <3>2. \A k \in DOMAIN kept : stripped[k] = Stripped(kept[k]) /\ stripped[k] \in Item
        BY <2>4, <3>1, StrippedItem
      <3>3. DOMAIN stripped = 1..Len(kept)
        OBVIOUS
      <3>4. stripped \in Seq(Item)
        BY <3>2, <3>3
      <3> QED
        BY <3>1, <3>2, <3>4 DEF Range
    <2>7. Select(stripped, P) \in Seq(Item) /\ Range(Select(stripped, P)) = Range(stripped) \cap P
      <3> HIDE DEF stripped, P
      <3> QED
        BY <2>6, SelectKeeps
    <2>8. \A item \in Range(Cleaned(kept)) :
            item.line.len > 0 /\ \E old \in Range(kept) : item = Stripped(old)
      BY <2>1, <2>6, <2>7
    <2>9. \A item \in Range(Cleaned(kept)) : NoId(item)
      <3>1. \A old \in Range(kept) : old \in Item
        BY DEF Range
      <3> QED
        BY <2>8, <3>1, StrippedItem
    <2>10. ~\A item \in Range(kept) : NoId(item)
      BY <2>5
    <2> HIDE DEF stripped, P, clean
    <2> QED
      BY <2>1, <2>4, <2>7, <2>8, <2>9, <2>10
  <1> QED
    BY <1>5, <1>6

\* A text as the rules leave it.
LEMMA RebuildParts ==
    ASSUME NEW text \in Text
    PROVE  /\ Rebuild(text) \in Text /\ Rebuild(text).intensity = text.intensity
           /\ Rebuild(text).headline = Strip(text.headline) /\ ~Rebuild(text).headline.ids
           /\ Rebuild(text).headline.len = text.headline.len
           /\ Rebuild(text).headline.words = text.headline.words
           /\ Rebuild(text).statement = Cleaned(GroundedOnly(text.statement))
  <1>1. text.statement \in Seq(Item) /\ text.headline \in Line
    BY DEF Text
  <1>2. Cleaned(GroundedOnly(text.statement)) \in Seq(Item)
    BY <1>1, GroundedOnlyKeeps, CleanedKeeps
  <1>3. Strip(text.headline) \in Line /\ ~Strip(text.headline).ids
        /\ Strip(text.headline).len = text.headline.len
        /\ Strip(text.headline).words = text.headline.words
    BY <1>1 DEF Strip, Line
  <1> QED
    BY <1>2, <1>3 DEF Rebuild, Text

\* What the rules leave is grounded.
LEMMA RebuildGrounds ==
    ASSUME NEW text \in Text, NEW item \in Range(Rebuild(text).statement)
    PROVE  item \in Item /\ Grounded(item) /\ NoId(item)
  <1> DEFINE kept == GroundedOnly(text.statement)
  <1>1. text.statement \in Seq(Item)
    BY DEF Text
  <1>2. kept \in Seq(Item) /\ \A i \in Range(kept) : Grounded(i)
    BY <1>1, GroundedOnlyKeeps
  <1>3. item \in Range(Cleaned(kept))
    BY RebuildParts
  <1> HIDE DEF kept
  <1>4. Cleaned(kept) \in Seq(Item) /\ NoId(item)
    BY <1>2, <1>3, CleanedKeeps
  <1>5. item \in Item
    BY <1>3, <1>4 DEF Range
  <1>6. \A i \in Range(kept) : i \in Item
    BY <1>2 DEF Range
  <1>7. Grounded(item)
    <2>1. CASE Range(Cleaned(kept)) = {i \in Range(kept) : NoId(i)}
      BY <1>2, <1>3, <2>1
    <2>2. CASE \E old \in Range(kept) : item = Stripped(old)
      BY <1>2, <1>6, <2>2, StrippedItem
    <2> QED
      BY <1>2, <1>3, <2>1, <2>2, CleanedKeeps
  <1> QED
    BY <1>4, <1>5, <1>7

\* A text that has nothing to lose is left as it is.
LEMMA RebuildLeaves ==
    ASSUME NEW text \in Text, ~text.headline.ids,
           \A item \in Range(text.statement) : Grounded(item) /\ NoId(item)
    PROVE  Rebuild(text) = text
  <1>1. text.statement \in Seq(Item) /\ text.headline \in Line
    BY DEF Text
  <1>2. GroundedOnly(text.statement) = text.statement
    BY <1>1, GroundedOnlyKeeps
  <1>3. Cleaned(text.statement) = text.statement
    BY <1>1, CleanedKeeps
  <1>4. Strip(text.headline) = text.headline
    BY <1>1 DEF Strip, Line
  <1> QED
    BY <1>2, <1>3, <1>4 DEF Rebuild, Text

\* The rules change a text once.
LEMMA RebuildTwice ==
    ASSUME NEW text \in Text
    PROVE  Rebuild(Rebuild(text)) = Rebuild(text)
  BY RebuildParts, RebuildGrounds, RebuildLeaves

SoundItem(item) == ~item.line.ids /\ (item.kind = "opinion" \/ item.labels \in (SUBSET Known) \ {{}})

\* A sentence is sound if it is grounded and holds no ID.
LEMMA GroundedIsSound ==
    ASSUME NEW item \in Item
    PROVE  SoundItem(item) <=> Grounded(item) /\ NoId(item)
  BY DEF SoundItem, Grounded, GroundedKinds, NoId, Item

\* No sound sentence is lost, and as long as there is one, none is rewritten.
LEMMA RebuildKeeps ==
    ASSUME NEW text \in Text
    PROVE  /\ \A item \in Range(text.statement) : SoundItem(item) => item \in Range(Rebuild(text).statement)
           /\ \A item \in Range(Rebuild(text).statement) \ Range(text.statement) :
                item.line.len > 0 /\ ~\E old \in Range(text.statement) : SoundItem(old)
  <1> DEFINE kept == GroundedOnly(text.statement)
  <1>1. text.statement \in Seq(Item)
    BY DEF Text
  <1>2. kept \in Seq(Item) /\ Range(kept) = {item \in Range(text.statement) : Grounded(item)}
    BY <1>1, GroundedOnlyKeeps
  <1>3. Rebuild(text).statement = Cleaned(kept)
    BY RebuildParts
  <1>4. \A item \in Range(text.statement) : SoundItem(item) => item \in Range(kept) /\ NoId(item)
    BY <1>1, <1>2, GroundedIsSound DEF Range
  <1> HIDE DEF kept
  <1>5. CASE Range(Cleaned(kept)) = {item \in Range(kept) : NoId(item)}
    BY <1>2, <1>3, <1>4, <1>5
  <1>6. CASE /\ \A item \in Range(kept) : ~NoId(item)
             /\ \A item \in Range(Cleaned(kept)) : item.line.len > 0
    BY <1>3, <1>4, <1>6
  <1> QED
    BY <1>2, <1>5, <1>6, CleanedKeeps

-----------------------------------------------------------------------------
(* All texts, and their issues.                                            *)

\* What the rules say of one text, and of all.
OfText(texts, n) ==
    RebuildIssues(texts[n], Rebuild(texts[n]))
      \cup (IF \E m \in 1..n - 1 : texts[m].intensity = texts[n].intensity THEN {"DUPLICATE_INTENSITY"} ELSE {})
      \cup Hits(Rebuild(texts[n]))

OfDraft(texts, targets) ==
    IF {texts[n].intensity : n \in DOMAIN texts} # targets THEN {<<0, "INTENSITY_SET_MISMATCH">>} ELSE {}

\* The rules look at each text on its own.
LEMMA RulesParts ==
    ASSUME NEW texts \in Seq(Text), NEW targets
    PROVE  LET rules == ApplyTextRules(texts, targets)
           IN  /\ DOMAIN rules.texts = DOMAIN texts /\ DOMAIN rules.refs = DOMAIN texts
               /\ rules.texts = [n \in DOMAIN texts |-> Rebuild(texts[n])]
               /\ \A n \in DOMAIN texts :
                    /\ rules.texts[n] = Rebuild(texts[n])
                    /\ rules.refs[n] = EvidenceRefs(Rebuild(texts[n]))
  BY DEF ApplyTextRules

OfTexts(texts) == UNION {{n} \X OfText(texts, n) : n \in DOMAIN texts}

\* An issue is of one text, or of the draft as a whole.
LEMMA RulesIssues ==
    ASSUME NEW texts \in Seq(Text), NEW targets
    PROVE  ApplyTextRules(texts, targets).issues = OfTexts(texts) \cup OfDraft(texts, targets)
  <1> DEFINE rebuilt == [n \in DOMAIN texts |-> Rebuild(texts[n])]
             of(n) == RebuildIssues(texts[n], rebuilt[n])
                        \cup (IF \E m \in 1..n - 1 : texts[m].intensity = texts[n].intensity
                              THEN {"DUPLICATE_INTENSITY"} ELSE {})
                        \cup Hits(rebuilt[n])
  <1>1. ApplyTextRules(texts, targets).issues
          = (UNION {{n} \X of(n) : n \in DOMAIN texts}) \cup OfDraft(texts, targets)
    BY DEF ApplyTextRules, OfDraft
  <1>2. \A n \in DOMAIN texts : of(n) = OfText(texts, n)
    BY DEF OfText
  <1> HIDE DEF of
  <1>3. {{n} \X of(n) : n \in DOMAIN texts} = {{n} \X OfText(texts, n) : n \in DOMAIN texts}
    BY <1>2
  <1> QED
    BY <1>1, <1>3 DEF OfTexts

\* A text is accepted if it has no issue of its own.
LEMMA IssuesOf ==
    ASSUME NEW texts \in Seq(Text), NEW targets
    PROVE  LET issues == ApplyTextRules(texts, targets).issues
           IN  /\ \A n \in DOMAIN texts : (\A issue \in issues : issue[1] # n) <=> OfText(texts, n) = {}
               /\ (\A issue \in issues : issue[1] # 0) <=> {texts[n].intensity : n \in DOMAIN texts} = targets
               /\ issues = {} <=> /\ {texts[n].intensity : n \in DOMAIN texts} = targets
                                  /\ \A n \in DOMAIN texts : OfText(texts, n) = {}
               /\ \A issue \in issues :
                    \/ issue = <<0, "INTENSITY_SET_MISMATCH">> /\ {texts[n].intensity : n \in DOMAIN texts} # targets
                    \/ \E n \in DOMAIN texts : issue[1] = n /\ issue[2] \in OfText(texts, n)
  <1> DEFINE issues == ApplyTextRules(texts, targets).issues
             given == {texts[n].intensity : n \in DOMAIN texts}
             ofTexts == OfTexts(texts)
             ofDraft == OfDraft(texts, targets)
  <1>2. issues = ofTexts \cup ofDraft
    BY RulesIssues
  <1>3. \A issue \in ofDraft : issue = <<0, "INTENSITY_SET_MISMATCH">> /\ given # targets
    BY DEF OfDraft
  <1>4. given # targets => <<0, "INTENSITY_SET_MISMATCH">> \in issues
    <2>1. given # targets => <<0, "INTENSITY_SET_MISMATCH">> \in ofDraft
      BY DEF OfDraft
    <2> QED
      BY <1>2, <2>1
  <1>9. ASSUME NEW issue \in ofTexts
        PROVE  \E n \in DOMAIN texts : issue[1] = n /\ issue[2] \in OfText(texts, n)
    <2>1. PICK n \in DOMAIN texts : issue \in {n} \X OfText(texts, n)
      BY <1>9 DEF OfTexts
    <2> QED
      BY <2>1
  <1>10. ASSUME NEW n \in DOMAIN texts, NEW code \in OfText(texts, n) PROVE <<n, code>> \in issues
    <2>1. <<n, code>> \in {n} \X OfText(texts, n)
      BY <1>10
    <2>2. <<n, code>> \in ofTexts
      BY <2>1 DEF OfTexts
    <2> QED
      BY <1>2, <2>2
  <1> HIDE DEF issues, given, ofTexts, ofDraft
  <1>11. \A issue \in issues :
          \/ issue = <<0, "INTENSITY_SET_MISMATCH">> /\ given # targets
          \/ \E n \in DOMAIN texts : issue[1] = n /\ issue[2] \in OfText(texts, n)
    BY <1>2, <1>3, <1>9
  <1>5. \A n \in DOMAIN texts : n # 0
    OBVIOUS
  <1>6. ASSUME NEW n \in DOMAIN texts
        PROVE  (\A issue \in issues : issue[1] # n) <=> OfText(texts, n) = {}
    <2>1. ASSUME NEW code \in OfText(texts, n) PROVE \E issue \in issues : issue[1] = n
      <3>1. <<n, code>> \in issues /\ <<n, code>>[1] = n
        BY <1>10
      <3> QED
        BY <3>1
    <2>2. ASSUME NEW issue \in issues, issue[1] = n PROVE OfText(texts, n) # {}
      <3>1. issue # <<0, "INTENSITY_SET_MISMATCH">>
        BY <1>5, <2>2
      <3> QED
        BY <1>11, <2>2, <3>1
    <2> QED
      BY <2>1, <2>2
  <1>7. (\A issue \in issues : issue[1] # 0) <=> given = targets
    <2>1. ASSUME given # targets PROVE \E issue \in issues : issue[1] = 0
      <3>1. <<0, "INTENSITY_SET_MISMATCH">>[1] = 0
        OBVIOUS
      <3> QED
        BY <1>4, <2>1, <3>1
    <2>2. ASSUME NEW issue \in issues, issue[1] = 0 PROVE given # targets
      BY <1>11, <1>5, <2>2
    <2> QED
      BY <2>1, <2>2
  <1>8. issues = {} <=> /\ given = targets
                        /\ \A n \in DOMAIN texts : OfText(texts, n) = {}
    BY <1>4, <1>10, <1>11
  <1> QED
    BY <1>11, <1>6, <1>7, <1>8 DEF issues, given

-----------------------------------------------------------------------------
(* Sums of lengths.                                                        *)

\* A set of positions has a greatest one.
LEMMA GreatestOfAll ==
    ASSUME NEW n \in Nat, NEW U \in SUBSET (1..n), U # {}
    PROVE  Max(U) \in U /\ \A x \in U : Max(U) >= x
  <1> DEFINE T == {n - x : x \in U}
  <1>0. ASSUME NEW x \in U PROVE x \in Nat /\ n - x \in Nat /\ n - x \in T
    OBVIOUS
  <1>1. T \in SUBSET Nat /\ T # {}
    BY <1>0
  <1>2. PICK m \in T : \A k \in T : m <= k
    <2> HIDE DEF T
    <2> QED
      BY <1>1, Least
  <1>3. PICK x \in U : m = n - x
    OBVIOUS
  <1>4. ASSUME NEW y \in U PROVE x >= y
    <2>1. n - x <= n - y
      BY <1>0, <1>2, <1>3
    <2>2. x \in Nat /\ y \in Nat
      OBVIOUS
    <2> QED
      BY <2>1, <2>2
  <1> QED
    BY <1>4 DEF Max

LEMMA Greatest ==
    ASSUME NEW n \in Nat, NEW U \in SUBSET (1..n), U # {}
    PROVE  Max(U) \in U
  BY GreatestOfAll

\* The sum of the lengths of the lines, without IDs and with them.
AddsLen(iter, s) ==
    iter = [U \in SUBSET DOMAIN s |-> IF U = {} THEN 0 ELSE iter[U \ {Max(U)}] + s[Max(U)].line.len]

AddsLength(iter, s) ==
    iter = [U \in SUBSET DOMAIN s |-> IF U = {} THEN 0 ELSE iter[U \ {Max(U)}] + Length(s[Max(U)].line)]

\* Without IDs the length of a line is what it is without them.
LEMMA TotalOfLines ==
    ASSUME NEW s \in Seq(Item), \A item \in Range(s) : NoId(item)
    PROVE  Total(s) = FoldLeft(LAMBDA sum, i : sum + i.line.len, 0, s)
  <1>1. ASSUME NEW k \in DOMAIN s PROVE Length(s[k].line) = s[k].line.len
    <2>1. s[k] \in Item /\ s[k] \in Range(s)
      BY DEF Range
    <2>2. ~s[k].line.ids /\ s[k].line.len \in Nat
      BY <2>1 DEF NoId, Item, Line
    <2> QED
      BY <2>2 DEF Length
  <1>2. ASSUME NEW U \in SUBSET DOMAIN s, U # {} PROVE Length(s[Max(U)].line) = s[Max(U)].line.len
    <2>1. Max(U) \in U
      BY <1>2, Greatest
    <2> QED
      BY <1>1, <2>1
  <1>3. ASSUME NEW iter PROVE AddsLength(iter, s) <=> AddsLen(iter, s)
    BY <1>2 DEF AddsLength, AddsLen
  <1>4. (CHOOSE iter : AddsLength(iter, s)) = CHOOSE iter : AddsLen(iter, s)
    BY <1>3
  <1>5. Total(s) = (CHOOSE iter : AddsLength(iter, s))[DOMAIN s]
    BY DEF Total, FoldLeft, MapThenFoldSet, AddsLength
  <1>6. FoldLeft(LAMBDA sum, i : sum + i.line.len, 0, s) = (CHOOSE iter : AddsLen(iter, s))[DOMAIN s]
    BY DEF FoldLeft, MapThenFoldSet, AddsLen
  <1> QED
    BY <1>4, <1>5, <1>6

\* A sum of lengths is there, and it is a number.
LEMMA SumsExist ==
    ASSUME NEW s \in Seq(Item), NEW n \in 0..Len(s)
    PROVE  \E iter : iter = [U \in SUBSET (1..n) |->
                               IF U = {} THEN 0 ELSE iter[U \ {Max(U)}] + Length(s[Max(U)].line)]
  <1> DEFINE Sums(iter, m) ==
                iter = [U \in SUBSET (1..m) |->
                          IF U = {} THEN 0 ELSE iter[U \ {Max(U)}] + Length(s[Max(U)].line)]
             T == {m \in 0..Len(s) : ~\E iter : Sums(iter, m)}
  <1>1. CASE T = {}
    BY <1>1
  <1>2. CASE T # {}
    <2>1. PICK m \in T : \A k \in T : m <= k
      <3> HIDE DEF T
      <3>1. T \in SUBSET Nat
        BY DEF T
      <3> QED
        BY <1>2, <3>1, Least
    <2>2. ~\E iter : Sums(iter, m)
      OBVIOUS
    <2>0. m \in 0..Len(s) /\ m \in Nat
      OBVIOUS
    <2>3. m # 0
      <3> DEFINE zero == [U \in SUBSET (1..0) |-> 0]
      <3>1. \A U \in SUBSET (1..0) : U = {}
        OBVIOUS
      <3>2. zero = [U \in SUBSET (1..0) |->
                      IF U = {} THEN 0 ELSE zero[U \ {Max(U)}] + Length(s[Max(U)].line)]
        BY <3>1
      <3>3. Sums(zero, 0)
        BY <3>2
      <3> QED
        BY <2>2, <3>3
    <2>4. PICK iter : Sums(iter, m - 1)
      <3>1. m - 1 \in 0..Len(s) /\ ~(m <= m - 1)
        BY <2>0, <2>3
      <3>2. m - 1 \notin T
        <4> HIDE DEF T
        <4> QED
          BY <2>1, <3>1
      <3> QED
        BY <3>1, <3>2
    <2> DEFINE g == [U \in SUBSET (1..m) |->
                       IF m \in U THEN iter[U \ {m}] + Length(s[m].line) ELSE iter[U]]
    <2>5. ASSUME NEW U \in SUBSET (1..m)
          PROVE  g[U] = IF U = {} THEN 0 ELSE g[U \ {Max(U)}] + Length(s[Max(U)].line)
      <3>1. U # {} => Max(U) \in U /\ U \ {Max(U)} \in SUBSET (1..m)
        BY <2>0, Greatest
      <3>2. CASE m \in U
        <4>1. Max(U) = m
          <5>1. \A x \in U : m >= x
            BY <2>0
          <5>2. \A x \in U : (\A y \in U : x >= y) <=> x = m
            BY <2>0, <3>2, <5>1
          <5> QED
            BY <3>1, <3>2, <5>1, <5>2 DEF Max
        <4>2. g[U] = iter[U \ {m}] + Length(s[m].line) /\ g[U \ {m}] = iter[U \ {m}]
          BY <3>2
        <4> HIDE DEF g
        <4> QED
          BY <3>2, <4>1, <4>2
      <3>3. CASE m \notin U
        <4>1. U \in SUBSET (1..m - 1)
          BY <2>0, <3>3
        <4>2. iter[U] = IF U = {} THEN 0 ELSE iter[U \ {Max(U)}] + Length(s[Max(U)].line)
          BY <2>4, <4>1
        <4>3. g[U] = iter[U] /\ (U # {} => g[U \ {Max(U)}] = iter[U \ {Max(U)}])
          BY <3>1, <3>3
        <4> HIDE DEF g
        <4> QED
          BY <4>2, <4>3
      <3> QED
        BY <3>2, <3>3
    <2>6. Sums(g, m)
      <3>1. g = [U \in SUBSET (1..m) |-> g[U]]
        OBVIOUS
      <3> HIDE DEF g
      <3> QED
        BY <2>5, <3>1
    <2> QED
      BY <2>2, <2>6
  <1> QED
    BY <1>1, <1>2

\* The lengths of the sentences sum up to a number.
LEMMA TotalNat ==
    ASSUME NEW s \in Seq(Item)
    PROVE  Total(s) \in Nat
  <1> DEFINE sums == CHOOSE iter : AddsLength(iter, s)
  <1>1. AddsLength(sums, s)
    <2>1. \E iter : AddsLength(iter, s)
      <3>1. DOMAIN s = 1..Len(s) /\ Len(s) \in 0..Len(s)
        OBVIOUS
      <3>2. PICK iter : iter = [U \in SUBSET (1..Len(s)) |->
                                  IF U = {} THEN 0 ELSE iter[U \ {Max(U)}] + Length(s[Max(U)].line)]
        BY <3>1, SumsExist
      <3>3. AddsLength(iter, s)
        BY <3>1, <3>2 DEF AddsLength
      <3> QED
        BY <3>3
    <2> QED
      BY <2>1
  <1>2. Total(s) = sums[DOMAIN s]
    BY DEF Total, FoldLeft, MapThenFoldSet, AddsLength
  <1> HIDE DEF sums
  <1> DEFINE T == {m \in 0..Len(s) : ~\A U \in SUBSET (1..m) : sums[U] \in Nat}
  <1>3. CASE T = {}
    <2>1. DOMAIN s = 1..Len(s) /\ Len(s) \in 0..Len(s)
      OBVIOUS
    <2> QED
      BY <1>2, <1>3, <2>1
  <1>4. CASE T # {}
    <2>1. PICK m \in T : \A k \in T : m <= k
      <3> HIDE DEF T
      <3>1. T \in SUBSET Nat
        BY DEF T
      <3> QED
        BY <1>4, <3>1, Least
    <2>2. m \in 0..Len(s) /\ m \in Nat
      OBVIOUS
    <2>3. PICK U \in SUBSET (1..m) : sums[U] \notin Nat
      OBVIOUS
    <2>4. U \in SUBSET DOMAIN s
      BY <2>2
    <2>5. sums[U] = IF U = {} THEN 0 ELSE sums[U \ {Max(U)}] + Length(s[Max(U)].line)
      BY <1>1, <2>4 DEF AddsLength
    <2>6. U # {} /\ Max(U) \in U /\ \A x \in U : Max(U) >= x
      <3>1. U # {}
        BY <2>3, <2>5
      <3> QED
        BY <2>2, <3>1, GreatestOfAll
    <2>7. /\ Max(U) \in 1..m /\ Max(U) - 1 \in 0..Len(s) /\ ~(m <= Max(U) - 1)
          /\ U \ {Max(U)} \in SUBSET (1..Max(U) - 1)
      <3>1. Max(U) \in 1..m
        BY <2>6
      <3>2. Max(U) - 1 \in 0..Len(s) /\ ~(m <= Max(U) - 1)
        BY <2>2, <3>1
      <3>3. ASSUME NEW x \in U \ {Max(U)} PROVE x \in 1..Max(U) - 1
        <4>1. x \in 1..m /\ Max(U) >= x /\ x # Max(U)
          BY <2>6
        <4> QED
          BY <3>1, <4>1
      <3> QED
        BY <3>1, <3>2, <3>3
    <2>8. Max(U) - 1 \notin T
      <3> HIDE DEF T
      <3> QED
        BY <2>1, <2>7
    <2>9. sums[U \ {Max(U)}] \in Nat
      BY <2>7, <2>8
    <2>10. Length(s[Max(U)].line) \in Nat
      <3>1. s[Max(U)] \in Item
        BY <2>2, <2>7
      <3> QED
        BY <3>1, TextAssumption DEF Length, Item, Line
    <2> QED
      BY <2>3, <2>5, <2>6, <2>9, <2>10
  <1> QED
    BY <1>3, <1>4

-----------------------------------------------------------------------------
(* Accepted and sound.                                                     *)

\* What sound means, sentence by sentence.
LEMMA SoundIs ==
    ASSUME NEW text \in Text
    PROVE  Sound(text) <=>
             /\ \A item \in Range(text.statement) : SoundItem(item)
             /\ ~text.headline.ids /\ Decent(text.headline, text.intensity)
             /\ \A item \in Range(text.statement) : Decent(item.line, text.intensity)
  <1>1. text.statement \in Seq(Item)
    BY DEF Text
  <1>2. \A item \in Range(text.statement) : \E k \in DOMAIN text.statement : item = text.statement[k]
    BY DEF Range
  <1>3. \A k \in DOMAIN text.statement : text.statement[k] \in Range(text.statement)
    BY DEF Range
  <1>4. \A line \in Lines(text) :
          \/ line = text.headline
          \/ \E k \in DOMAIN text.statement : line = text.statement[k].line
    BY DEF Lines
  <1>5. /\ text.headline \in Lines(text)
        /\ \A k \in DOMAIN text.statement : text.statement[k].line \in Lines(text)
    BY DEF Lines
  <1> QED
    BY <1>2, <1>3, <1>4, <1>5 DEF Sound, SoundItem

\* A line with a word its intensity may not hold is a hit.
LEMMA NoHitIsDecent ==
    ASSUME NEW text \in Text, Hits(text) = {}, NEW line \in Lines(text)
    PROVE  Decent(line, text.intensity)
  <1> DEFINE words == UNION {one.words : one \in Lines(text)}
             i == text.intensity
  <1>1. /\ "rude" \in words => ~Applies("PROFANITY", i)
        /\ "rough" \in words => ~(Applies("PROFANITY", i) /\ i # "spicy")
        /\ "plain" \in words => ~Applies("BANMAL", i)
        /\ "never" \in words => ~Applies("DEATH_WORDS", i)
    BY DEF Hits
  <1>2. line.words \subseteq words
    OBVIOUS
  <1>3. text.headline \in Line /\ \A k \in DOMAIN text.statement : text.statement[k].line \in Line
    <2>1. text.headline \in Line /\ text.statement \in Seq(Item)
      BY DEF Text
    <2>2. \A k \in DOMAIN text.statement : text.statement[k] \in Item
      BY <2>1
    <2> QED
      BY <2>1, <2>2 DEF Item
  <1>4. line.words \subseteq Words
    BY <1>3 DEF Lines, Line
  <1>5. i \in Intensities
    BY DEF Text
  <1> HIDE DEF words, i
  <1>6. /\ "never" \notin line.words
        /\ i = "mild" => line.words \cap {"rude", "rough", "plain"} = {}
        /\ i = "spicy" => "rude" \notin line.words
    BY <1>1, <1>2, <1>5 DEF Applies, Intensities
  <1>7. Decent(line, i)
    BY <1>4, <1>5, <1>6 DEF Decent, Words, Intensities
  <1> QED
    BY <1>7 DEF i

\* A text without an issue is sound and of a permitted size.
LEMMA AcceptedIsSound ==
    ASSUME NEW texts \in Seq(Text), NEW n \in DOMAIN texts, OfText(texts, n) = {}
    PROVE  LET new == Rebuild(texts[n])
           IN  /\ Sound(new) /\ new.headline.len <= HeadlineMax
               /\ Len(new.statement) \in StatementMin..StatementMax
               /\ FoldLeft(LAMBDA sum, i : sum + i.line.len, 0, new.statement) <= TotalMax
               /\ Total(new.statement) <= TotalMax /\ Length(new.headline) <= HeadlineMax
  <1> DEFINE new == Rebuild(texts[n])
  <1>1. texts[n] \in Text
    OBVIOUS
  <1>2. new \in Text /\ ~new.headline.ids
    BY <1>1, RebuildParts
  <1>3. \A item \in Range(new.statement) : item \in Item /\ Grounded(item) /\ NoId(item)
    BY <1>1, RebuildGrounds
  <1>4. RebuildIssues(texts[n], new) = {} /\ Hits(new) = {}
    BY DEF OfText
  <1> HIDE DEF new
  <1>5. new.statement \in Seq(Item) /\ new.headline \in Line
    BY <1>2 DEF Text
  <1>6. /\ ~(Length(new.headline) > HeadlineMax) /\ ~(Total(new.statement) > TotalMax)
        /\ Len(new.statement) \in StatementMin..StatementMax
    <2>1. "SCHEMA_INVALID" \notin RebuildIssues(texts[n], new)
      BY <1>4
    <2> QED
      BY <2>1 DEF RebuildIssues
  <1>7. Total(new.statement) = FoldLeft(LAMBDA sum, i : sum + i.line.len, 0, new.statement)
    BY <1>3, <1>5, TotalOfLines
  <1>8. Length(new.headline) = new.headline.len /\ new.headline.len \in Nat
    BY <1>2, <1>5 DEF Length, Line
  <1>9. Sound(new)
    <2>1. \A item \in Range(new.statement) : SoundItem(item)
      BY <1>3, GroundedIsSound
    <2>2. \A item \in Range(new.statement) : item.line \in Lines(new)
      BY DEF Lines, Range
    <2>3. new.headline \in Lines(new)
      BY DEF Lines
    <2> QED
      BY <1>2, <1>4, <2>1, <2>2, <2>3, SoundIs, NoHitIsDecent
  <1>10. TotalMax \in Nat /\ HeadlineMax \in Nat
    BY TextAssumption
  <1>11. Total(new.statement) \in Nat
    BY <1>5, TotalNat
  <1>12. /\ Sound(new) /\ new.headline.len <= HeadlineMax
         /\ Len(new.statement) \in StatementMin..StatementMax
         /\ FoldLeft(LAMBDA sum, i : sum + i.line.len, 0, new.statement) <= TotalMax
         /\ Total(new.statement) <= TotalMax /\ Length(new.headline) <= HeadlineMax
    <2>1. Total(new.statement) <= TotalMax
      BY <1>6, <1>10, <1>11
    <2>2. FoldLeft(LAMBDA sum, i : sum + i.line.len, 0, new.statement) <= TotalMax
      BY <1>7, <2>1
    <2>3. new.headline.len <= HeadlineMax /\ Length(new.headline) <= HeadlineMax
      BY <1>6, <1>8, <1>10
    <2> QED
      BY <1>6, <1>9, <2>1, <2>2, <2>3, Zenon
  <1> QED
    BY <1>12 DEF new

-----------------------------------------------------------------------------
(* Drafts.                                                                 *)

\* As many texts as targets, if none is there twice and the targets are theirs.
LEMMA NoneTwice ==
    ASSUME NEW texts \in Seq(Text),
           \A n \in DOMAIN texts : ~\E m \in 1..n - 1 : texts[m].intensity = texts[n].intensity
    PROVE  Len(texts) = Cardinality({texts[n].intensity : n \in DOMAIN texts})
  <1> DEFINE given == {texts[n].intensity : n \in DOMAIN texts}
             f == [n \in 1..Len(texts) |-> texts[n].intensity]
  <1>1. \A m, n \in 1..Len(texts) : f[m] = f[n] => m = n
    <2>1. ASSUME NEW m \in 1..Len(texts), NEW n \in 1..Len(texts), f[m] = f[n], m < n PROVE FALSE
      <3>1. m \in 1..n - 1 /\ n \in DOMAIN texts
        BY <2>1
      <3> QED
        BY <2>1, <3>1
    <2> HIDE DEF f
    <2>2. \A m, n \in 1..Len(texts) : m < n \/ n < m \/ m = n
      OBVIOUS
    <2> QED
      BY <2>1, <2>2
  <1>2. f \in [1..Len(texts) -> given] /\ \A i \in given : \E n \in 1..Len(texts) : f[n] = i
    OBVIOUS
  <1> HIDE DEF f, given
  <1>3. f \in Surjection(1..Len(texts), given) /\ f \in Injection(1..Len(texts), given)
    <2>1. IsInjective(f)
      BY <1>1, <1>2 DEF IsInjective
    <2> QED
      BY <1>2, <2>1 DEF Surjection, Injection
  <1>4. IsFiniteSet(1..Len(texts)) /\ Cardinality(1..Len(texts)) = Len(texts)
    <2>1. Len(texts) \in Nat
      OBVIOUS
    <2> QED
      BY <2>1, FS_Interval
  <1>5. Cardinality(given) = Cardinality(1..Len(texts))
    BY <1>3, <1>4, FS_Surjection
  <1> QED
    BY <1>4, <1>5 DEF given

\* A draft without an issue keeps the contract of a draft.
LEMMA DraftIsValid ==
    ASSUME NEW texts \in Seq(Text), NEW targets, ApplyTextRules(texts, targets).issues = {}
    PROVE  /\ Len(texts) = Cardinality(targets)
           /\ {texts[n].intensity : n \in DOMAIN texts} = targets
           /\ ValidateWriterDraft(ApplyTextRules(texts, targets).texts, targets)
                \subseteq {"UNKNOWN_EVIDENCE_LABEL"}
  <1> DEFINE rebuilt == ApplyTextRules(texts, targets).texts
  <1>1. /\ {texts[n].intensity : n \in DOMAIN texts} = targets
        /\ \A n \in DOMAIN texts : OfText(texts, n) = {}
    BY IssuesOf
  <1>2. \A n \in DOMAIN texts : ~\E m \in 1..n - 1 : texts[m].intensity = texts[n].intensity
    BY <1>1 DEF OfText
  <1>0. rebuilt = [n \in DOMAIN texts |-> Rebuild(texts[n])]
    BY RulesParts
  <1>3. DOMAIN rebuilt = DOMAIN texts /\ \A n \in DOMAIN texts : rebuilt[n] = Rebuild(texts[n])
    <2> HIDE DEF rebuilt
    <2> QED
      BY <1>0
  <1> HIDE DEF rebuilt
  <1>4. \A n \in DOMAIN texts : rebuilt[n].intensity = texts[n].intensity
    <2>1. ASSUME NEW n \in DOMAIN texts PROVE rebuilt[n].intensity = texts[n].intensity
      <3>1. texts[n] \in Text
        OBVIOUS
      <3> QED
        BY <1>3, <3>1, RebuildParts
    <2> QED
      BY <2>1
  <1>5. ASSUME NEW n \in DOMAIN rebuilt PROVE CheckText(rebuilt[n]) \subseteq {"UNKNOWN_EVIDENCE_LABEL"}
    <2>1. n \in DOMAIN texts /\ rebuilt[n] = Rebuild(texts[n]) /\ texts[n] \in Text
      BY <1>3
    <2>2. /\ Total(rebuilt[n].statement) <= TotalMax /\ Length(rebuilt[n].headline) <= HeadlineMax
          /\ Len(rebuilt[n].statement) \in StatementMin..StatementMax
      BY <1>1, <2>1, AcceptedIsSound
    <2>3. Total(rebuilt[n].statement) \in Nat /\ Length(rebuilt[n].headline) \in Nat
      <3>1. rebuilt[n] \in Text
        BY <2>1, RebuildParts
      <3>2. rebuilt[n].statement \in Seq(Item) /\ rebuilt[n].headline \in Line
        BY <3>1 DEF Text
      <3> QED
        BY <3>2, TotalNat, TextAssumption DEF Length, Line
    <2> QED
      BY <2>2, <2>3, TextAssumption DEF CheckText
  <1>6. {m \in DOMAIN rebuilt : \E k \in 1..m - 1 : rebuilt[k].intensity = rebuilt[m].intensity} = {}
    <2>1. ASSUME NEW m \in DOMAIN texts, NEW k \in 1..m - 1 PROVE rebuilt[k].intensity # rebuilt[m].intensity
      <3>1. k \in DOMAIN texts
        OBVIOUS
      <3> QED
        BY <1>2, <1>4, <3>1
    <2> QED
      BY <1>3, <2>1
  <1>7. {rebuilt[n].intensity : n \in DOMAIN rebuilt} = targets
    BY <1>1, <1>3, <1>4
  <1>8. ValidateWriterDraft(rebuilt, targets) \subseteq {"UNKNOWN_EVIDENCE_LABEL"}
    BY <1>5, <1>6, <1>7 DEF ValidateWriterDraft
  <1>9. Len(texts) = Cardinality(targets)
    BY <1>1, <1>2, NoneTwice
  <1> QED
    BY <1>1, <1>8, <1>9 DEF rebuilt

\* A draft that keeps it has no issue as a whole.
LEMMA ValidHasNoDraftIssue ==
    ASSUME NEW texts \in Seq(Text), NEW targets, ValidateWriterDraft(texts, targets) = {}
    PROVE  ApplyTextRules(texts, targets).issues
             \cap (Nat \X {"DUPLICATE_INTENSITY", "INTENSITY_SET_MISMATCH"}) = {}
  <1> DEFINE twice == {"DUPLICATE_INTENSITY" : n \in {m \in DOMAIN texts :
                          \E k \in 1..m - 1 : texts[k].intensity = texts[m].intensity}}
             other == IF {texts[n].intensity : n \in DOMAIN texts} # targets
                      THEN {"INTENSITY_SET_MISMATCH"} ELSE {}
  <1>1. twice = {} /\ other = {}
    BY DEF ValidateWriterDraft
  <1>2. \A n \in DOMAIN texts : ~\E k \in 1..n - 1 : texts[k].intensity = texts[n].intensity
    BY <1>1
  <1>3. {texts[n].intensity : n \in DOMAIN texts} = targets
    BY <1>1
  <1>4. ASSUME NEW n \in DOMAIN texts, NEW code \in OfText(texts, n)
        PROVE  code \notin {"DUPLICATE_INTENSITY", "INTENSITY_SET_MISMATCH"}
    <2>1. code \in RebuildIssues(texts[n], Rebuild(texts[n])) \cup Hits(Rebuild(texts[n]))
      BY <1>2, <1>4 DEF OfText
    <2> QED
      BY <2>1 DEF RebuildIssues, Hits
  <1>5. ASSUME NEW issue \in ApplyTextRules(texts, targets).issues
        PROVE  issue[2] \notin {"DUPLICATE_INTENSITY", "INTENSITY_SET_MISMATCH"}
    BY <1>3, <1>4, IssuesOf
  <1> QED
    BY <1>5

\* What RulesKeepWhatIsSound asks of each text.
OneKept(old, new) ==
    LET sentences(t) == {t.statement[k] : k \in DOMAIN t.statement}
    IN  /\ Sound(old) => new = old
        /\ {i \in sentences(old) : SoundItem(i)} \subseteq sentences(new)
        /\ \A i \in sentences(new) \ sentences(old) :
             i.line.len > 0 /\ ~\E o \in sentences(old) : SoundItem(o)
        /\ EvidenceRefs(new) = UNION {{k} \X (new.statement[k].labels \cap Known) :
                                        k \in DOMAIN new.statement}

\* Of each text is kept what is to be kept.
LEMMA EachKept ==
    ASSUME NEW text \in Text
    PROVE  OneKept(text, Rebuild(text))
  <1> DEFINE new == Rebuild(text)
  <1>1. Sound(text) => new = text
    <2>1. ASSUME Sound(text) PROVE new = text
      <3>1. ~text.headline.ids /\ \A item \in Range(text.statement) : SoundItem(item)
        BY <2>1, SoundIs
      <3>2. \A item \in Range(text.statement) : Grounded(item) /\ NoId(item)
        <4>1. \A item \in Range(text.statement) : item \in Item
          <5>1. text.statement \in Seq(Item)
            BY DEF Text
          <5> QED
            BY <5>1 DEF Range
        <4> QED
          BY <3>1, <4>1, GroundedIsSound
      <3> QED
        BY <3>1, <3>2, RebuildLeaves
    <2> QED
      BY <2>1
  <1>2. /\ \A item \in Range(text.statement) : SoundItem(item) => item \in Range(new.statement)
        /\ \A item \in Range(new.statement) \ Range(text.statement) :
             item.line.len > 0 /\ ~\E old \in Range(text.statement) : SoundItem(old)
    BY RebuildKeeps
  <1>3. /\ Range(text.statement) = {text.statement[k] : k \in DOMAIN text.statement}
        /\ Range(new.statement) = {new.statement[k] : k \in DOMAIN new.statement}
    BY DEF Range
  <1>4. EvidenceRefs(new) = UNION {{k} \X (new.statement[k].labels \cap Known) :
                                     k \in DOMAIN new.statement}
    BY DEF EvidenceRefs
  <1> HIDE DEF new
  <1>5. OneKept(text, new)
    BY <1>1, <1>2, <1>3, <1>4 DEF OneKept
  <1> QED
    BY <1>5 DEF new

\* Rules applied to what they have rebuilt change nothing any more.
LEMMA RulesTwice ==
    ASSUME NEW texts \in Seq(Text), NEW targets
    PROVE  LET rules == ApplyTextRules(texts, targets)
               again == ApplyTextRules(rules.texts, targets)
           IN  rules.texts \in Seq(Text) /\ again.texts = rules.texts /\ again.refs = rules.refs
  <1> DEFINE rules == ApplyTextRules(texts, targets)
             rebuilt == rules.texts
             again == ApplyTextRules(rebuilt, targets)
  <1>1. /\ rebuilt = [n \in DOMAIN texts |-> Rebuild(texts[n])]
        /\ rules.refs = [n \in DOMAIN texts |-> EvidenceRefs(Rebuild(texts[n]))]
    BY DEF ApplyTextRules
  <1>2. /\ again.texts = [n \in DOMAIN rebuilt |-> Rebuild(rebuilt[n])]
        /\ again.refs = [n \in DOMAIN rebuilt |-> EvidenceRefs(Rebuild(rebuilt[n]))]
    <2> HIDE DEF rebuilt
    <2> QED
      BY DEF ApplyTextRules
  <1> HIDE DEF rules, rebuilt, again
  <1>3. DOMAIN rebuilt = DOMAIN texts /\ DOMAIN texts = 1..Len(texts) /\ Len(texts) \in Nat
    BY <1>1
  <1>4. ASSUME NEW n \in DOMAIN texts
        PROVE  rebuilt[n] \in Text /\ Rebuild(rebuilt[n]) = rebuilt[n] /\ rebuilt[n] = Rebuild(texts[n])
    <2>1. texts[n] \in Text
      OBVIOUS
    <2> QED
      BY <1>1, <2>1, RebuildParts, RebuildTwice
  <1>5. rebuilt \in Seq(Text)
    BY <1>1, <1>3, <1>4
  <1>6. again.texts = rebuilt
    BY <1>1, <1>2, <1>3, <1>4
  <1>7. again.refs = rules.refs
    BY <1>1, <1>2, <1>3, <1>4
  <1> QED
    BY <1>5, <1>6, <1>7 DEF rules, rebuilt, again

\* All of it together, for one draft.
LEMMA TextOnce ==
    ASSUME asked.kind = "text", asked.texts \in Seq(Text)
    PROVE  RulesKeepWhatIsSound
  <1> DEFINE texts == asked.texts
             targets == asked.targets
             rules == ApplyTextRules(texts, targets)
             again == ApplyTextRules(rules.texts, targets)
             accepted(n) == \A issue \in rules.issues : issue[1] # n
             fits(t) == /\ t.headline.len <= HeadlineMax
                        /\ Len(t.statement) \in StatementMin..StatementMax
                        /\ FoldLeft(LAMBDA sum, i : sum + i.line.len, 0, t.statement) <= TotalMax
  <1>1. again.texts = rules.texts /\ again.refs = rules.refs
    BY RulesTwice
  <1>2. rules.issues = {} =>
          /\ Len(texts) = Cardinality(targets)
          /\ {texts[n].intensity : n \in DOMAIN texts} = targets
          /\ ValidateWriterDraft(rules.texts, targets) \subseteq {"UNKNOWN_EVIDENCE_LABEL"}
    BY DraftIsValid
  <1>3. ValidateWriterDraft(texts, targets) = {} =>
          rules.issues \cap (Nat \X {"DUPLICATE_INTENSITY", "INTENSITY_SET_MISMATCH"}) = {}
    BY ValidHasNoDraftIssue
  <1>4. ASSUME NEW n \in DOMAIN texts
        PROVE  /\ accepted(n) => Sound(rules.texts[n]) /\ fits(rules.texts[n])
               /\ OneKept(texts[n], rules.texts[n])
               /\ rules.refs[n] = EvidenceRefs(rules.texts[n])
    <2>1. texts[n] \in Text /\ rules.texts[n] = Rebuild(texts[n])
          /\ rules.refs[n] = EvidenceRefs(Rebuild(texts[n]))
      <3>1. /\ rules.texts = [k \in DOMAIN texts |-> Rebuild(texts[k])]
            /\ rules.refs = [k \in DOMAIN texts |-> EvidenceRefs(Rebuild(texts[k]))]
        BY DEF ApplyTextRules
      <3> HIDE DEF rules
      <3>2. texts[n] \in Text
        OBVIOUS
      <3> HIDE DEF texts
      <3> QED
        BY <3>1, <3>2
    <2>2. accepted(n) <=> OfText(texts, n) = {}
      BY IssuesOf
    <2>3. accepted(n) => Sound(rules.texts[n]) /\ fits(rules.texts[n])
      <3>1. ASSUME OfText(texts, n) = {} PROVE Sound(Rebuild(texts[n])) /\ fits(Rebuild(texts[n]))
        BY <3>1, AcceptedIsSound
      <3> HIDE DEF rules, accepted, fits
      <3> QED
        BY <2>1, <2>2, <3>1
    <2>4. OneKept(texts[n], rules.texts[n])
      BY <2>1, EachKept
    <2> QED
      BY <2>1, <2>3, <2>4
  <1> QED
    BY <1>1, <1>2, <1>3, <1>4 DEF RulesKeepWhatIsSound, OneKept, SoundItem

\* The rules keep what is sound, and what they accept is sound, of any text.
THEOREM TextsAreSound == Spec => []RulesKeepWhatIsSound
  <1>1. Asked => RulesKeepWhatIsSound
    <2>1. asked.kind # "text" => RulesKeepWhatIsSound
      BY DEF RulesKeepWhatIsSound
    <2> QED
      BY <2>1, TextOnce DEF Asked
  <1> QED
    BY <1>1, Typing, PTL

-----------------------------------------------------------------------------
(* Cards.                                                                  *)

\* A card without its IDs.
Clear(text) == [text EXCEPT !.headline.ids = FALSE, !.statement[1].line.ids = FALSE]

\* A sequence of one.
LEMMA SequenceOfOne ==
    ASSUME NEW S, NEW s \in Seq(S), Len(s) = 1
    PROVE  s = <<s[1]>> /\ s[1] \in S /\ Range(s) = {s[1]} /\ DOMAIN s = {1}
  <1>1. DOMAIN s = {1} /\ s[1] \in S
    OBVIOUS
  <1>2. s = <<s[1]>>
    OBVIOUS
  <1> QED
    BY <1>1, <1>2 DEF Range

\* A text of one sentence without its IDs is a text.
LEMMA ClearParts ==
    ASSUME NEW text \in Text, Len(text.statement) = 1
    PROVE  /\ Clear(text) \in Text /\ Clear(text).intensity = text.intensity
           /\ Clear(text).headline = Strip(text.headline)
           /\ Clear(text).statement = <<Stripped(text.statement[1])>>
  <1>1. text.statement \in Seq(Item) /\ text.headline \in Line /\ text.intensity \in Intensities
    BY DEF Text
  <1>2. text.statement = <<text.statement[1]>> /\ text.statement[1] \in Item
    BY <1>1, SequenceOfOne
  <1>3. Clear(text) = [text EXCEPT !.headline = Strip(text.headline),
                                   !.statement = [@ EXCEPT ![1] = Stripped(text.statement[1])]]
    BY <1>1, <1>2 DEF Clear, Strip, Stripped, Text, Item, Line
  <1>4. [text.statement EXCEPT ![1] = Stripped(text.statement[1])] = <<Stripped(text.statement[1])>>
    BY <1>2
  <1>5. Strip(text.headline) \in Line /\ Stripped(text.statement[1]) \in Item
    BY <1>1, <1>2, StrippedItem DEF Strip, Line
  <1>6. <<Stripped(text.statement[1])>> \in Seq(Item)
    BY <1>5
  <1> QED
    BY <1>3, <1>4, <1>5, <1>6 DEF Text

\* Of a text of one sentence the rules take only the IDs, or the sentence.
LEMMA RebuildOne ==
    ASSUME NEW text \in Text, Len(text.statement) = 1
    PROVE  LET item == text.statement[1]
           IN  /\ GroundedOnly(text.statement) = <<>> <=> ~Grounded(item)
               /\ IF Grounded(item) /\ (NoId(item) \/ item.line.len > 0)
                  THEN Rebuild(text) = Clear(text)
                  ELSE Rebuild(text).statement = <<>>
  <1> DEFINE item == text.statement[1]
  <1>1. text.statement \in Seq(Item) /\ text.headline \in Line
    BY DEF Text
  <1>2. text.statement = <<item>> /\ item \in Item /\ Range(text.statement) = {item}
    BY <1>1, SequenceOfOne
  <1>3. /\ Rebuild(text).statement = Cleaned(GroundedOnly(text.statement))
        /\ Rebuild(text).headline = Strip(text.headline) /\ Rebuild(text).intensity = text.intensity
        /\ Rebuild(text) \in Text
    BY RebuildParts
  <1>4. /\ Clear(text) \in Text /\ Clear(text).intensity = text.intensity
        /\ Clear(text).headline = Strip(text.headline) /\ Clear(text).statement = <<Stripped(item)>>
    BY ClearParts
  <1> HIDE DEF item
  <1>5. ASSUME NEW s \in Seq(Item), Range(s) = {} PROVE s = <<>>
    <2>1. \A k \in 1..Len(s) : s[k] \in Range(s)
      BY DEF Range
    <2>2. Len(s) \in Nat /\ ~(1 \in 1..Len(s))
      BY <1>5, <2>1
    <2> QED
      BY <2>2
  <1>6. Rebuild(text) = Clear(text) <=> Rebuild(text).statement = <<Stripped(item)>>
    BY <1>3, <1>4 DEF Text
  <1>7. CASE ~Grounded(item)
    <2>1. GroundedOnly(text.statement) \in Seq(Item) /\ Range(GroundedOnly(text.statement)) = {}
      BY <1>1, <1>2, <1>7, GroundedOnlyKeeps
    <2>2. GroundedOnly(text.statement) = <<>>
      BY <1>5, <2>1
    <2>3. Cleaned(<<>>) = <<>>
      <3>1. <<>> \in Seq(Item) /\ \A i \in Range(<<>>) : NoId(i)
        BY DEF Range
      <3> QED
        BY <3>1, CleanedKeeps
    <2> QED
      BY <1>3, <1>7, <2>2, <2>3 DEF item
  <1>8. CASE Grounded(item)
    <2>1. GroundedOnly(text.statement) = <<item>> /\ <<item>> # <<>> /\ <<item>> \in Seq(Item)
          /\ Range(<<item>>) = {item}
      <3>1. GroundedOnly(text.statement) = text.statement
        BY <1>1, <1>2, <1>8, GroundedOnlyKeeps
      <3> QED
        BY <1>1, <1>2, <3>1
    <2>2. Rebuild(text).statement = Cleaned(<<item>>)
      BY <1>3, <2>1
    <2>3. CASE NoId(item)
      <3>1. Cleaned(<<item>>) = <<item>>
        BY <2>1, <2>3, CleanedKeeps
      <3>2. Stripped(item) = item
        BY <1>2, <2>3 DEF NoId, Stripped, Strip, Item, Line
      <3> QED
        BY <1>6, <1>8, <2>1, <2>2, <2>3, <3>1, <3>2 DEF item
    <2>4. CASE ~NoId(item)
      <3> DEFINE clean == Select(<<item>>, {i \in Range(<<item>>) : NoId(i)})
                 P == {i \in Range(<<Stripped(item)>>) : i.line.len > 0}
      <3>1. clean = <<>>
        <4> DEFINE K == {i \in Range(<<item>>) : NoId(i)}
        <4>1. K = {}
          BY <2>1, <2>4
        <4> HIDE DEF K
        <4>2. Select(<<item>>, K) \in Seq(Item) /\ Range(Select(<<item>>, K)) = Range(<<item>>) \cap K
          BY <2>1, SelectKeeps
        <4>3. Select(<<item>>, K) = <<>>
          BY <1>5, <4>1, <4>2
        <4> QED
          BY <4>3 DEF K
      <3>2. [k \in DOMAIN <<item>> |-> IF NoId(<<item>>[k]) THEN <<item>>[k] ELSE Stripped(<<item>>[k])]
              = <<Stripped(item)>>
        BY <2>4
      <3>3. Cleaned(<<item>>) = Select(<<Stripped(item)>>, P)
        <4>1. Len(<<item>>) = 1 /\ Len(<<>>) = 0 /\ StatementMin = 1
          BY TextAssumption
        <4> HIDE DEF clean
        <4>2. ~(Len(clean) = Len(<<item>>) \/ Len(clean) >= StatementMin)
          BY <3>1, <4>1
        <4> QED
          BY <3>2, <4>2 DEF Cleaned, clean
      <3>4. <<Stripped(item)>> \in Seq(Item) /\ Range(<<Stripped(item)>>) = {Stripped(item)}
            /\ Stripped(item).line.len = item.line.len
        <4>1. Stripped(item) \in Item
          BY <1>2, StrippedItem
        <4>2. Len(<<Stripped(item)>>) = 1 /\ <<Stripped(item)>>[1] = Stripped(item)
          OBVIOUS
        <4>3. <<Stripped(item)>> \in Seq(Item)
          BY <4>1
        <4>4. Range(<<Stripped(item)>>) = {Stripped(item)}
          BY <4>2, <4>3, SequenceOfOne
        <4>5. Stripped(item).line.len = item.line.len
          BY <1>2 DEF Stripped, Strip, Item, Line
        <4> QED
          BY <4>3, <4>4, <4>5
      <3>5. CASE item.line.len > 0
        <4>1. Range(<<Stripped(item)>>) \subseteq P
          BY <3>4, <3>5
        <4> HIDE DEF P
        <4>2. Select(<<Stripped(item)>>, P) = <<Stripped(item)>>
          BY <3>4, <4>1, SelectKeeps
        <4> QED
          BY <1>6, <1>8, <2>1, <2>2, <2>4, <3>3, <3>5, <4>2 DEF item
      <3>6. CASE ~(item.line.len > 0)
        <4>1. Range(<<Stripped(item)>>) \cap P = {}
          BY <3>4, <3>6
        <4> HIDE DEF P
        <4>2. Select(<<Stripped(item)>>, P) \in Seq(Item) /\ Range(Select(<<Stripped(item)>>, P)) = {}
          BY <3>4, <4>1, SelectKeeps
        <4>3. Select(<<Stripped(item)>>, P) = <<>>
          BY <1>5, <4>2
        <4> QED
          BY <1>8, <2>1, <2>2, <2>4, <3>3, <3>6, <4>3 DEF item
      <3> QED
        BY <3>5, <3>6
    <2> QED
      BY <2>3, <2>4
  <1> QED
    BY <1>7, <1>8

\* The length of a text of one sentence.
LEMMA TotalOne ==
    ASSUME NEW item \in Item
    PROVE  Total(<<item>>) = Length(item.line)
  <1> DEFINE s == <<item>>
             sums == CHOOSE iter : AddsLength(iter, s)
  <1>1. s \in Seq(Item) /\ Len(s) = 1 /\ DOMAIN s = {1} /\ s[1] = item
    OBVIOUS
  <1> HIDE DEF s
  <1>2. AddsLength(sums, s)
    <2>1. Len(s) \in 0..Len(s) /\ DOMAIN s = 1..Len(s)
      BY <1>1
    <2>2. PICK iter : iter = [U \in SUBSET (1..Len(s)) |->
                                IF U = {} THEN 0 ELSE iter[U \ {Max(U)}] + Length(s[Max(U)].line)]
      BY <1>1, <2>1, SumsExist
    <2>3. AddsLength(iter, s)
      BY <2>1, <2>2 DEF AddsLength
    <2> QED
      BY <2>3
  <1>3. Total(s) = sums[DOMAIN s]
    BY DEF Total, FoldLeft, MapThenFoldSet, AddsLength
  <1> HIDE DEF sums
  <1>4. Max({1}) = 1
    BY DEF Max
  <1>5. sums[{}] = 0
    BY <1>2 DEF AddsLength
  <1>6. {1} \ {1} = {} /\ {1} # {} /\ {1} \in SUBSET DOMAIN s
    BY <1>1
  <1>7. sums[{1}] = sums[{}] + Length(s[1].line)
    BY <1>2, <1>4, <1>6 DEF AddsLength
  <1>8. Length(item.line) \in Nat
    BY TextAssumption DEF Length, Item, Line
  <1> QED
    BY <1>1, <1>3, <1>5, <1>7, <1>8 DEF s

\* A text of decent lines has no hit.
LEMMA DecentHasNoHit ==
    ASSUME NEW text \in Text, \A line \in Lines(text) : Decent(line, text.intensity)
    PROVE  Hits(text) = {}
  <1> DEFINE words == UNION {one.words : one \in Lines(text)}
             i == text.intensity
  <1>1. i \in Intensities
    BY DEF Text
  <1>2. ASSUME NEW w \in words
        PROVE  /\ w # "never" /\ (w = "rude" => i = "hell") /\ (w = "rough" => i # "mild")
               /\ (w = "plain" => i # "mild")
    <2>1. PICK line \in Lines(text) : w \in line.words
      BY <1>2
    <2>2. Decent(line, i)
      OBVIOUS
    <2> HIDE DEF i
    <2> QED
      BY <1>1, <2>1, <2>2 DEF Decent, Words, Intensities
  <1>3. Hits(text) = {w \in words :
           \/ w = "rude" /\ Applies("PROFANITY", i)
           \/ w = "rough" /\ Applies("PROFANITY", i) /\ i # "spicy"
           \/ w = "plain" /\ Applies("BANMAL", i)
           \/ w = "never" /\ Applies("DEATH_WORDS", i)}
    BY DEF Hits
  <1> HIDE DEF words, i
  <1>4. ASSUME NEW w \in Hits(text) PROVE FALSE
    <2>1. /\ w \in words
          /\ \/ w = "rude" /\ Applies("PROFANITY", i)
             \/ w = "rough" /\ Applies("PROFANITY", i) /\ i # "spicy"
             \/ w = "plain" /\ Applies("BANMAL", i)
             \/ w = "never" /\ Applies("DEATH_WORDS", i)
      BY <1>3, <1>4
    <2>2. Applies("PROFANITY", i) => i \in {"mild", "spicy"}
      BY DEF Applies
    <2>3. Applies("BANMAL", i) => i = "mild"
      BY DEF Applies
    <2> QED
      BY <1>2, <2>1, <2>2, <2>3
  <1> QED
    BY <1>4

\* A text of one sentence passes the rules and the card contract just if the
\* rules can make a card of it.
KeepsRules(text) ==
    /\ Card(Rebuild(text)) /\ Hits(Rebuild(text)) = {}
    /\ RebuildIssues(text, Rebuild(text)) = {}

\* What can be shown passes the rules, and is a card then.
LEMMA ShownPasses ==
    ASSUME NEW text \in Text, Len(text.statement) = 1, CanBeShown(text)
    PROVE  KeepsRules(text) /\ Rebuild(text) = Clear(text)
  <1> DEFINE item == text.statement[1]
             new == Clear(text)
  <1>1. text.statement \in Seq(Item) /\ text.headline \in Line
    BY DEF Text
  <1>2. item \in Item
    BY <1>1, SequenceOfOne
  <1>3. /\ new \in Text /\ new.intensity = text.intensity
        /\ new.headline = Strip(text.headline) /\ new.statement = <<Stripped(item)>>
    BY ClearParts
  <1>4. /\ text.headline.len \in 1..CardHeadlineMax /\ item.line.len \in 1..CardStatementMax /\ Sound(new)
    BY DEF CanBeShown, Clear
  <1> HIDE DEF new, item
  <1>5. Stripped(item) \in Item /\ NoId(Stripped(item)) /\ Stripped(item).line.len = item.line.len
        /\ Stripped(item).kind = item.kind /\ Stripped(item).labels = item.labels
    BY <1>2, StrippedItem DEF Stripped, Strip, Item, Line
  <1>6. Stripped(item) \in Range(new.statement)
    <2>1. Stripped(item) = <<Stripped(item)>>[1] /\ 1 \in DOMAIN <<Stripped(item)>>
      OBVIOUS
    <2> QED
      BY <1>3, <2>1 DEF Range
  <1>7. Grounded(item)
    <2>1. SoundItem(Stripped(item))
      BY <1>3, <1>4, <1>6, SoundIs
    <2>2. Grounded(Stripped(item))
      BY <1>5, <2>1, GroundedIsSound
    <2> QED
      BY <1>5, <2>2 DEF Grounded
  <1>8. item.line.len > 0
    BY <1>2, <1>4, TextAssumption DEF Item, Line
  <1>9. Rebuild(text) = new /\ GroundedOnly(text.statement) # <<>>
    BY <1>7, <1>8, RebuildOne DEF item, new
  <1>10. /\ Length(new.headline) = text.headline.len /\ text.headline.len \in Nat
         /\ Length(Stripped(item).line) = item.line.len /\ item.line.len \in Nat
    BY <1>1, <1>2, <1>3, <1>5 DEF Length, Strip, Line, NoId, Item
  <1>11. Len(new.statement) = 1 /\ new.statement[1] = Stripped(item)
    BY <1>3
  <1>12. Card(new)
    BY <1>4, <1>10, <1>11 DEF Card
  <1>13. Total(new.statement) = item.line.len
    BY <1>3, <1>5, <1>10, TotalOne
  <1>14. /\ ~(Length(new.headline) > HeadlineMax) /\ ~(Total(new.statement) > TotalMax)
         /\ Len(new.statement) \in StatementMin..StatementMax
    BY <1>4, <1>10, <1>11, <1>13, TextAssumption
  <1>15. RebuildIssues(text, new) = {}
    BY <1>9, <1>14 DEF RebuildIssues
  <1>16. Hits(new) = {}
    <2>1. \A line \in Lines(new) : Decent(line, new.intensity)
      BY <1>4 DEF Sound
    <2> QED
      BY <1>3, <2>1, DecentHasNoHit
  <1> QED
    BY <1>9, <1>12, <1>15, <1>16 DEF KeepsRules, new

\* What passes can be shown.
LEMMA PassesShown ==
    ASSUME NEW text \in Text, Len(text.statement) = 1, KeepsRules(text)
    PROVE  CanBeShown(text)
  <1> DEFINE item == text.statement[1]
             new == Rebuild(text)
  <1>1. text.statement \in Seq(Item) /\ text.headline \in Line
    BY DEF Text
  <1>2. item \in Item
    BY <1>1, SequenceOfOne
  <1>3. Card(new) /\ Hits(new) = {} /\ new \in Text
    BY RebuildParts DEF KeepsRules
  <1>4. new = Clear(text)
    <2>1. Len(new.statement) = 1
      BY <1>3 DEF Card
    <2>2. new.statement # <<>>
      <3> HIDE DEF new
      <3> QED
        BY <2>1
    <2> QED
      BY <2>2, RebuildOne
  <1>5. /\ new.headline = Strip(text.headline) /\ new.statement = <<Stripped(item)>>
        /\ new.intensity = text.intensity
    BY <1>4, ClearParts
  <1>6. \A i \in Range(new.statement) : i \in Item /\ Grounded(i) /\ NoId(i)
    BY RebuildGrounds
  <1>7. ~new.headline.ids
    BY RebuildParts
  <1> HIDE DEF new, item
  <1>8. Sound(new)
    <2>1. \A i \in Range(new.statement) : SoundItem(i)
      BY <1>6, GroundedIsSound
    <2>2. \A i \in Range(new.statement) : i.line \in Lines(new)
      BY DEF Lines, Range
    <2>3. new.headline \in Lines(new)
      BY DEF Lines
    <2> QED
      BY <1>3, <1>7, <2>1, <2>2, <2>3, SoundIs, NoHitIsDecent
  <1>9. /\ Length(new.headline) = text.headline.len
        /\ Length(new.statement[1].line) = item.line.len
    <2>1. Stripped(item) \in Item /\ NoId(Stripped(item)) /\ Stripped(item).line.len = item.line.len
      BY <1>2, StrippedItem DEF Stripped, Strip, Item, Line
    <2>2. new.statement[1] = Stripped(item)
      BY <1>5
    <2> QED
      BY <1>1, <1>2, <1>5, <2>1, <2>2 DEF Length, Strip, Line, NoId, Item
  <1>10. text.headline.len \in 1..CardHeadlineMax /\ item.line.len \in 1..CardStatementMax
    BY <1>3, <1>9 DEF Card
  <1> QED
    BY <1>4, <1>8, <1>10 DEF CanBeShown, Clear, item

-----------------------------------------------------------------------------
(* assemble.                                                               *)

\* Drafts of one sentence each, one for each target.
Drafts(texts, sources, targets) ==
    /\ texts \in Seq(Text) /\ \A n \in DOMAIN texts : Len(texts[n].statement) = 1
    /\ sources \in [DOMAIN texts -> {"AI", "TEMPLATE"}]
    /\ targets = {texts[n].intensity : n \in DOMAIN texts}
    /\ \A m, n \in DOMAIN texts : (texts[m].intensity = texts[n].intensity => m = n)

Unfit(texts) == {n \in DOMAIN texts : ~CanBeShown(texts[n])}

\* Of such drafts the rules and the card contract reject what is unfit.
LEMMA RejectedIsUnfit ==
    ASSUME NEW texts, NEW sources, NEW targets, Drafts(texts, sources, targets)
    PROVE  LET rules == ApplyTextRules(texts, targets)
           IN  /\ rules.texts = [n \in DOMAIN texts |-> Rebuild(texts[n])]
               /\ Rejected(rules) = Unfit(texts)
               /\ ~\E issue \in rules.issues : issue[1] = 0
  <1> DEFINE rules == ApplyTextRules(texts, targets)
  <1>1. texts \in Seq(Text) /\ {texts[n].intensity : n \in DOMAIN texts} = targets
    BY DEF Drafts
  <1>2. rules.texts = [n \in DOMAIN texts |-> Rebuild(texts[n])]
    BY DEF ApplyTextRules
  <1>3. \A issue \in rules.issues : issue[1] # 0
    BY <1>1, IssuesOf
  <1>4. \A n \in DOMAIN texts : (\A issue \in rules.issues : issue[1] # n) <=> OfText(texts, n) = {}
    BY <1>1, IssuesOf
  <1> HIDE DEF rules
  <1>5. ASSUME NEW n \in DOMAIN texts PROVE n \in Rejected(rules) <=> n \in Unfit(texts)
    <2>1. texts[n] \in Text /\ Len(texts[n].statement) = 1
      BY <1>1 DEF Drafts
    <2>2. n \in Rejected(rules) <=> ~(Card(Rebuild(texts[n])) /\ OfText(texts, n) = {})
      BY <1>2, <1>4 DEF Rejected
    <2>3. ~\E m \in 1..n - 1 : texts[m].intensity = texts[n].intensity
      <3>1. ASSUME NEW m \in 1..n - 1 PROVE m \in DOMAIN texts /\ m # n
        BY <1>1
      <3> QED
        BY <3>1 DEF Drafts
    <2>4. OfText(texts, n) = {} <=> Hits(Rebuild(texts[n])) = {} /\ RebuildIssues(texts[n], Rebuild(texts[n])) = {}
      BY <2>3 DEF OfText
    <2>5. CanBeShown(texts[n]) <=> KeepsRules(texts[n])
      BY <2>1, ShownPasses, PassesShown
    <2> QED
      BY <2>2, <2>4, <2>5 DEF KeepsRules, Unfit
  <1>6. Rejected(rules) \subseteq DOMAIN texts /\ Unfit(texts) \subseteq DOMAIN texts
    BY <1>2 DEF Rejected, Unfit
  <1> QED
    BY <1>2, <1>3, <1>5, <1>6 DEF rules

\* The template in place of what is unfit.
Replaced(texts, template) ==
    [n \in DOMAIN texts |->
       IF n \in Unfit(texts) THEN [template[1] EXCEPT !.intensity = texts[n].intensity] ELSE texts[n]]

ReplacedSources(texts, sources) ==
    [n \in DOMAIN texts |-> IF n \in Unfit(texts) THEN "TEMPLATE" ELSE sources[n]]

\* What a turn does, by what is unfit.
TurnsOut(result, texts, sources, template, regenerate, mayRepair) ==
    LET bad == Unfit(texts)
        templated == {n \in bad : sources[n] = "TEMPLATE"}
        allTemplates == \A n \in DOMAIN texts : sources[n] = "TEMPLATE"
        repairs == mayRepair /\ templated = {}
    IN  /\ bad = {} /\ allTemplates => result.kind = "failure"
        /\ bad = {} /\ ~allTemplates =>
             result = [kind |-> "texts", texts |-> [n \in DOMAIN texts |-> Rebuild(texts[n])],
                       sources |-> sources]
        /\ bad # {} /\ regenerate => result.kind = "failure"
        /\ bad # {} /\ ~regenerate /\ repairs => result = [kind |-> "repair", bad |-> bad]
        /\ bad # {} /\ ~regenerate /\ ~repairs /\ (template = <<>> \/ templated # {}) =>
             result.kind = "failure"
        /\ bad # {} /\ ~regenerate /\ ~repairs /\ template # <<>> /\ templated = {} =>
             result = [kind |-> "again",
                       texts |-> Replaced(texts, template),
                       sources |-> ReplacedSources(texts, sources)]

LEMMA TurnIs ==
    ASSUME NEW texts, NEW sources, NEW targets, Drafts(texts, sources, targets), NEW template,
           NEW regenerate \in BOOLEAN, NEW mayRepair \in BOOLEAN
    PROVE  TurnsOut(Turn(texts, sources, targets, template, regenerate, mayRepair),
                    texts, sources, template, regenerate, mayRepair)
  <1> DEFINE rules == ApplyTextRules(texts, targets)
             bad == Rejected(rules)
             byRule == {n \in bad : \E issue \in rules.issues : issue[1] = n}
             least(S) == CHOOSE n \in S : \A m \in S : n <= m
             first == least(IF byRule # {} THEN byRule ELSE bad)
             templated == {n \in bad : sources[n] = "TEMPLATE"}
             drafted == rules.texts
             code == IF first \in templated THEN "SCHEMA_INVALID" ELSE "EVAL_FAILED"
  <1>1. /\ drafted = [n \in DOMAIN texts |-> Rebuild(texts[n])] /\ bad = Unfit(texts)
        /\ ~\E issue \in rules.issues : issue[1] = 0
    BY RejectedIsUnfit
  <1>2. Turn(texts, sources, targets, template, regenerate, mayRepair) =
          IF \E issue \in rules.issues : issue[1] = 0 THEN Failure("SCHEMA_INVALID")
          ELSE IF bad = {}
          THEN IF \A n \in DOMAIN texts : sources[n] = "TEMPLATE" THEN Failure("EVAL_FAILED")
               ELSE [kind |-> "texts", texts |-> drafted, sources |-> sources]
          ELSE IF regenerate THEN Failure("EVAL_FAILED")
          ELSE IF mayRepair /\ templated = {} THEN [kind |-> "repair", bad |-> bad]
          ELSE IF template = <<>> THEN Failure(code)
          ELSE IF templated # {} THEN Failure("SCHEMA_INVALID")
          ELSE [kind |-> "again",
                texts |-> [n \in DOMAIN texts |->
                             IF n \in bad THEN [template[1] EXCEPT !.intensity = texts[n].intensity]
                             ELSE texts[n]],
                sources |-> [n \in DOMAIN texts |-> IF n \in bad THEN "TEMPLATE" ELSE sources[n]]]
    BY DEF Turn
  <1>3. templated = {n \in Unfit(texts) : sources[n] = "TEMPLATE"}
    BY <1>1
  <1>4. \A c : Failure(c).kind = "failure"
    BY DEF Failure
  <1> HIDE DEF rules, bad, byRule, least, first, templated, drafted, code
  <1> QED
    BY <1>1, <1>2, <1>3, <1>4 DEF TurnsOut, Replaced, ReplacedSources

\* A card as it is shown can be shown, and is the same.
LEMMA ShownAgain ==
    ASSUME NEW text \in Text, Len(text.statement) = 1, CanBeShown(text)
    PROVE  /\ Rebuild(text) \in Text /\ Len(Rebuild(text).statement) = 1
           /\ Rebuild(text).intensity = text.intensity
           /\ Sound(Rebuild(text)) /\ Card(Rebuild(text)) /\ CanBeShown(Rebuild(text))
  <1> DEFINE new == Rebuild(text)
  <1>1. /\ Card(new) /\ Hits(new) = {} /\ RebuildIssues(text, new) = {} /\ new = Clear(text)
    BY ShownPasses DEF KeepsRules
  <1>2. new \in Text /\ new.intensity = text.intensity /\ Rebuild(new) = new
    BY RebuildParts, RebuildTwice
  <1>3. Sound(new)
    BY <1>1 DEF CanBeShown, Clear
  <1>4. \A i \in Range(new.statement) : Grounded(i)
    BY RebuildGrounds
  <1> HIDE DEF new
  <1>5. Len(new.statement) = 1 /\ new.statement \in Seq(Item)
    BY <1>1, <1>2 DEF Card, Text
  <1>6. GroundedOnly(new.statement) = new.statement /\ new.statement # <<>>
    <2> DEFINE s == new.statement
    <2>1. s \in Seq(Item) /\ Len(s) = 1 /\ \A i \in Range(s) : Grounded(i)
      BY <1>4, <1>5
    <2> HIDE DEF s
    <2>2. GroundedOnly(s) = s
      BY <2>1, GroundedOnlyKeeps
    <2>3. s # <<>>
      BY <2>1
    <2> QED
      BY <2>2, <2>3 DEF s
  <1>7. "SCHEMA_INVALID" \notin RebuildIssues(text, new)
    BY <1>1
  <1>8. RebuildIssues(new, new) = {}
    BY <1>6, <1>7 DEF RebuildIssues
  <1>9. KeepsRules(new)
    BY <1>1, <1>2, <1>8 DEF KeepsRules
  <1> QED
    BY <1>1, <1>2, <1>3, <1>5, <1>9, PassesShown DEF new

\* Texts that are cards, and that assemble returns as they are.
StayAsTheyAre(shown, sources, targets, template, regenerate, mayRepair) ==
    /\ \A n \in DOMAIN shown : Sound(shown[n]) /\ Card(shown[n])
    /\ Assemble(shown, sources, targets, template, regenerate, mayRepair)
         = [kind |-> "texts", texts |-> shown, sources |-> sources]

\* Drafts that can all be shown are shown, and shown again they are the same.
LEMMA AllShown ==
    ASSUME NEW texts, NEW sources, NEW targets, Drafts(texts, sources, targets),
           NEW template, NEW regenerate \in BOOLEAN, NEW mayRepair \in BOOLEAN,
           Unfit(texts) = {}, ~\A n \in DOMAIN texts : sources[n] = "TEMPLATE"
    PROVE  StayAsTheyAre([n \in DOMAIN texts |-> Rebuild(texts[n])], sources, targets,
                         template, regenerate, mayRepair)
  <1> DEFINE shown == [n \in DOMAIN texts |-> Rebuild(texts[n])]
             offered == IF template # <<>> /\ Card(template[1]) THEN template ELSE <<>>
             result == [kind |-> "texts", texts |-> shown, sources |-> sources]
  <1>1. ASSUME NEW n \in DOMAIN texts
        PROVE  /\ Rebuild(texts[n]) \in Text /\ Len(Rebuild(texts[n]).statement) = 1
               /\ Rebuild(texts[n]).intensity = texts[n].intensity
               /\ Sound(Rebuild(texts[n])) /\ Card(Rebuild(texts[n])) /\ CanBeShown(Rebuild(texts[n]))
               /\ Rebuild(Rebuild(texts[n])) = Rebuild(texts[n])
    <2>1. texts[n] \in Text /\ Len(texts[n].statement) = 1 /\ CanBeShown(texts[n])
      BY DEF Drafts, Unfit
    <2> QED
      BY <2>1, ShownAgain, RebuildTwice
  <1>2. DOMAIN shown = DOMAIN texts /\ \A n \in DOMAIN texts : shown[n] = Rebuild(texts[n])
    OBVIOUS
  <1>3. Drafts(shown, sources, targets)
    <2>1. DOMAIN texts = 1..Len(texts) /\ Len(texts) \in Nat
      BY DEF Drafts
    <2>2. shown \in Seq(Text)
      BY <1>1, <2>1
    <2> HIDE DEF shown
    <2>3. {shown[n].intensity : n \in DOMAIN shown} = {texts[n].intensity : n \in DOMAIN texts}
      BY <1>1, <1>2
    <2>4. \A m, n \in DOMAIN shown : (shown[m].intensity = shown[n].intensity => m = n)
      BY <1>1, <1>2 DEF Drafts
    <2>5. \A n \in DOMAIN shown : Len(shown[n].statement) = 1
      BY <1>1, <1>2
    <2> QED
      BY <1>2, <2>2, <2>3, <2>4, <2>5 DEF Drafts
  <1>4. [n \in DOMAIN shown |-> Rebuild(shown[n])] = shown
    BY <1>1, <1>2
  <1> HIDE DEF shown
  <1>5. Unfit(shown) = {}
    BY <1>1, <1>2 DEF Unfit
  <1>6. Turn(shown, sources, targets, offered, regenerate, mayRepair) = result
    <2> HIDE DEF offered
    <2>1. ~\A n \in DOMAIN shown : sources[n] = "TEMPLATE"
      BY <1>2
    <2> QED
      BY <1>3, <1>4, <1>5, <2>1, TurnIs DEF TurnsOut
  <1>7. Assemble(shown, sources, targets, template, regenerate, mayRepair) = result
    <2>1. result.kind = "texts"
      OBVIOUS
    <2> HIDE DEF result
    <2> QED
      BY <1>6, <2>1 DEF Assemble
  <1> QED
    BY <1>1, <1>2, <1>7 DEF shown, StayAsTheyAre

\* They are drafts of the same targets, and unfit only where the template is.
LEMMA ReplacedDrafts ==
    ASSUME NEW texts, NEW sources, NEW targets, Drafts(texts, sources, targets), NEW template,
           template[1] \in Text, Len(template[1].statement) = 1
    PROVE  /\ Drafts(Replaced(texts, template), ReplacedSources(texts, sources), targets)
           /\ Unfit(Replaced(texts, template)) \subseteq Unfit(texts)
           /\ \A n \in Unfit(Replaced(texts, template)) :
                ~CanBeShown([template[1] EXCEPT !.intensity = texts[n].intensity])
  <1> DEFINE new == Replaced(texts, template)
             from == ReplacedSources(texts, sources)
             put(n) == [template[1] EXCEPT !.intensity = texts[n].intensity]
  <1>1. /\ texts \in Seq(Text) /\ DOMAIN texts = 1..Len(texts) /\ Len(texts) \in Nat
        /\ sources \in [DOMAIN texts -> {"AI", "TEMPLATE"}]
    BY DEF Drafts
  <1>2. ASSUME NEW n \in DOMAIN texts
        PROVE  put(n) \in Text /\ put(n).intensity = texts[n].intensity /\ Len(put(n).statement) = 1
    <2>1. texts[n] \in Text
      BY <1>1
    <2>2. texts[n].intensity \in Intensities
      BY <2>1 DEF Text
    <2> QED
      BY <2>2 DEF Text
  <1>3. /\ DOMAIN new = DOMAIN texts /\ DOMAIN from = DOMAIN texts
        /\ \A n \in DOMAIN texts : new[n] = IF n \in Unfit(texts) THEN put(n) ELSE texts[n]
        /\ \A n \in DOMAIN texts : from[n] = IF n \in Unfit(texts) THEN "TEMPLATE" ELSE sources[n]
    BY DEF Replaced, ReplacedSources
  <1>4. new \in [1..Len(texts) -> Text]
    <2>1. \A n \in DOMAIN texts : new[n] \in Text
      <3> HIDE DEF new, put
      <3> QED
        BY <1>1, <1>2, <1>3
    <2> QED
      BY <1>1, <2>1 DEF Replaced
  <1>5. from \in [DOMAIN texts -> {"AI", "TEMPLATE"}]
    BY <1>1 DEF ReplacedSources
  <1> HIDE DEF new, from, put
  <1>6. new \in Seq(Text)
    BY <1>1, <1>4
  <1>7. \A n \in DOMAIN texts : new[n].intensity = texts[n].intensity /\ Len(new[n].statement) = 1
    BY <1>2, <1>3 DEF Drafts
  <1>8. {new[n].intensity : n \in DOMAIN new} = {texts[n].intensity : n \in DOMAIN texts}
    BY <1>3, <1>7
  <1>9. \A m, n \in DOMAIN new : (new[m].intensity = new[n].intensity => m = n)
    BY <1>3, <1>7 DEF Drafts
  <1>10. Drafts(new, from, targets)
    BY <1>3, <1>5, <1>6, <1>7, <1>8, <1>9 DEF Drafts
  <1>11. \A n \in Unfit(new) : n \in Unfit(texts) /\ ~CanBeShown(put(n))
    BY <1>3 DEF Unfit
  <1> QED
    BY <1>10, <1>11 DEF new, from, put

\* How assemble ends.
EndsAs(result, texts, sources, targets, template, regenerate, mayRepair) ==
    LET lost == Unfit(texts)
        ai == {n \in DOMAIN texts : sources[n] = "AI"}
        new == Replaced(texts, template)
        from == ReplacedSources(texts, sources)
    IN  \/ /\ lost = {} /\ ai # {}
           /\ result = [kind |-> "texts", texts |-> [n \in DOMAIN texts |-> Rebuild(texts[n])],
                        sources |-> sources]
        \/ /\ lost # {} /\ lost \subseteq ai /\ mayRepair /\ ~regenerate
           /\ result = [kind |-> "repair", bad |-> lost]
        \/ /\ lost # {} /\ lost \subseteq ai /\ ~(ai \subseteq lost)
           /\ Drafts(new, from, targets) /\ Unfit(new) = {}
           /\ result = [kind |-> "texts", texts |-> [n \in DOMAIN new |-> Rebuild(new[n])],
                        sources |-> from]
        \/ /\ result.kind = "failure"
           /\ \/ ai \subseteq lost \/ ~(lost \subseteq ai) \/ regenerate
              \/ template = <<>>
              \/ ~Card(template[1]) /\ lost # {}
              \/ \E n \in lost : ~CanBeShown([template[1] EXCEPT !.intensity = texts[n].intensity])

LEMMA AssembleEnds ==
    ASSUME NEW texts, NEW sources, NEW targets, Drafts(texts, sources, targets), NEW template,
           NEW regenerate \in BOOLEAN, NEW mayRepair \in BOOLEAN,
           template # <<>> => template[1] \in Text /\ Len(template[1].statement) = 1
    PROVE  EndsAs(Assemble(texts, sources, targets, template, regenerate, mayRepair),
                  texts, sources, targets, template, regenerate, mayRepair)
  <1> DEFINE offered == IF template # <<>> /\ Card(template[1]) THEN template ELSE <<>>
             first == Turn(texts, sources, targets, offered, regenerate, mayRepair)
             lost == Unfit(texts)
             ai == {n \in DOMAIN texts : sources[n] = "AI"}
             new == Replaced(texts, template)
             from == ReplacedSources(texts, sources)
             templated == {n \in lost : sources[n] = "TEMPLATE"}
             allTemplates == \A n \in DOMAIN texts : sources[n] = "TEMPLATE"
             repairs == mayRepair /\ templated = {}
             result == Assemble(texts, sources, targets, template, regenerate, mayRepair)
             second == Turn(first.texts, first.sources, targets, offered, regenerate, mayRepair)
  <1> DEFINE ends == EndsAs(result, texts, sources, targets, template, regenerate, mayRepair)
  <1> SUFFICES ends
    OBVIOUS
  <1>1. lost \subseteq DOMAIN texts /\ \A n \in DOMAIN texts : sources[n] \in {"AI", "TEMPLATE"}
    BY DEF Unfit, Drafts
  <1>2. (templated = {} <=> lost \subseteq ai) /\ (allTemplates <=> ai = {})
    BY <1>1
  <1>3. /\ first.kind # "again" => result = first
        /\ first.kind = "again" /\ second.kind # "again" => result = second
    BY DEF Assemble
  <1>4. /\ lost = {} /\ allTemplates => first.kind = "failure"
        /\ lost = {} /\ ~allTemplates =>
             first = [kind |-> "texts", texts |-> [n \in DOMAIN texts |-> Rebuild(texts[n])],
                      sources |-> sources]
        /\ lost # {} /\ regenerate => first.kind = "failure"
        /\ lost # {} /\ ~regenerate /\ repairs => first = [kind |-> "repair", bad |-> lost]
        /\ lost # {} /\ ~regenerate /\ ~repairs /\ (offered = <<>> \/ templated # {}) =>
             first.kind = "failure"
        /\ lost # {} /\ ~regenerate /\ ~repairs /\ offered # <<>> /\ templated = {} =>
             first = [kind |-> "again", texts |-> Replaced(texts, offered), sources |-> from]
    <2>1. TurnsOut(first, texts, sources, offered, regenerate, mayRepair)
      BY TurnIs
    <2> HIDE DEF first, offered
    <2> QED
      BY <2>1 DEF TurnsOut
  <1>5. CASE lost = {}
    <2>1. allTemplates => ai \subseteq lost
      BY <1>2
    <2> HIDE DEF first, result, lost, ai, allTemplates
    <2> QED
      BY <1>2, <1>3, <1>4, <1>5, <2>1 DEF EndsAs, lost, ai
  <1>6. CASE lost # {} /\ regenerate
    <2> HIDE DEF first, result, lost, ai, allTemplates
    <2> QED
      BY <1>3, <1>4, <1>6 DEF EndsAs, lost, ai
  <1>7. CASE lost # {} /\ ~regenerate /\ repairs
    <2> HIDE DEF first
    <2>1. first = [kind |-> "repair", bad |-> lost]
      BY <1>4, <1>7
    <2>2. first.kind = "repair"
      BY <2>1
    <2>3. result = first
      BY <1>3, <2>2
    <2> HIDE DEF result, lost, ai, allTemplates
    <2> QED
      BY <1>2, <1>7, <2>1, <2>3 DEF EndsAs, lost, ai
  <1>8. CASE lost # {} /\ ~regenerate /\ ~repairs /\ (offered = <<>> \/ templated # {})
    <2>1. first.kind = "failure" /\ result = first
      BY <1>3, <1>4, <1>8
    <2>2. offered = <<>> => template = <<>> \/ ~Card(template[1])
      OBVIOUS
    <2> HIDE DEF first, result, lost, ai, allTemplates, offered, templated
    <2> QED
      BY <1>2, <1>8, <2>1, <2>2 DEF EndsAs, lost, ai
  <1>9. CASE lost # {} /\ ~regenerate /\ ~repairs /\ offered # <<>> /\ templated = {}
    <2>1. offered = template /\ template # <<>> /\ Card(template[1])
      BY <1>9
    <2>2. first.kind = "again" /\ first.texts = new /\ first.sources = from
      <3> HIDE DEF first
      <3>1. first = [kind |-> "again", texts |-> Replaced(texts, offered), sources |-> from]
        BY <1>4, <1>9
      <3> QED
        BY <2>1, <3>1
    <2>3. /\ Drafts(new, from, targets) /\ Unfit(new) \subseteq lost
          /\ \A n \in Unfit(new) : ~CanBeShown([template[1] EXCEPT !.intensity = texts[n].intensity])
      BY <2>1, ReplacedDrafts
    <2>4. second = Turn(new, from, targets, template, regenerate, mayRepair)
      BY <2>1, <2>2
    <2>5. /\ DOMAIN from = DOMAIN texts /\ DOMAIN new = DOMAIN texts
          /\ \A n \in DOMAIN texts : from[n] = IF n \in lost THEN "TEMPLATE" ELSE sources[n]
      BY DEF Replaced, ReplacedSources
    <2>6. lost \subseteq ai
      BY <1>2, <1>9
    <2> DEFINE again == {n \in Unfit(new) : from[n] = "TEMPLATE"}
               all == \A n \in DOMAIN new : from[n] = "TEMPLATE"
    <2>7. /\ Unfit(new) = {} /\ all => second.kind = "failure"
          /\ Unfit(new) = {} /\ ~all =>
               second = [kind |-> "texts", texts |-> [n \in DOMAIN new |-> Rebuild(new[n])], sources |-> from]
          /\ Unfit(new) # {} /\ regenerate => second.kind = "failure"
          /\ Unfit(new) # {} /\ ~regenerate /\ ~(mayRepair /\ again = {}) /\ (template = <<>> \/ again # {}) =>
               second.kind = "failure"
      <3>1. TurnsOut(second, new, from, template, regenerate, mayRepair)
        <4> HIDE DEF new, from, second
        <4> QED
          BY <2>3, <2>4, TurnIs
      <3> HIDE DEF new, from, second
      <3> QED
        BY <3>1 DEF TurnsOut
    <2>8. again = Unfit(new)
      BY <1>1, <2>3, <2>5
    <2>9. all <=> ai \subseteq lost
      BY <1>1, <2>5
    <2> HIDE DEF first, second, result, lost, ai, new, from, again, all
    <2>10. CASE Unfit(new) = {} /\ all
      BY <1>3, <2>2, <2>7, <2>9, <2>10 DEF EndsAs, lost, ai
    <2>11. CASE Unfit(new) = {} /\ ~all
      <3>1. second.kind = "texts" /\ result = second
        BY <1>3, <2>2, <2>7, <2>11
      <3> QED
        BY <1>9, <2>3, <2>6, <2>7, <2>9, <2>11, <3>1 DEF EndsAs, lost, ai, new, from
    <2>12. CASE Unfit(new) # {}
      <3>1. second.kind = "failure" /\ result = second
        BY <1>3, <1>9, <2>2, <2>7, <2>8, <2>12
      <3>2. \E n \in lost : ~CanBeShown([template[1] EXCEPT !.intensity = texts[n].intensity])
        BY <2>3, <2>12
      <3> QED
        BY <3>1, <3>2 DEF EndsAs, lost
    <2> QED
      BY <2>10, <2>11, <2>12
  <1> QED
    BY <1>5, <1>6, <1>7, <1>8, <1>9

\* What AssembledIsFit says of a result of assemble.
IsFit(result, texts, sources, targets, template, regenerate, mayRepair) ==
    LET lost == Unfit(texts)
        ai == {n \in DOMAIN texts : sources[n] = "AI"}
        goodTemplate ==
            /\ template # <<>>
            /\ \A n \in lost : LET t == [template[1] EXCEPT !.intensity = texts[n].intensity]
                               IN  CanBeShown(t) /\ Card(t)
    IN  /\ result.kind = "texts" =>
             /\ \A n \in DOMAIN result.texts : Sound(result.texts[n]) /\ Card(result.texts[n])
             /\ \E n \in DOMAIN result.texts : result.sources[n] = "AI"
             /\ {n \in DOMAIN result.texts : result.sources[n] # sources[n]} = lost
             /\ Assemble(result.texts, result.sources, targets, template, regenerate, mayRepair) = result
        /\ result.kind = "repair" =>
             /\ result.bad = lost /\ lost # {} /\ lost \subseteq ai
             /\ mayRepair /\ ~regenerate
        /\ result.kind = "failure" =>
             \/ ai \subseteq lost \/ ~(lost \subseteq ai)
             \/ regenerate \/ ~goodTemplate

\* Four ends, and each is fit.
LEMMA AssembleIsFit ==
    ASSUME NEW texts, NEW sources, NEW targets, Drafts(texts, sources, targets), NEW template,
           NEW regenerate \in BOOLEAN, NEW mayRepair \in BOOLEAN,
           template # <<>> => template[1] \in Text /\ Len(template[1].statement) = 1
    PROVE  IsFit(Assemble(texts, sources, targets, template, regenerate, mayRepair),
                 texts, sources, targets, template, regenerate, mayRepair)
  <1> DEFINE result == Assemble(texts, sources, targets, template, regenerate, mayRepair)
             lost == Unfit(texts)
             ai == {n \in DOMAIN texts : sources[n] = "AI"}
             new == Replaced(texts, template)
             from == ReplacedSources(texts, sources)
             put(n) == [template[1] EXCEPT !.intensity = texts[n].intensity]
             fit == IsFit(result, texts, sources, targets, template, regenerate, mayRepair)
  <1> SUFFICES fit
    OBVIOUS
  <1>1. lost \subseteq DOMAIN texts /\ sources \in [DOMAIN texts -> {"AI", "TEMPLATE"}]
    BY DEF Drafts, Unfit
  <1>2. CASE /\ lost = {} /\ ai # {}
             /\ result = [kind |-> "texts", texts |-> [n \in DOMAIN texts |-> Rebuild(texts[n])],
                          sources |-> sources]
    <2> DEFINE shown == [n \in DOMAIN texts |-> Rebuild(texts[n])]
    <2>1. PICK n \in DOMAIN texts : sources[n] = "AI"
      BY <1>2
    <2>2. ~\A m \in DOMAIN texts : sources[m] = "TEMPLATE"
      BY <2>1
    <2>3. /\ \A m \in DOMAIN shown : Sound(shown[m]) /\ Card(shown[m])
          /\ Assemble(shown, sources, targets, template, regenerate, mayRepair)
               = [kind |-> "texts", texts |-> shown, sources |-> sources]
      <3>1. StayAsTheyAre(shown, sources, targets, template, regenerate, mayRepair)
        <4> HIDE DEF result
        <4> QED
          BY <1>2, <2>2, AllShown
      <3> QED
        BY <3>1 DEF StayAsTheyAre
    <2>4. DOMAIN shown = DOMAIN texts
      OBVIOUS
    <2>5. result.kind = "texts" /\ result.texts = shown /\ result.sources = sources
      <3> HIDE DEF result
      <3> QED
        BY <1>2
    <2>6. Assemble(result.texts, result.sources, targets, template, regenerate, mayRepair) = result
      <3> HIDE DEF result
      <3> QED
        BY <1>2, <2>3, <2>5
    <2>7. {m \in DOMAIN result.texts : result.sources[m] # sources[m]} = lost
      <3> HIDE DEF result
      <3> QED
        BY <1>2, <2>5
    <2> HIDE DEF result, lost, ai, shown
    <2> QED
      BY <2>1, <2>3, <2>4, <2>5, <2>6, <2>7 DEF IsFit, lost
  <1>3. CASE /\ lost # {} /\ lost \subseteq ai /\ mayRepair /\ ~regenerate
             /\ result = [kind |-> "repair", bad |-> lost]
    <2> HIDE DEF result
    <2>1. result.kind = "repair" /\ result.bad = lost
      BY <1>3
    <2> QED
      BY <1>3, <2>1 DEF IsFit
  <1>4. CASE /\ lost # {} /\ lost \subseteq ai /\ ~(ai \subseteq lost)
             /\ Drafts(new, from, targets) /\ Unfit(new) = {}
             /\ result = [kind |-> "texts", texts |-> [n \in DOMAIN new |-> Rebuild(new[n])],
                          sources |-> from]
    <2> DEFINE shown == [n \in DOMAIN new |-> Rebuild(new[n])]
    <2>1. /\ DOMAIN new = DOMAIN texts
          /\ \A n \in DOMAIN texts : from[n] = IF n \in lost THEN "TEMPLATE" ELSE sources[n]
      BY DEF Replaced, ReplacedSources
    <2>2. PICK n \in DOMAIN texts : sources[n] = "AI" /\ n \notin lost
      BY <1>4
    <2> HIDE DEF new, from
    <2>3. from[n] = "AI" /\ n \in DOMAIN new
      BY <2>1, <2>2
    <2>4. ~\A m \in DOMAIN new : from[m] = "TEMPLATE"
      BY <2>3
    <2>5. /\ \A m \in DOMAIN shown : Sound(shown[m]) /\ Card(shown[m])
          /\ Assemble(shown, from, targets, template, regenerate, mayRepair)
               = [kind |-> "texts", texts |-> shown, sources |-> from]
      <3>1. StayAsTheyAre(shown, from, targets, template, regenerate, mayRepair)
        <4> HIDE DEF result
        <4> QED
          BY <1>4, <2>4, AllShown
      <3> QED
        BY <3>1 DEF StayAsTheyAre
    <2>6. DOMAIN shown = DOMAIN texts
      BY <2>1
    <2>7. result.kind = "texts" /\ result.texts = shown /\ result.sources = from
      <3> HIDE DEF result
      <3> QED
        BY <1>4
    <2>8. Assemble(result.texts, result.sources, targets, template, regenerate, mayRepair) = result
      <3> HIDE DEF result
      <3> QED
        BY <1>4, <2>5, <2>7
    <2>9. {m \in DOMAIN result.texts : result.sources[m] # sources[m]} = lost
      <3>1. \A m \in DOMAIN texts : (from[m] # sources[m] <=> m \in lost)
        BY <1>4, <2>1
      <3> HIDE DEF lost, result, shown
      <3> QED
        BY <1>1, <2>6, <2>7, <3>1
    <2> HIDE DEF result, lost, ai, shown
    <2> QED
      BY <2>3, <2>5, <2>1, <2>6, <2>7, <2>8, <2>9 DEF IsFit, lost
  <1>5. CASE /\ result.kind = "failure"
             /\ \/ ai \subseteq lost \/ ~(lost \subseteq ai) \/ regenerate
                \/ template = <<>>
                \/ ~Card(template[1]) /\ lost # {}
                \/ \E n \in lost : ~CanBeShown(put(n))
    <2>1. ASSUME template # <<>>, ~Card(template[1]), NEW n \in lost PROVE ~Card(put(n))
      <3>1. put(n).headline = template[1].headline /\ put(n).statement = template[1].statement
        BY <2>1 DEF Text
      <3> QED
        BY <2>1, <3>1 DEF Card
    <2>2. CASE ai \subseteq lost \/ ~(lost \subseteq ai) \/ regenerate
      BY <1>5, <2>2 DEF IsFit
    <2>3. CASE \/ template = <<>>
               \/ ~Card(template[1]) /\ lost # {}
               \/ \E n \in lost : ~CanBeShown(put(n))
      <3>1. ~(/\ template # <<>>
              /\ \A n \in lost : CanBeShown(put(n)) /\ Card(put(n)))
        BY <2>1, <2>3
      <3> HIDE DEF result
      <3> QED
        BY <1>5, <3>1 DEF IsFit
    <2> QED
      BY <1>5, <2>2, <2>3
  <1> QED
    <2>1. EndsAs(result, texts, sources, targets, template, regenerate, mayRepair)
      BY AssembleEnds
    <2> HIDE DEF fit, result
    <2> QED
      BY <1>2, <1>3, <1>4, <1>5, <2>1 DEF EndsAs

\* What assemble returns can be shown, replaces nothing but what cannot, and
\* comes back as it is when it is assembled again.
THEOREM AssembledFits == Spec => []AssembledIsFit
  <1>1. Asked => AssembledIsFit
    <2>1. CASE asked.kind # "assemble"
      BY <2>1 DEF AssembledIsFit
    <2>2. CASE asked.kind = "assemble" /\ Asked
      <3> DEFINE result == Assemble(asked.texts, asked.sources, asked.targets, asked.template,
                                    asked.regenerate, asked.mayRepair)
      <3>1. /\ Drafts(asked.texts, asked.sources, asked.targets)
            /\ asked.regenerate \in BOOLEAN /\ asked.mayRepair \in BOOLEAN
            /\ asked.template # <<>> =>
                 asked.template[1] \in Text /\ Len(asked.template[1].statement) = 1
        BY <2>2 DEF Asked, Drafts
      <3>2. IsFit(result, asked.texts, asked.sources, asked.targets, asked.template,
                  asked.regenerate, asked.mayRepair)
        BY <3>1, AssembleIsFit
      <3> HIDE DEF result
      <3> QED
        BY <3>2 DEF AssembledIsFit, IsFit, Unfit, result
    <2> QED
      BY <2>1, <2>2
  <1> QED
    BY <1>1, Typing, PTL

-----------------------------------------------------------------------------
(* Functions on the prefixes of a sequence.                                *)

\* What holds of nothing and, if of what is before, of each prefix.
LEMMA Climb ==
    ASSUME NEW n \in Nat, NEW T, 0 \in T, \A m \in 1..n : m - 1 \in T => m \in T
    PROVE  \A m \in 0..n : m \in T
  <1> DEFINE U == {m \in 0..n : m \notin T}
  <1>1. CASE U = {}
    BY <1>1
  <1>2. CASE U # {}
    <2>1. PICK m \in U : \A k \in U : m <= k
      <3> HIDE DEF U
      <3>1. U \in SUBSET Nat
        BY DEF U
      <3> QED
        BY <1>2, <3>1, Least
    <2>2. m \in 0..n /\ m \notin T /\ m # 0
      OBVIOUS
    <2>3. m - 1 \in 0..n /\ m - 1 \notin U
      BY <2>1, <2>2
    <2> QED
      BY <2>2, <2>3
  <1> QED
    BY <1>1, <1>2

\* What a step makes of the items of a prefix, one after the other.
Runs(f, base, step, s, n) ==
    f = [m \in 0..n |-> IF m = 0 THEN base ELSE step[<<f[m - 1], s[m]>>]]

\* There is such a function for every step and prefix.
LEMMA RunsExist ==
    ASSUME NEW base, NEW step, NEW s, NEW n \in Nat
    PROVE  \E f : Runs(f, base, step, s, n)
  <1> DEFINE T == {m \in 0..n : \E f : Runs(f, base, step, s, m)}
  <1>1. 0 \in T
    <2>1. Runs([k \in 0..0 |-> base], base, step, s, 0)
      BY DEF Runs
    <2> QED
      BY <2>1
  <1>2. ASSUME NEW m \in 1..n, m - 1 \in T PROVE m \in T
    <2>1. PICK f : Runs(f, base, step, s, m - 1)
      BY <1>2
    <2> DEFINE last == step[<<f[m - 1], s[m]>>]
               g == [k \in 0..m |-> IF k = m THEN last ELSE f[k]]
    <2>2. ASSUME NEW k \in 0..m
          PROVE  g[k] = IF k = 0 THEN base ELSE step[<<g[k - 1], s[k]>>]
      <3>1. CASE k = m
        <4>1. g[m] = last /\ g[m - 1] = f[m - 1]
          OBVIOUS
        <4> HIDE DEF g
        <4> QED
          BY <3>1, <4>1
      <3>2. CASE k # m
        <4>1. k \in 0..m - 1 /\ g[k] = f[k] /\ (k # 0 => g[k - 1] = f[k - 1])
          BY <3>2
        <4>2. f[k] = IF k = 0 THEN base ELSE step[<<f[k - 1], s[k]>>]
          BY <2>1, <4>1 DEF Runs
        <4> HIDE DEF g
        <4> QED
          BY <4>1, <4>2
      <3> QED
        BY <3>1, <3>2
    <2>3. Runs(g, base, step, s, m)
      <3>1. DOMAIN g = 0..m /\ g = [k \in 0..m |-> g[k]]
        OBVIOUS
      <3> HIDE DEF g
      <3> QED
        BY <2>2, <3>1, Zenon DEF Runs
    <2> QED
      BY <2>3
  <1> HIDE DEF T
  <1>3. n \in T
    <2>1. \A m \in 1..n : m - 1 \in T => m \in T
      BY <1>2
    <2>2. \A m \in 0..n : m \in T
      BY <1>1, <2>1, Climb
    <2> QED
      BY <2>2
  <1> QED
    BY <1>3 DEF T

\* Its values are those of the step.
LEMMA RunsStay ==
    ASSUME NEW A, NEW B, NEW base \in A, NEW step \in [A \X B -> A], NEW s \in Seq(B),
           NEW f, Runs(f, base, step, s, Len(s))
    PROVE  \A m \in 0..Len(s) : f[m] \in A
  <1> DEFINE T == {m \in 0..Len(s) : f[m] \in A}
  <1>1. 0 \in T
    BY DEF Runs
  <1>2. ASSUME NEW m \in 1..Len(s), m - 1 \in T PROVE m \in T
    <2>1. f[m] = step[<<f[m - 1], s[m]>>] /\ s[m] \in B /\ f[m - 1] \in A
      BY <1>2 DEF Runs
    <2> QED
      BY <2>1
  <1> HIDE DEF T
  <1>3. \A m \in 1..Len(s) : m - 1 \in T => m \in T
    BY <1>2
  <1>4. Len(s) \in Nat
    OBVIOUS
  <1>5. \A m \in 0..Len(s) : m \in T
    BY <1>1, <1>3, <1>4, Climb
  <1> QED
    BY <1>5 DEF T

-----------------------------------------------------------------------------
(* Sequences of sequences.                                                 *)

\* What is put one after the other.
Joins(f, S, ss) ==
    f = [m \in 0..Len(ss) |-> IF m = 0 THEN <<>> ELSE f[m - 1] \o ss[m]]

LEMMA JoinsExist ==
    ASSUME NEW S, NEW ss \in Seq(Seq(S))
    PROVE  \E f : Joins(f, S, ss) /\ \A m \in 0..Len(ss) : f[m] \in Seq(S)
  <1> DEFINE step == [q \in Seq(S) \X Seq(S) |-> q[1] \o q[2]]
  <1>1. PICK f : Runs(f, <<>>, step, ss, Len(ss))
    <2>1. Len(ss) \in Nat
      OBVIOUS
    <2> HIDE DEF step
    <2> QED
      BY <2>1, RunsExist
  <1>2. step \in [Seq(S) \X Seq(S) -> Seq(S)]
    OBVIOUS
  <1>3. \A m \in 0..Len(ss) : f[m] \in Seq(S)
    <2> HIDE DEF step
    <2>1. <<>> \in Seq(S)
      OBVIOUS
    <2> QED
      BY <1>1, <1>2, <2>1, RunsStay
  <1>4. ASSUME NEW m \in 0..Len(ss)
        PROVE  f[m] = IF m = 0 THEN <<>> ELSE f[m - 1] \o ss[m]
    <2>1. f[m] = IF m = 0 THEN <<>> ELSE step[<<f[m - 1], ss[m]>>]
      BY <1>1 DEF Runs
    <2>2. m # 0 => f[m - 1] \in Seq(S) /\ ss[m] \in Seq(S)
      BY <1>3
    <2> QED
      BY <2>1, <2>2
  <1>5. f = [m \in 0..Len(ss) |-> f[m]]
    BY <1>1 DEF Runs
  <1>6. Joins(f, S, ss)
    BY <1>4, <1>5, Zenon DEF Joins
  <1> QED
    BY <1>3, <1>6

\* FlattenSeq is the last of these.
LEMMA FlattenIs ==
    ASSUME NEW S, NEW ss \in Seq(Seq(S))
    PROVE  \E f : /\ Joins(f, S, ss) /\ \A m \in 0..Len(ss) : f[m] \in Seq(S)
                  /\ FlattenSeq(ss) = f[Len(ss)]
  <1>1. PICK f : Joins(f, S, ss) /\ \A m \in 0..Len(ss) : f[m] \in Seq(S)
    BY JoinsExist
  <1>4. ASSUME NEW i \in 1..Len(ss)
        PROVE  f[i] = IF i = 1 THEN ss[i] ELSE f[i - 1] \o ss[i]
    <2>1. /\ i \in 0..Len(ss) /\ 0 \in 0..Len(ss) /\ i # 0 /\ ss[i] \in Seq(S)
          /\ \A q \in Seq(S) : <<>> \o q = q
      OBVIOUS
    <2>2. f[i] = f[i - 1] \o ss[i] /\ f[0] = <<>>
      BY <1>1, <2>1 DEF Joins
    <2>3. i = 1 => i - 1 = 0
      OBVIOUS
    <2>4. i = 1 => f[i - 1] \o ss[i] = ss[i]
      BY <2>1, <2>2, <2>3
    <2> QED
      BY <2>2, <2>4
  <1>2. CASE Len(ss) = 0
    BY <1>1, <1>2 DEF Joins, FlattenSeq
  <1>3. CASE Len(ss) # 0
    <2> DEFINE IsFlat(g) == g = [i \in 1..Len(ss) |-> IF i = 1 THEN ss[i] ELSE g[i - 1] \o ss[i]]
               g0 == [i \in 1..Len(ss) |-> f[i]]
               flat == CHOOSE g : IsFlat(g)
    <2>1. IsFlat(g0)
      <3>1. ASSUME NEW i \in 1..Len(ss)
            PROVE  g0[i] = IF i = 1 THEN ss[i] ELSE g0[i - 1] \o ss[i]
        <4>1. g0[i] = f[i] /\ (i # 1 => g0[i - 1] = f[i - 1])
          OBVIOUS
        <4> HIDE DEF g0
        <4> QED
          BY <1>4, <4>1
      <3> QED
        BY <3>1, Zenon
    <2>2. IsFlat(flat)
      BY <2>1, Zenon
    <2>3. FlattenSeq(ss) = flat[Len(ss)]
      BY <1>3 DEF FlattenSeq
    <2> DEFINE T == {m \in 0..Len(ss) : m # 0 => flat[m] = f[m]}
    <2>4. 0 \in T
      OBVIOUS
    <2>5. ASSUME NEW m \in 1..Len(ss), m - 1 \in T PROVE m \in T
      <3>1. m - 1 # 0 => flat[m - 1] = f[m - 1]
        <4> HIDE DEF flat
        <4> QED
          BY <2>5
      <3> HIDE DEF flat
      <3>2. flat[m] = IF m = 1 THEN ss[m] ELSE flat[m - 1] \o ss[m]
        BY <2>2
      <3>3. flat[m] = f[m]
        BY <1>4, <3>1, <3>2
      <3>4. m \in 0..Len(ss)
        OBVIOUS
      <3> QED
        BY <3>3, <3>4
    <2>6. \A m \in 0..Len(ss) : m \in T
      <3> HIDE DEF T
      <3>1. \A m \in 1..Len(ss) : m - 1 \in T => m \in T
        BY <2>5
      <3>2. Len(ss) \in Nat /\ 0 \in T
        BY <2>4
      <3> QED
        BY <3>1, <3>2, Climb
    <2>7. flat[Len(ss)] = f[Len(ss)]
      <3>1. Len(ss) \in T
        <4>1. Len(ss) \in 0..Len(ss)
          OBVIOUS
        <4> HIDE DEF T
        <4> QED
          BY <2>6, <4>1
      <3> HIDE DEF flat
      <3> QED
        BY <1>3, <3>1
    <2> QED
      BY <1>1, <2>3, <2>7
  <1> QED
    BY <1>2, <1>3

LEMMA RangeJoined ==
    ASSUME NEW S, NEW a \in Seq(S), NEW b \in Seq(S)
    PROVE  a \o b \in Seq(S) /\ Range(a \o b) = Range(a) \cup Range(b)
  <1>1. /\ a \o b \in Seq(S) /\ Len(a \o b) = Len(a) + Len(b) /\ Len(a) \in Nat /\ Len(b) \in Nat
        /\ \A k \in 1..Len(a) + Len(b) : (a \o b)[k] = IF k <= Len(a) THEN a[k] ELSE b[k - Len(a)]
    OBVIOUS
  <1>2. ASSUME NEW q \in Seq(S) PROVE Range(q) = {q[k] : k \in 1..Len(q)}
    BY DEF Range
  <1>3. /\ Range(a) = {a[k] : k \in 1..Len(a)} /\ Range(b) = {b[k] : k \in 1..Len(b)}
        /\ Range(a \o b) = {(a \o b)[k] : k \in 1..Len(a) + Len(b)}
    BY <1>1, <1>2
  <1> DEFINE whole == a \o b
             m == Len(a)
             n == Len(b)
  <1>4. ASSUME NEW x \in Range(whole) PROVE x \in Range(a) \cup Range(b)
    <2>1. PICK k \in 1..m + n : x = whole[k]
      BY <1>3
    <2>2. CASE k <= m
      <3>1. k \in 1..m /\ x = a[k]
        BY <1>1, <2>1, <2>2
      <3> QED
        BY <1>3, <3>1
    <2>3. CASE ~(k <= m)
      <3>1. k - m \in 1..n /\ x = b[k - m]
        BY <1>1, <2>1, <2>3
      <3> QED
        BY <1>3, <3>1
    <2> QED
      BY <2>2, <2>3
  <1>5. ASSUME NEW x \in Range(a) PROVE x \in Range(whole)
    <2>1. PICK k \in 1..m : x = a[k]
      BY <1>3
    <2>2. k \in 1..m + n /\ whole[k] = x
      BY <1>1, <2>1
    <2> QED
      BY <1>3, <2>2
  <1>6. ASSUME NEW x \in Range(b) PROVE x \in Range(whole)
    <2>1. PICK k \in 1..n : x = b[k]
      BY <1>3
    <2>2. k + m \in 1..m + n /\ ~(k + m <= m) /\ k + m - m = k
      BY <1>1, <2>1
    <2>3. whole[k + m] = x
      BY <1>1, <2>1, <2>2
    <2> QED
      BY <1>3, <2>2, <2>3
  <1> HIDE DEF whole
  <1>7. Range(whole) = Range(a) \cup Range(b)
    BY <1>4, <1>5, <1>6
  <1> QED
    BY <1>1, <1>7 DEF whole

\* Of sequences, each item is in the whole, and no other; of short ones there
\* are not more items than sequences.
LEMMA FlattenParts ==
    ASSUME NEW S, NEW ss \in Seq(Seq(S))
    PROVE  /\ FlattenSeq(ss) \in Seq(S)
           /\ Range(FlattenSeq(ss)) = UNION {Range(ss[k]) : k \in DOMAIN ss}
           /\ (\A k \in DOMAIN ss : Len(ss[k]) <= 1) => Len(FlattenSeq(ss)) <= Len(ss)
           /\ Len(ss) = 1 => FlattenSeq(ss) = ss[1]
  <1>1. PICK f : /\ Joins(f, S, ss) /\ \A m \in 0..Len(ss) : f[m] \in Seq(S)
                 /\ FlattenSeq(ss) = f[Len(ss)]
    BY FlattenIs
  <1> DEFINE short == \A k \in DOMAIN ss : Len(ss[k]) <= 1
             first(m) == UNION {Range(ss[k]) : k \in 1..m}
             T == {m \in 0..Len(ss) : Range(f[m]) = first(m) /\ (short => Len(f[m]) <= m)}
  <1>2. Len(ss) \in Nat /\ 0 \in 0..Len(ss) /\ Len(ss) \in 0..Len(ss)
    OBVIOUS
  <1>3. f[0] = <<>>
    BY <1>1, <1>2 DEF Joins
  <1>4. 0 \in T
    <2>1. Range(<<>>) = {} /\ first(0) = {} /\ Len(<<>>) = 0
      BY DEF Range
    <2>2. Range(f[0]) = first(0) /\ Len(f[0]) = 0
      BY <1>3, <2>1
    <2> HIDE DEF first, short
    <2> QED
      BY <1>2, <2>2
  <1>5. ASSUME NEW m \in 1..Len(ss), m - 1 \in T PROVE m \in T
    <2>1. /\ m \in 0..Len(ss) /\ m - 1 \in 0..Len(ss) /\ m \in DOMAIN ss /\ ss[m] \in Seq(S)
          /\ f[m - 1] \in Seq(S)
      BY <1>1
    <2>8. f[m] = f[m - 1] \o ss[m]
      <3>1. m # 0
        OBVIOUS
      <3> HIDE DEF T
      <3> QED
        BY <1>1, <2>1, <3>1 DEF Joins
    <2>2. Range(f[m]) = Range(f[m - 1]) \cup Range(ss[m]) /\ Len(f[m]) = Len(f[m - 1]) + Len(ss[m])
      BY <2>1, <2>8, RangeJoined
    <2>3. first(m) = first(m - 1) \cup Range(ss[m])
      <3>1. 1..m = (1..m - 1) \cup {m}
        OBVIOUS
      <3> QED
        BY <3>1
    <2>4. Range(f[m - 1]) = first(m - 1) /\ (short => Len(f[m - 1]) <= m - 1)
      BY <1>5
    <2>5. short => Len(ss[m]) <= 1
      BY <2>1
    <2>6. Len(f[m - 1]) \in Nat /\ Len(ss[m]) \in Nat /\ m \in Nat
      BY <2>1
    <2> HIDE DEF first, short
    <2>7. ASSUME short PROVE Len(f[m]) <= m
      <3>1. Len(f[m - 1]) <= m - 1 /\ Len(ss[m]) <= 1 /\ Len(f[m]) = Len(f[m - 1]) + Len(ss[m])
        BY <2>2, <2>4, <2>5, <2>7
      <3> DEFINE a == Len(f[m - 1])
                 b == Len(ss[m])
                 c == Len(f[m])
      <3>2. a \in Nat /\ b \in Nat /\ m \in Nat /\ a <= m - 1 /\ b <= 1 /\ c = a + b
        BY <2>6, <3>1
      <3> HIDE DEF T, a, b, c
      <3>3. c <= m
        BY <3>2
      <3> QED
        BY <3>3 DEF c
    <2> QED
      BY <2>1, <2>2, <2>3, <2>4, <2>7
  <1>6. Len(ss) \in T
    <2> HIDE DEF T
    <2>1. \A m \in 1..Len(ss) : m - 1 \in T => m \in T
      BY <1>5
    <2>2. \A m \in 0..Len(ss) : m \in T
      BY <1>2, <1>4, <2>1, Climb
    <2> QED
      BY <1>2, <2>2
  <1>7. Len(ss) = 1 => FlattenSeq(ss) = ss[1]
    BY DEF FlattenSeq
  <1>8. FlattenSeq(ss) \in Seq(S)
    BY <1>1, <1>2
  <1>9. Range(FlattenSeq(ss)) = first(Len(ss)) /\ (short => Len(FlattenSeq(ss)) <= Len(ss))
    <2> HIDE DEF first, short
    <2> QED
      BY <1>1, <1>6
  <1>10. DOMAIN ss = 1..Len(ss)
    OBVIOUS
  <1> QED
    BY <1>7, <1>8, <1>9, <1>10

-----------------------------------------------------------------------------
(* Each once.                                                              *)

DistinctSteps(out, items) ==
    out = [n \in 0..Len(items) |->
             IF n = 0 THEN <<>>
             ELSE IF items[n] \in Range(out[n - 1]) THEN out[n - 1]
             ELSE Append(out[n - 1], items[n])]

LEMMA DistinctIs ==
    ASSUME NEW S, NEW v \in Seq(S)
    PROVE  \E f : /\ DistinctSteps(f, v) /\ \A m \in 0..Len(v) : f[m] \in Seq(S)
                  /\ Distinct(v) = f[Len(v)]
  <1> DEFINE step == [q \in Seq(S) \X S |-> IF q[2] \in Range(q[1]) THEN q[1] ELSE Append(q[1], q[2])]
  <1>0. Len(v) \in Nat /\ <<>> \in Seq(S)
    OBVIOUS
  <1>1. ASSUME NEW f, Runs(f, <<>>, step, v, Len(v))
        PROVE  DistinctSteps(f, v) /\ \A m \in 0..Len(v) : f[m] \in Seq(S)
    <2>1. step \in [Seq(S) \X S -> Seq(S)]
      OBVIOUS
    <2>2. \A m \in 0..Len(v) : f[m] \in Seq(S)
      <3> HIDE DEF step
      <3> QED
        BY <1>0, <1>1, <2>1, RunsStay
    <2>3. ASSUME NEW m \in 0..Len(v)
          PROVE  f[m] = IF m = 0 THEN <<>>
                        ELSE IF v[m] \in Range(f[m - 1]) THEN f[m - 1] ELSE Append(f[m - 1], v[m])
      <3>1. f[m] = IF m = 0 THEN <<>> ELSE step[<<f[m - 1], v[m]>>]
        BY <1>1 DEF Runs
      <3>2. m # 0 => f[m - 1] \in Seq(S) /\ v[m] \in S
        BY <2>2
      <3> QED
        BY <3>1, <3>2
    <2>4. f = [m \in 0..Len(v) |-> f[m]]
      BY <1>1 DEF Runs
    <2> QED
      BY <2>2, <2>3, <2>4, Zenon DEF DistinctSteps
  <1>2. \E f : DistinctSteps(f, v)
    <2>1. \E f : Runs(f, <<>>, step, v, Len(v))
      <3> HIDE DEF step
      <3> QED
        BY <1>0, RunsExist
    <2> HIDE DEF step
    <2> QED
      BY <1>1, <2>1
  <1> DEFINE chosen == CHOOSE f : DistinctSteps(f, v)
  <1>3. DistinctSteps(chosen, v)
    BY <1>2
  <1>4. Distinct(v) = chosen[Len(v)]
    BY DEF Distinct, DistinctSteps
  <1>5. \A m \in 0..Len(v) : chosen[m] \in Seq(S)
    <2> HIDE DEF chosen
    <2>1. chosen[0] = <<>>
      BY <1>0, <1>3 DEF DistinctSteps
    <2> DEFINE T == {m \in 0..Len(v) : chosen[m] \in Seq(S)}
    <2>2. 0 \in T
      <3>1. 0 \in 0..Len(v)
        BY <1>0
      <3> QED
        BY <1>0, <2>1, <3>1
    <2>3. ASSUME NEW m \in 1..Len(v), m - 1 \in T PROVE m \in T
      <3>1. chosen[m] = IF v[m] \in Range(chosen[m - 1]) THEN chosen[m - 1]
                        ELSE Append(chosen[m - 1], v[m])
        <4>1. m \in 0..Len(v) /\ m # 0
          OBVIOUS
        <4> HIDE DEF T
        <4> QED
          BY <1>3, <4>1 DEF DistinctSteps
      <3>2. v[m] \in S /\ chosen[m - 1] \in Seq(S) /\ m \in 0..Len(v)
        BY <2>3
      <3>3. chosen[m] \in Seq(S)
        BY <3>1, <3>2
      <3> QED
        BY <3>2, <3>3
    <2> HIDE DEF T
    <2>4. \A m \in 0..Len(v) : m \in T
      BY <1>0, <2>2, <2>3, Climb
    <2> QED
      BY <2>4 DEF T
  <1> HIDE DEF chosen
  <1> QED
    BY <1>3, <1>4, <1>5

\* _dedup_dicts keeps each item, and each once.
LEMMA DistinctKeeps ==
    ASSUME NEW S, NEW v \in Seq(S)
    PROVE  /\ Distinct(v) \in Seq(S) /\ Range(Distinct(v)) = Range(v)
           /\ IsFiniteSet(Range(v)) /\ Len(Distinct(v)) = Cardinality(Range(v))
  <1>1. PICK f : /\ DistinctSteps(f, v) /\ \A m \in 0..Len(v) : f[m] \in Seq(S)
                 /\ Distinct(v) = f[Len(v)]
    BY DistinctIs
  <1> DEFINE seen(m) == {v[k] : k \in 1..m}
             T == {m \in 0..Len(v) : /\ Range(f[m]) = seen(m) /\ IsFiniteSet(seen(m))
                                     /\ Len(f[m]) = Cardinality(seen(m))}
  <1>2. Len(v) \in Nat /\ 0 \in 0..Len(v) /\ Len(v) \in 0..Len(v)
    OBVIOUS
  <1>3. 0 \in T
    <2>1. f[0] = <<>> /\ seen(0) = {} /\ Range(<<>>) = {} /\ Len(<<>>) = 0
      BY <1>1, <1>2 DEF DistinctSteps, Range
    <2> HIDE DEF seen
    <2> QED
      BY <1>2, <2>1, FS_EmptySet
  <1>4. ASSUME NEW m \in 1..Len(v), m - 1 \in T PROVE m \in T
    <2> DEFINE old == f[m - 1]
               one == v[m]
    <2>1. m \in 0..Len(v) /\ m - 1 \in 0..Len(v) /\ m # 0 /\ one \in S
      OBVIOUS
    <2>2. /\ old \in Seq(S) /\ Range(old) = seen(m - 1) /\ IsFiniteSet(seen(m - 1))
          /\ Len(old) = Cardinality(seen(m - 1))
      BY <1>1, <1>4, <2>1
    <2>3. f[m] = IF one \in Range(old) THEN old ELSE Append(old, one)
      BY <1>1, <2>1 DEF DistinctSteps
    <2>4. seen(m) = seen(m - 1) \cup {one}
      <3>1. 1..m = (1..m - 1) \cup {m}
        OBVIOUS
      <3> QED
        BY <3>1
    <2> HIDE DEF old, one, seen
    <2>5. CASE one \in Range(old)
      BY <2>1, <2>2, <2>3, <2>4, <2>5
    <2>6. CASE one \notin Range(old)
      <3>1. f[m] = Append(old, one)
        BY <2>3, <2>6
      <3>2. Append(old, one) = old \o <<one>> /\ <<one>> \in Seq(S) /\ Range(<<one>>) = {one}
        BY <2>1, <2>2 DEF Range
      <3>3. Range(f[m]) = Range(old) \cup {one}
        <4>1. Range(old \o <<one>>) = Range(old) \cup Range(<<one>>)
          <5>1. old \in Seq(S) /\ <<one>> \in Seq(S)
            BY <2>2, <3>2
          <5> HIDE DEF T
          <5> QED
            BY <5>1, RangeJoined
        <4> QED
          BY <3>1, <3>2, <4>1
      <3>4. Len(f[m]) = Len(old) + 1
        BY <2>2, <3>1
      <3>5. IsFiniteSet(seen(m)) /\ Cardinality(seen(m)) = Cardinality(seen(m - 1)) + 1
        <4>1. one \notin seen(m - 1)
          BY <2>2, <2>6
        <4> DEFINE before == seen(m - 1)
        <4>2. IsFiniteSet(before) /\ one \notin before /\ seen(m) = before \cup {one}
          BY <2>2, <2>4, <4>1
        <4> HIDE DEF T, before
        <4>3. /\ IsFiniteSet(before \cup {one})
              /\ Cardinality(before \cup {one}) = Cardinality(before) + 1
          BY <4>2, FS_AddElement
        <4> QED
          BY <4>2, <4>3 DEF before
      <3> QED
        BY <2>1, <2>2, <2>4, <3>3, <3>4, <3>5
    <2> QED
      BY <2>5, <2>6
  <1>5. Len(v) \in T
    <2> HIDE DEF T
    <2>1. \A m \in 1..Len(v) : m - 1 \in T => m \in T
      BY <1>4
    <2>2. \A m \in 0..Len(v) : m \in T
      BY <1>2, <1>3, <2>1, Climb
    <2> QED
      BY <1>2, <2>2
  <1>6. Range(v) = seen(Len(v))
    BY DEF Range
  <1> HIDE DEF seen
  <1> QED
    BY <1>1, <1>2, <1>5, <1>6

-----------------------------------------------------------------------------
(* The entries about a text.                                               *)

\* Select leaves one at most if there is no second one to be kept.
LEMMA SelectOne ==
    ASSUME NEW S, NEW s \in Seq(S), NEW K,
           \A j, k \in DOMAIN s : s[j] \in K /\ s[k] \in K => j = k
    PROVE  Len(Select(s, K)) <= 1
  <1>1. PICK f : Steps(f, s, K, Len(s)) /\ Select(s, K) = f[Len(s)]
    BY Selected
  <1> DEFINE none(m) == \A j \in 1..m : s[j] \notin K
             T == {m \in 0..Len(s) : /\ f[m] \in Seq(S) /\ Len(f[m]) <= 1
                                     /\ none(m) => f[m] = <<>>}
  <1>2. Len(s) \in Nat /\ 0 \in 0..Len(s) /\ Len(s) \in 0..Len(s) /\ DOMAIN s = 1..Len(s)
    OBVIOUS
  <1>3. 0 \in T
    <2>1. f[0] = <<>>
      BY <1>1, <1>2 DEF Steps
    <2>2. <<>> \in Seq(S) /\ Len(<<>>) <= 1
      OBVIOUS
    <2> HIDE DEF none
    <2> QED
      BY <1>2, <2>1, <2>2
  <1>4. ASSUME NEW m \in 1..Len(s), m - 1 \in T PROVE m \in T
    <2>1. m \in 0..Len(s) /\ m # 0 /\ s[m] \in S /\ m \in Nat
      OBVIOUS
    <2>2. f[m] = IF s[m] \in K THEN Append(f[m - 1], s[m]) ELSE f[m - 1]
      <3> HIDE DEF T
      <3> QED
        BY <1>1, <2>1 DEF Steps
    <2>3. f[m - 1] \in Seq(S) /\ Len(f[m - 1]) <= 1 /\ (none(m - 1) => f[m - 1] = <<>>)
      BY <1>4
    <2>4. CASE s[m] \in K
      <3>1. none(m - 1)
        <4>1. ASSUME NEW j \in 1..m - 1 PROVE s[j] \notin K
          <5>1. j \in DOMAIN s /\ m \in DOMAIN s /\ j # m
            OBVIOUS
          <5> QED
            BY <2>4, <5>1
        <4> QED
          BY <4>1
      <3>2. ~none(m)
        BY <2>1, <2>4
      <3>3. f[m] = Append(<<>>, s[m])
        <4> HIDE DEF none, T
        <4> QED
          BY <2>2, <2>3, <2>4, <3>1
      <3>4. f[m] \in Seq(S) /\ Len(f[m]) <= 1
        BY <2>1, <3>3
      <3> HIDE DEF none
      <3> QED
        BY <2>1, <3>2, <3>4
    <2>5. CASE s[m] \notin K
      <3>1. none(m) => none(m - 1)
        BY <2>1
      <3>2. f[m] = f[m - 1]
        BY <2>2, <2>5
      <3> HIDE DEF none
      <3> QED
        BY <2>1, <2>3, <3>1, <3>2
    <2> QED
      BY <2>4, <2>5
  <1>5. Len(s) \in T
    <2> HIDE DEF T
    <2>1. \A m \in 1..Len(s) : m - 1 \in T => m \in T
      BY <1>4
    <2>2. \A m \in 0..Len(s) : m \in T
      BY <1>2, <1>3, <2>1, Climb
    <2> QED
      BY <1>2, <2>2
  <1> QED
    BY <1>1, <1>5

\* What is said by all that are given, as the property has it.
CodesOf(given) == UNION {Range(c.violations) : c \in given}

OddOf(given) == \E c \in given : c.pass = "odd"

PassesAll(given) == (\A c \in given : c.pass = "yes") \/ CodesOf(given) = Advisory

\* A check or an entry says what all that are given say.
Sums(check, given) ==
    /\ check.pass = "odd" <=> OddOf(given)
    /\ check.pass = "yes" <=> \A c \in given : c.pass = "yes"
    /\ check.pass # "odd" => Range(check.violations) = CodesOf(given)

\* Its objections are of one of them, or are there once.
Brief(entry, given) ==
    \/ \E c \in given : entry.violations = c.violations
    \/ Len(entry.violations) = Cardinality(Range(entry.violations))

LEMMA SumsOne ==
    ASSUME NEW check, check.pass \in Passes
    PROVE  Sums(check, {check}) /\ Brief(check, {check})
  <1>1. CodesOf({check}) = Range(check.violations)
    BY DEF CodesOf
  <1> QED
    BY <1>1 DEF Sums, Brief, OddOf, Passes

LEMMA EntryParts ==
    ASSUME NEW e \in Entry
    PROVE  e.intensity \in STRING /\ e.pass \in Passes /\ e.violations \in Seq(STRING)
  BY DEF Entry

\* Two entries, merged.
LEMMA JoinedParts ==
    ASSUME NEW a \in Entry, NEW e \in Entry
    PROVE  /\ Joined(a, e) \in Entry /\ Joined(a, e).intensity = a.intensity
           /\ Joined(a, e).pass = Both(a.pass, e.pass)
           /\ Range(Joined(a, e).violations) = Range(a.violations) \cup Range(e.violations)
           /\ Len(Joined(a, e).violations) = Cardinality(Range(Joined(a, e).violations))
  <1> DEFINE j == Joined(a, e)
             codes == Distinct(a.violations \o e.violations)
  <1>1. a.pass \in Passes /\ e.pass \in Passes /\ a.violations \in Seq(STRING) /\ e.violations \in Seq(STRING)
    BY EntryParts
  <1>2. /\ a.violations \o e.violations \in Seq(STRING)
        /\ Range(a.violations \o e.violations) = Range(a.violations) \cup Range(e.violations)
    BY <1>1, RangeJoined
  <1>3. codes \in Seq(STRING) /\ Range(codes) = Range(a.violations) \cup Range(e.violations)
        /\ Len(codes) = Cardinality(Range(codes))
    <2> DEFINE v == a.violations \o e.violations
    <2>1. v \in Seq(STRING)
      BY <1>2
    <2> HIDE DEF v
    <2>2. /\ Distinct(v) \in Seq(STRING) /\ Range(Distinct(v)) = Range(v)
          /\ Len(Distinct(v)) = Cardinality(Range(v))
      BY <2>1, DistinctKeeps
    <2> QED
      BY <1>2, <2>2 DEF v
  <1>4. Both(a.pass, e.pass) \in Passes
    BY DEF Both, Passes
  <1>5. j = [intensity |-> a.intensity, pass |-> Both(a.pass, e.pass), violations |-> codes]
    <2>1. a = [intensity |-> a.intensity, pass |-> a.pass, violations |-> a.violations]
      BY DEF Entry
    <2> DEFINE p == Both(a.pass, e.pass)
    <2>2. j = [[a EXCEPT !.pass = p] EXCEPT !.violations = codes]
      <3>1. [a EXCEPT !.pass = p].violations = a.violations
        BY <2>1
      <3> HIDE DEF p
      <3> QED
        BY <3>1 DEF Joined, p
    <2> HIDE DEF p, codes, j
    <2>3. j = [intensity |-> a.intensity, pass |-> p, violations |-> codes]
      BY <2>1, <2>2
    <2> QED
      BY <2>3 DEF p
  <1> HIDE DEF codes
  <1>6. j \in Entry /\ j.intensity = a.intensity /\ j.pass = Both(a.pass, e.pass) /\ j.violations = codes
    <2>1. a.intensity \in STRING
      BY EntryParts
    <2> HIDE DEF j
    <2> QED
      BY <1>3, <1>4, <1>5, <2>1 DEF Entry
  <1> HIDE DEF j
  <1> QED
    BY <1>3, <1>6 DEF j

\* Merging one more keeps this.
LEMMA JoinedSums ==
    ASSUME NEW a \in Entry, NEW e \in Entry, NEW G, Sums(a, G)
    PROVE  Sums(Joined(a, e), G \cup {e}) /\ Brief(Joined(a, e), G \cup {e})
  <1> DEFINE j == Joined(a, e)
  <1>1. a.pass \in Passes /\ e.pass \in Passes
    BY EntryParts
  <1>2. /\ j.pass = Both(a.pass, e.pass)
        /\ Range(j.violations) = Range(a.violations) \cup Range(e.violations)
        /\ Len(j.violations) = Cardinality(Range(j.violations))
    BY JoinedParts
  <1> HIDE DEF j
  <1>3. CodesOf(G \cup {e}) = CodesOf(G) \cup Range(e.violations)
    BY DEF CodesOf
  <1>4. j.pass = "odd" <=> OddOf(G \cup {e})
    BY <1>1, <1>2 DEF Sums, OddOf, Both, Passes
  <1>5. j.pass = "yes" <=> \A c \in G \cup {e} : c.pass = "yes"
    BY <1>1, <1>2 DEF Sums, OddOf, Both, Passes
  <1>6. j.pass # "odd" => Range(j.violations) = CodesOf(G \cup {e})
    <2>1. j.pass # "odd" => a.pass # "odd"
      BY <1>2 DEF Both
    <2> QED
      BY <1>2, <1>3, <2>1 DEF Sums
  <1>7. Brief(j, G \cup {e})
    BY <1>2 DEF Brief
  <1> QED
    BY <1>4, <1>5, <1>6, <1>7 DEF Sums, j

\* Those of a set that are about a text.
AboutOf(E, i) == {e \in E : e.intensity = i}

\* The entries of a set, merged.
Merged(merged, E) ==
    /\ merged \in Seq(Entry)
    /\ \A j, k \in DOMAIN merged : merged[j].intensity = merged[k].intensity => j = k
    /\ {merged[k].intensity : k \in DOMAIN merged} = {e.intensity : e \in E}
    /\ \A k \in DOMAIN merged :
         /\ Sums(merged[k], AboutOf(E, merged[k].intensity))
         /\ Brief(merged[k], AboutOf(E, merged[k].intensity))

LEMMA PlaceMerges ==
    ASSUME NEW merged, NEW E, Merged(merged, E), NEW e \in Entry
    PROVE  Merged(Place(merged, e), E \cup {e})
  <1> DEFINE new == Place(merged, e)
             F == E \cup {e}
             D == 1..Len(merged)
  <1>1. merged \in Seq(Entry) /\ DOMAIN merged = D /\ Len(merged) \in Nat
    BY DEF Merged
  <1>2. \A j, k \in D : (merged[j].intensity = merged[k].intensity => j = k)
    BY <1>1 DEF Merged
  <1>3. {merged[k].intensity : k \in D} = {x.intensity : x \in E}
    BY <1>1 DEF Merged
  <1>4. ASSUME NEW k \in D
        PROVE  /\ merged[k] \in Entry
               /\ Sums(merged[k], AboutOf(E, merged[k].intensity))
               /\ Brief(merged[k], AboutOf(E, merged[k].intensity))
    BY <1>1 DEF Merged
  <1>5. /\ AboutOf(F, e.intensity) = AboutOf(E, e.intensity) \cup {e}
        /\ \A i : i # e.intensity => AboutOf(F, i) = AboutOf(E, i)
    BY DEF AboutOf
  <1>6. {x.intensity : x \in F} = {x.intensity : x \in E} \cup {e.intensity}
    OBVIOUS
  <1>7. CASE \E k \in D : merged[k].intensity = e.intensity
    <2>1. new = [k \in D |-> IF merged[k].intensity = e.intensity THEN Joined(merged[k], e) ELSE merged[k]]
      BY <1>1, <1>7 DEF Place
    <2> HIDE DEF new, F
    <2>2. ASSUME NEW k \in D
          PROVE  /\ new[k] \in Entry /\ new[k].intensity = merged[k].intensity
                 /\ Sums(new[k], AboutOf(F, new[k].intensity))
                 /\ Brief(new[k], AboutOf(F, new[k].intensity))
      <3>1. CASE merged[k].intensity = e.intensity
        <4>1. new[k] = Joined(merged[k], e)
          BY <2>1, <3>1
        <4> DEFINE G == AboutOf(E, e.intensity)
        <4>2. merged[k] \in Entry /\ Sums(merged[k], G)
          BY <1>4, <3>1
        <4> HIDE DEF G
        <4>3. /\ Joined(merged[k], e) \in Entry /\ Joined(merged[k], e).intensity = merged[k].intensity
              /\ Sums(Joined(merged[k], e), G \cup {e}) /\ Brief(Joined(merged[k], e), G \cup {e})
          BY <4>2, JoinedParts, JoinedSums
        <4> QED
          BY <1>5, <3>1, <4>1, <4>3 DEF G
      <3>2. CASE merged[k].intensity # e.intensity
        <4>1. new[k] = merged[k]
          BY <2>1, <3>2
        <4> QED
          BY <1>4, <1>5, <3>2, <4>1
      <3> QED
        BY <3>1, <3>2
    <2>3. new \in Seq(Entry) /\ DOMAIN new = D
      BY <1>1, <2>1, <2>2
    <2>4. \A j, k \in D : (new[j].intensity = new[k].intensity => j = k)
      BY <1>2, <2>2
    <2>5. {new[k].intensity : k \in D} = {merged[k].intensity : k \in D}
      BY <2>2
    <2>6. {new[k].intensity : k \in D} = {x.intensity : x \in F}
      BY <1>3, <1>6, <1>7, <2>5
    <2> QED
      BY <2>2, <2>3, <2>4, <2>6 DEF Merged, new, F
  <1>8. CASE ~\E k \in D : merged[k].intensity = e.intensity
    <2>1. new = Append(merged, e)
      BY <1>1, <1>8 DEF Place
    <2> DEFINE n == Len(merged) + 1
    <2>2. /\ new \in Seq(Entry) /\ DOMAIN new = 1..n /\ n \in Nat /\ n \notin D /\ 1..n = D \cup {n}
          /\ new[n] = e /\ \A k \in D : new[k] = merged[k]
      BY <1>1, <2>1
    <2> HIDE DEF new, F, D, n
    <2>3. AboutOf(E, e.intensity) = {}
      <3>1. e.intensity \notin {merged[k].intensity : k \in D}
        BY <1>8
      <3> QED
        BY <1>3, <3>1 DEF AboutOf
    <2>4. Sums(e, AboutOf(F, e.intensity)) /\ Brief(e, AboutOf(F, e.intensity))
      <3>1. AboutOf(F, e.intensity) = {e}
        BY <1>5, <2>3
      <3> QED
        BY <3>1, SumsOne, EntryParts
    <2>5. ASSUME NEW k \in 1..n
          PROVE  /\ Sums(new[k], AboutOf(F, new[k].intensity))
                 /\ Brief(new[k], AboutOf(F, new[k].intensity))
      <3>1. CASE k = n
        BY <2>2, <2>4, <3>1
      <3>2. CASE k # n
        <4>1. k \in D /\ new[k] = merged[k] /\ merged[k].intensity # e.intensity
          BY <1>8, <2>2, <3>2
        <4> QED
          BY <1>4, <1>5, <4>1
      <3> QED
        BY <3>1, <3>2
    <2>6. \A j, k \in 1..n : (new[j].intensity = new[k].intensity => j = k)
      BY <1>2, <1>8, <2>2
    <2>7. {new[k].intensity : k \in 1..n} = {merged[k].intensity : k \in D} \cup {e.intensity}
      BY <2>2
    <2>8. {new[k].intensity : k \in 1..n} = {x.intensity : x \in F}
      BY <1>3, <1>6, <2>7
    <2> QED
      BY <2>2, <2>5, <2>6, <2>8 DEF Merged, new, F
  <1> QED
    BY <1>7, <1>8

LEMMA PlaceStays ==
    ASSUME NEW merged \in Seq(Entry), NEW e \in Entry
    PROVE  Place(merged, e) \in Seq(Entry)
  <1>1. Append(merged, e) \in Seq(Entry)
    OBVIOUS
  <1>2. [k \in DOMAIN merged |-> IF merged[k].intensity = e.intensity
                                 THEN Joined(merged[k], e) ELSE merged[k]] \in Seq(Entry)
    BY JoinedParts
  <1> QED
    BY <1>1, <1>2 DEF Place

\* The merged entries of each prefix.
Places(placed, whole) ==
    placed = [n \in 0..Len(whole) |->
                IF n = 0 THEN <<>> ELSE Place(placed[n - 1], whole[n])]

LEMMA PlacesExist ==
    ASSUME NEW whole \in Seq(Entry)
    PROVE  \E f : Places(f, whole)
  <1> DEFINE step == [q \in Seq(Entry) \X Entry |-> Place(q[1], q[2])]
  <1>1. Len(whole) \in Nat /\ <<>> \in Seq(Entry)
    OBVIOUS
  <1>2. step \in [Seq(Entry) \X Entry -> Seq(Entry)]
    BY PlaceStays
  <1>3. PICK f : Runs(f, <<>>, step, whole, Len(whole))
    <2> HIDE DEF step
    <2> QED
      BY <1>1, RunsExist
  <1>4. \A m \in 0..Len(whole) : f[m] \in Seq(Entry)
    <2> HIDE DEF step
    <2> QED
      BY <1>1, <1>2, <1>3, RunsStay
  <1>5. ASSUME NEW m \in 0..Len(whole)
        PROVE  f[m] = IF m = 0 THEN <<>> ELSE Place(f[m - 1], whole[m])
    <2>1. f[m] = IF m = 0 THEN <<>> ELSE step[<<f[m - 1], whole[m]>>]
      BY <1>3 DEF Runs
    <2>2. m # 0 => f[m - 1] \in Seq(Entry) /\ whole[m] \in Entry
      BY <1>4
    <2>3. m # 0 => step[<<f[m - 1], whole[m]>>] = Place(f[m - 1], whole[m])
      BY <2>2
    <2> QED
      BY <2>1, <2>3
  <1>6. f = [m \in 0..Len(whole) |-> f[m]]
    BY <1>3 DEF Runs
  <1> QED
    BY <1>5, <1>6, Zenon DEF Places

\* All of them are merged in the end.
LEMMA PlacesMerge ==
    ASSUME NEW whole \in Seq(Entry), NEW f, Places(f, whole)
    PROVE  Merged(f[Len(whole)], Range(whole))
  <1> DEFINE first(m) == {whole[k] : k \in 1..m}
             T == {m \in 0..Len(whole) : Merged(f[m], first(m))}
  <1>1. Len(whole) \in Nat /\ 0 \in 0..Len(whole) /\ Len(whole) \in 0..Len(whole)
    OBVIOUS
  <1>2. 0 \in T
    <2>1. f[0] = <<>> /\ first(0) = {}
      BY <1>1 DEF Places
    <2>2. Merged(<<>>, {})
      BY DEF Merged
    <2> HIDE DEF first
    <2> QED
      BY <1>1, <2>1, <2>2
  <1>3. ASSUME NEW m \in 1..Len(whole), m - 1 \in T PROVE m \in T
    <2>1. m \in 0..Len(whole) /\ m # 0 /\ whole[m] \in Entry
      OBVIOUS
    <2>2. Merged(f[m - 1], first(m - 1))
      BY <1>3
    <2>3. first(m) = first(m - 1) \cup {whole[m]}
      <3>1. 1..m = (1..m - 1) \cup {m}
        OBVIOUS
      <3> QED
        BY <3>1
    <2> HIDE DEF first, T
    <2>4. f[m] = Place(f[m - 1], whole[m])
      BY <2>1 DEF Places
    <2>5. Merged(Place(f[m - 1], whole[m]), first(m - 1) \cup {whole[m]})
      BY <2>1, <2>2, PlaceMerges
    <2> QED
      BY <2>1, <2>3, <2>4, <2>5 DEF T
  <1>4. Len(whole) \in T
    <2> HIDE DEF T
    <2>1. \A m \in 1..Len(whole) : m - 1 \in T => m \in T
      BY <1>3
    <2>2. \A m \in 0..Len(whole) : m \in T
      BY <1>1, <1>2, <2>1, Climb
    <2> QED
      BY <1>1, <2>2
  <1>5. first(Len(whole)) = Range(whole)
    BY DEF Range
  <1> HIDE DEF first
  <1> QED
    BY <1>4, <1>5

\* The entries of the known intensities come first, each merged of all about
\* its text, and then the others as they are.
LEMMA MergeSameIs ==
    ASSUME NEW entries \in Seq(Entry)
    PROVE  \E merged, others \in Seq(Entry) :
             /\ MergeSameIntensity(entries) = merged \o others
             /\ Merged(merged, {e \in Range(entries) : OfAnIntensity(e)})
             /\ Range(others) = {e \in Range(entries) : ~OfAnIntensity(e)}
  <1> DEFINE known == {e \in Range(entries) : OfAnIntensity(e)}
             whole == Select(entries, known)
             others == Select(entries, Range(entries) \ known)
             placed == CHOOSE f : Places(f, whole)
  <1>1. whole \in Seq(Entry) /\ Range(whole) = known
    <2> HIDE DEF known
    <2>1. Select(entries, known) \in Seq(Entry) /\ Range(Select(entries, known)) = Range(entries) \cap known
      BY SelectKeeps
    <2> QED
      BY <2>1 DEF known
  <1>2. others \in Seq(Entry) /\ Range(others) = {e \in Range(entries) : ~OfAnIntensity(e)}
    <2> DEFINE K == Range(entries) \ known
    <2>1. K = {e \in Range(entries) : ~OfAnIntensity(e)}
      OBVIOUS
    <2> HIDE DEF K
    <2>2. Select(entries, K) \in Seq(Entry) /\ Range(Select(entries, K)) = Range(entries) \cap K
      BY SelectKeeps
    <2> QED
      BY <2>1, <2>2 DEF K
  <1>3. Places(placed, whole)
    <2> HIDE DEF whole
    <2> QED
      BY <1>1, PlacesExist
  <1>4. MergeSameIntensity(entries) = placed[Len(whole)] \o others
    BY DEF MergeSameIntensity, Places
  <1> HIDE DEF placed, whole, others
  <1>5. Merged(placed[Len(whole)], known)
    <2> HIDE DEF known
    <2> QED
      BY <1>1, <1>3, PlacesMerge
  <1>6. placed[Len(whole)] \in Seq(Entry)
    BY <1>5 DEF Merged
  <1> QED
    BY <1>2, <1>4, <1>5, <1>6

\* The entries of a round, merged: one for each known intensity.
LEMMA MergedList ==
    ASSUME NEW texts \in Seq(Entry), NEW merged, merged = MergeSameIntensity(texts)
    PROVE  /\ merged \in Seq(Entry)
           /\ {merged[k].intensity : k \in DOMAIN merged} = {e.intensity : e \in Range(texts)}
           /\ \A j, k \in DOMAIN merged :
                OfAnIntensity(merged[k]) /\ merged[j].intensity = merged[k].intensity => j = k
           /\ \A k \in DOMAIN merged : OfAnIntensity(merged[k]) =>
                /\ Sums(merged[k], AboutOf(Range(texts), merged[k].intensity))
                /\ Brief(merged[k], AboutOf(Range(texts), merged[k].intensity))
  <1> DEFINE E == Range(texts)
             known == {e \in E : OfAnIntensity(e)}
             unknown == {e \in E : ~OfAnIntensity(e)}
  <1>1. PICK m \in Seq(Entry), o \in Seq(Entry) :
          /\ merged = m \o o /\ Merged(m, known) /\ Range(o) = unknown
    BY MergeSameIs
  <1> DEFINE a == Len(m)
             b == Len(o)
  <1>2. /\ a \in Nat /\ b \in Nat /\ DOMAIN m = 1..a /\ DOMAIN o = 1..b
        /\ merged \in Seq(Entry) /\ DOMAIN merged = 1..a + b
        /\ \A k \in 1..a + b : merged[k] = IF k <= a THEN m[k] ELSE o[k - a]
    BY <1>1
  <1>3. Range(merged) = Range(m) \cup unknown
    BY <1>1, RangeJoined
  <1>4. /\ \A j, k \in 1..a : (m[j].intensity = m[k].intensity => j = k)
        /\ {m[k].intensity : k \in 1..a} = {e.intensity : e \in known}
        /\ \A k \in 1..a : /\ Sums(m[k], AboutOf(known, m[k].intensity))
                           /\ Brief(m[k], AboutOf(known, m[k].intensity))
    BY <1>1, <1>2 DEF Merged
  <1>5. Range(m) = {m[k] : k \in 1..a} /\ Range(merged) = {merged[k] : k \in DOMAIN merged}
    BY <1>2 DEF Range
  <1> HIDE DEF known, unknown, a, b, E
  <1>6. \A k \in 1..a : OfAnIntensity(m[k])
    <2>1. ASSUME NEW k \in 1..a PROVE OfAnIntensity(m[k])
      <3>1. PICK e \in known : e.intensity = m[k].intensity
        <4>1. m[k].intensity \in {m[n].intensity : n \in 1..a}
          OBVIOUS
        <4>2. m[k].intensity \in {e.intensity : e \in known}
          BY <1>4, <4>1
        <4> QED
          BY <4>2
      <3> QED
        BY <3>1 DEF known, OfAnIntensity
    <2> QED
      BY <2>1
  <1>7. ASSUME NEW k \in 1..a + b, OfAnIntensity(merged[k])
        PROVE  k \in 1..a /\ merged[k] = m[k]
    <2>1. CASE k <= a
      BY <1>2, <2>1
    <2>2. CASE ~(k <= a)
      <3>1. k - a \in 1..b /\ merged[k] = o[k - a]
        BY <1>2, <2>2
      <3>2. o[k - a] \in Range(o)
        BY <1>2, <3>1 DEF Range
      <3> QED
        BY <1>1, <1>7, <3>1, <3>2 DEF unknown
    <2> QED
      BY <2>1, <2>2
  <1>8. ASSUME NEW j \in 1..a + b, NEW k \in 1..a + b, OfAnIntensity(merged[k]),
               merged[j].intensity = merged[k].intensity
        PROVE  j = k
    <2>1. OfAnIntensity(merged[j])
      BY <1>8 DEF OfAnIntensity
    <2>2. j \in 1..a /\ merged[j] = m[j] /\ k \in 1..a /\ merged[k] = m[k]
      BY <1>7, <1>8, <2>1
    <2> QED
      BY <1>4, <1>8, <2>2
  <1>9. ASSUME NEW i, i \in {"mild", "spicy", "hell"} PROVE AboutOf(known, i) = AboutOf(E, i)
    BY <1>9 DEF AboutOf, known, OfAnIntensity
  <1>10. ASSUME NEW k \in 1..a + b, OfAnIntensity(merged[k])
         PROVE  /\ Sums(merged[k], AboutOf(E, merged[k].intensity))
                /\ Brief(merged[k], AboutOf(E, merged[k].intensity))
    <2>1. k \in 1..a /\ merged[k] = m[k]
      BY <1>7, <1>10
    <2>2. AboutOf(known, m[k].intensity) = AboutOf(E, m[k].intensity)
      BY <1>9, <1>10, <2>1 DEF OfAnIntensity
    <2>3. /\ Sums(m[k], AboutOf(known, m[k].intensity))
          /\ Brief(m[k], AboutOf(known, m[k].intensity))
      BY <1>4, <2>1
    <2> QED
      BY <2>1, <2>2, <2>3
  <1>11. {merged[k].intensity : k \in DOMAIN merged} = {e.intensity : e \in E}
    <2>1. {merged[k].intensity : k \in DOMAIN merged} = {e.intensity : e \in Range(merged)}
      BY <1>5
    <2>2. {e.intensity : e \in Range(m)} = {e.intensity : e \in known}
      <3>1. {e.intensity : e \in Range(m)} = {m[k].intensity : k \in 1..a}
        BY <1>5
      <3> QED
        BY <1>4, <3>1, Zenon
    <2>3. E = known \cup unknown
      BY DEF known, unknown
    <2>4. {e.intensity : e \in Range(merged)} =
             {e.intensity : e \in Range(m)} \cup {e.intensity : e \in unknown}
      BY <1>3
    <2>5. {e.intensity : e \in E} = {e.intensity : e \in known} \cup {e.intensity : e \in unknown}
      BY <2>3
    <2> QED
      BY <2>1, <2>2, <2>4, <2>5
  <1> QED
    BY <1>2, <1>8, <1>10, <1>11 DEF E

\* What is forgiven of what is summed up is what all that are given may have
\* forgiven.
LEMMA ForgivenIs ==
    ASSUME NEW check \in Check \cup Entry, NEW G, Sums(check, G)
    PROVE  /\ check \in Entry => Forgiven(check) \in Entry /\ Forgiven(check).intensity = check.intensity
           /\ Forgiven(check).pass \in Passes /\ Len(Forgiven(check).violations) <= Len(check.violations)
           /\ Forgiven(check).violations \in Seq(STRING)
           /\ Forgiven(check).pass = "odd" <=> OddOf(G)
           /\ ~OddOf(G) => (Forgiven(check).pass = "yes" <=> PassesAll(G))
  <1> DEFINE codes == check.violations
             kept == Select(codes, Range(codes) \ Advisory)
             after == Forgiven(check)
             verdict == IF kept = <<>> THEN "yes" ELSE "no"
  <1>1. check.pass \in Passes /\ codes \in Seq(STRING)
    BY DEF Check, Entry
  <1>2. /\ kept \in Seq(STRING) /\ Len(kept) <= Len(codes) /\ Range(kept) = Range(codes) \ Advisory
        /\ Len(kept) = Len(codes) <=> Range(codes) \cap Advisory = {}
    <2> DEFINE K == Range(codes) \ Advisory
    <2>1. /\ Select(codes, K) \in Seq(STRING) /\ Len(Select(codes, K)) <= Len(codes)
          /\ Range(Select(codes, K)) = Range(codes) \cap K
          /\ Len(Select(codes, K)) = Len(codes) <=> Range(codes) \subseteq K
      <3> HIDE DEF K, codes
      <3> QED
        BY <1>1, SelectKeeps
    <2> QED
      BY <2>1
  <1>3. kept = <<>> <=> Range(codes) \subseteq Advisory
    <2>1. kept = <<>> <=> Range(kept) = {}
      <3>1. kept \in Seq(STRING)
        BY <1>2
      <3> HIDE DEF kept
      <3>2. kept = <<>> => Range(kept) = {}
        BY DEF Range
      <3>3. kept # <<>> => kept[1] \in Range(kept)
        BY <3>1 DEF Range
      <3> QED
        BY <3>2, <3>3
    <2> HIDE DEF kept
    <2> QED
      BY <1>2, <2>1
  <1>4. CASE check.pass # "no" \/ Len(kept) = Len(codes)
    <2>1. after = check
      BY <1>4 DEF Forgiven
    <2> HIDE DEF after, kept
    <2>2. after.pass = "odd" <=> OddOf(G)
      BY <2>1 DEF Sums
    <2>3. ASSUME ~OddOf(G) PROVE after.pass = "yes" <=> PassesAll(G)
      <3>1. CASE check.pass # "no"
        BY <1>1, <2>1, <2>3, <3>1 DEF Sums, PassesAll, Passes
      <3>2. CASE check.pass = "no"
        <4>1. Range(codes) \cap Advisory = {} /\ Range(codes) = CodesOf(G)
          BY <1>2, <1>4, <3>2 DEF Sums
        <4>2. CodesOf(G) # Advisory
          BY <4>1 DEF Advisory
        <4>3. ~\A c \in G : c.pass = "yes"
          BY <3>2 DEF Sums
        <4> QED
          BY <2>1, <3>2, <4>2, <4>3 DEF PassesAll
      <3> QED
        BY <3>1, <3>2
    <2>4. Len(after.violations) <= Len(codes)
      BY <1>1, <2>1
    <2> QED
      BY <1>1, <2>1, <2>2, <2>3, <2>4 DEF after
  <1>5. CASE check.pass = "no" /\ Len(kept) # Len(codes)
    <2>1. after = [check EXCEPT !.violations = kept, !.pass = verdict]
      BY <1>5 DEF Forgiven
    <2>2. verdict \in Passes /\ verdict # "odd"
      BY DEF Passes
    <2>3. after.violations = kept /\ after.pass = verdict
      <3> HIDE DEF after, kept, verdict
      <3> QED
        BY <2>1 DEF Check, Entry
    <2>4. check \in Entry => after \in Entry /\ after.intensity = check.intensity
      <3> HIDE DEF after, kept, verdict
      <3> QED
        BY <1>2, <2>1, <2>2 DEF Entry
    <2>5. ~OddOf(G) /\ (~\A c \in G : c.pass = "yes") /\ Range(codes) = CodesOf(G)
      BY <1>5 DEF Sums
    <2>6. Range(codes) \cap Advisory # {}
      BY <1>2, <1>5
    <2>7. after.pass = "yes" <=> CodesOf(G) = Advisory
      <3>1. after.pass = "yes" <=> kept = <<>>
        <4> HIDE DEF after, kept
        <4> QED
          BY <2>3
      <3> HIDE DEF after, kept
      <3> QED
        BY <1>3, <2>5, <2>6, <3>1 DEF Advisory
    <2> HIDE DEF after, kept, verdict
    <2>8. after.pass # "odd" /\ after.pass \in Passes /\ after.violations \in Seq(STRING)
          /\ Len(after.violations) <= Len(codes)
      BY <1>2, <2>2, <2>3
    <2> QED
      BY <2>4, <2>5, <2>7, <2>8 DEF PassesAll, after
  <1> QED
    BY <1>4, <1>5

\* What a round says of a text that is judged in it.
SaysOf(entry, given, templates) ==
    IF entry.intensity \in templates
    THEN entry.pass = "yes" /\ entry.violations = <<>>
    ELSE /\ entry.pass = "odd" <=> OddOf(given)
         /\ ~OddOf(given) =>
              /\ entry.pass = "yes" <=> PassesAll(given)
              /\ (/\ \A c \in given : Len(c.violations) <= MaxViolations
                  /\ Cardinality(CodesOf(given)) <= MaxViolations)
                   => Len(entry.violations) <= MaxViolations

LEMMA FreshIs ==
    ASSUME NEW e \in Entry, NEW G, Sums(e, G), Brief(e, G), NEW templates, NEW r,
           r = TemplatePasses(Forgiven(e), templates)
    PROVE  r \in Entry /\ r.intensity = e.intensity /\ SaysOf(r, G, templates)
  <1> DEFINE f == Forgiven(e)
  <1>1. /\ f \in Entry /\ f.intensity = e.intensity /\ f.pass \in Passes
        /\ Len(f.violations) <= Len(e.violations) /\ f.violations \in Seq(STRING)
        /\ f.pass = "odd" <=> OddOf(G)
        /\ ~OddOf(G) => (f.pass = "yes" <=> PassesAll(G))
    BY ForgivenIs
  <1>2. r = TemplatePasses(f, templates)
    OBVIOUS
  <1> HIDE DEF f
  <1>3. CASE f.intensity \in templates
    <2>1. r = [f EXCEPT !.pass = "yes", !.violations = <<>>]
      BY <1>2, <1>3 DEF TemplatePasses
    <2>2. f.intensity \in STRING /\ <<>> \in Seq(STRING) /\ "yes" \in Passes
      BY <1>1 DEF Entry, Passes
    <2>3. r \in Entry /\ r.intensity = f.intensity /\ r.pass = "yes" /\ r.violations = <<>>
      BY <1>1, <2>1, <2>2 DEF Entry
    <2> QED
      BY <1>1, <1>3, <2>3 DEF SaysOf
  <1>4. CASE f.intensity \notin templates
    <2>1. r = f
      BY <1>2, <1>4 DEF TemplatePasses
    <2>2. ASSUME ~OddOf(G), \A c \in G : Len(c.violations) <= MaxViolations,
                 Cardinality(CodesOf(G)) <= MaxViolations
          PROVE  Len(r.violations) <= MaxViolations
      <3>1. e.violations \in Seq(STRING) /\ Len(e.violations) \in Nat /\ Len(f.violations) \in Nat
            /\ MaxViolations \in Nat
        BY <1>1, EntryParts, ReportAssumption
      <3>2. Range(e.violations) = CodesOf(G)
        BY <2>2 DEF Sums
      <3>3. Len(e.violations) <= MaxViolations
        BY <2>2, <3>2 DEF Brief
      <3> QED
        BY <1>1, <2>1, <3>1, <3>3
    <2>3. ~OddOf(G) => (r.pass = "yes" <=> PassesAll(G))
      BY <1>1, <2>1, Zenon
    <2>4. r.pass = "odd" <=> OddOf(G)
      BY <1>1, <2>1
    <2>5. SaysOf(r, G, templates)
      BY <1>4, <2>1, <2>2, <2>3, <2>4, Zenon DEF SaysOf
    <2> QED
      BY <1>1, <2>1, <2>5
  <1> QED
    BY <1>3, <1>4

\* The judged entries of a round.
FreshOf(texts, templates) ==
    LET merged == MergeSameIntensity(texts)
    IN  [k \in DOMAIN merged |-> TemplatePasses(Forgiven(merged[k]), templates)]

LEMMA FreshList ==
    ASSUME NEW texts \in Seq(Entry), NEW templates, NEW fresh, fresh = FreshOf(texts, templates)
    PROVE  /\ fresh \in Seq(Entry)
           /\ {e.intensity : e \in Range(fresh)} = {e.intensity : e \in Range(texts)}
           /\ \A j, k \in DOMAIN fresh :
                OfAnIntensity(fresh[k]) /\ fresh[j].intensity = fresh[k].intensity => j = k
           /\ \A e \in Range(fresh) : OfAnIntensity(e) =>
                SaysOf(e, AboutOf(Range(texts), e.intensity), templates)
  <1> DEFINE merged == MergeSameIntensity(texts)
             E == Range(texts)
  <1>1. /\ merged \in Seq(Entry)
        /\ {merged[k].intensity : k \in DOMAIN merged} = {e.intensity : e \in E}
        /\ \A j, k \in DOMAIN merged :
             OfAnIntensity(merged[k]) /\ merged[j].intensity = merged[k].intensity => j = k
        /\ \A k \in DOMAIN merged : OfAnIntensity(merged[k]) =>
             /\ Sums(merged[k], AboutOf(E, merged[k].intensity))
             /\ Brief(merged[k], AboutOf(E, merged[k].intensity))
    BY MergedList
  <1>2. fresh = [k \in DOMAIN merged |-> TemplatePasses(Forgiven(merged[k]), templates)]
    BY DEF FreshOf
  <1> HIDE DEF merged, E
  <1>3. ASSUME NEW k \in DOMAIN merged
        PROVE  /\ fresh[k] \in Entry /\ fresh[k].intensity = merged[k].intensity
               /\ OfAnIntensity(merged[k]) =>
                    SaysOf(fresh[k], AboutOf(E, merged[k].intensity), templates)
    <2>1. merged[k] \in Entry /\ fresh[k] = TemplatePasses(Forgiven(merged[k]), templates)
      BY <1>1, <1>2
    <2>2. ASSUME NEW G, Sums(merged[k], G), Brief(merged[k], G)
          PROVE  fresh[k] \in Entry /\ fresh[k].intensity = merged[k].intensity
                 /\ SaysOf(fresh[k], G, templates)
      BY <2>1, <2>2, FreshIs
    <2>3. fresh[k] \in Entry /\ fresh[k].intensity = merged[k].intensity
      <3>1. Sums(merged[k], {merged[k]}) /\ Brief(merged[k], {merged[k]})
        BY <2>1, EntryParts, SumsOne
      <3> QED
        BY <2>2, <3>1
    <2> QED
      BY <1>1, <2>2, <2>3
  <1>4. fresh \in Seq(Entry) /\ DOMAIN fresh = DOMAIN merged
    <2>1. DOMAIN merged = 1..Len(merged) /\ Len(merged) \in Nat
      BY <1>1
    <2> QED
      BY <1>2, <1>3, <2>1
  <1>5. Range(fresh) = {fresh[k] : k \in DOMAIN merged}
    BY <1>4 DEF Range
  <1>6. {e.intensity : e \in Range(fresh)} = {merged[k].intensity : k \in DOMAIN merged}
    BY <1>3, <1>5
  <1>7. \A j, k \in DOMAIN merged :
          OfAnIntensity(fresh[k]) /\ fresh[j].intensity = fresh[k].intensity => j = k
    BY <1>1, <1>3 DEF OfAnIntensity
  <1>8. ASSUME NEW e \in Range(fresh), OfAnIntensity(e)
        PROVE  SaysOf(e, AboutOf(E, e.intensity), templates)
    <2>1. PICK k \in DOMAIN merged : e = fresh[k]
      BY <1>5
    <2>2. OfAnIntensity(merged[k])
      BY <1>3, <1>8, <2>1 DEF OfAnIntensity
    <2> QED
      BY <1>3, <2>1, <2>2
  <1> QED
    BY <1>1, <1>4, <1>6, <1>7, <1>8 DEF E

LEMMA TargetsParts ==
    /\ Targets \in Seq({"mild", "spicy", "hell"}) /\ Len(Targets) \in 1..3
    /\ DOMAIN Targets = 1..Len(Targets) /\ Range(Targets) = {Targets[n] : n \in 1..Len(Targets)}
    /\ Range(Targets) \subseteq {"mild", "spicy", "hell"}
  <1>1. /\ Targets \in Seq({"mild", "spicy", "hell"}) /\ Targets # <<>>
        /\ \A j, k \in DOMAIN Targets : Targets[j] = Targets[k] => j = k
    BY TargetsAre
  <1>2. Len(Targets) \in Nat /\ DOMAIN Targets = 1..Len(Targets) /\ Len(Targets) # 0
    BY <1>1
  <1>3. ~(Len(Targets) >= 4)
    <2>1. ASSUME Len(Targets) >= 4 PROVE FALSE
      <3>1. {1, 2, 3, 4} \subseteq 1..Len(Targets)
        BY <1>2, <2>1
      <3>2. \A n \in {1, 2, 3, 4} : Targets[n] \in {"mild", "spicy", "hell"}
        BY <1>1, <1>2, <3>1
      <3>3. \A j, k \in {1, 2, 3, 4} : (Targets[j] = Targets[k] => j = k)
        BY <1>1, <1>2, <3>1
      <3> QED
        BY <3>2, <3>3
    <2> QED
      BY <2>1
  <1>4. Range(Targets) = {Targets[n] : n \in 1..Len(Targets)}
    BY <1>2 DEF Range
  <1>5. \A n \in 1..Len(Targets) : Targets[n] \in {"mild", "spicy", "hell"}
    BY <1>1, <1>2
  <1> QED
    BY <1>1, <1>2, <1>3, <1>4, <1>5

\* The entries of a round, of those judged in it.
EntriesOf(fresh, judged, reused) ==
    LET of(i) == Select(fresh, {e \in Range(fresh) : e.intensity = i})
                   \o (IF i \in DOMAIN reused \ judged THEN <<reused[i]>> ELSE <<>>)
    IN  FlattenSeq([n \in DOMAIN Targets |-> of(Targets[n])])
          \o Select(fresh, {e \in Range(fresh) : e.intensity \notin Range(Targets)})

LEMMA EntriesAre ==
    ASSUME NEW texts, NEW templates, NEW reused, NEW fresh, fresh = FreshOf(texts, templates),
           NEW judged, judged = {fresh[k].intensity : k \in DOMAIN fresh}
    PROVE  Entries(texts, templates, reused) = EntriesOf(fresh, judged, reused)
  <1> DEFINE F == FreshOf(texts, templates)
  <1>1. Entries(texts, templates, reused) = EntriesOf(F, {F[k].intensity : k \in DOMAIN F}, reused)
    BY Zenon DEF Entries, EntriesOf, FreshOf
  <1> HIDE DEF F
  <1>2. F = fresh
    BY DEF F
  <1> QED
    BY <1>1, <1>2

\* All entries of a round are those judged in it and those kept of the others.
AllOf(all, fresh, judged, reused) ==
    /\ all \in Seq(Entry) /\ Range(all) = Range(fresh) \cup {reused[i] : i \in DOMAIN reused \ judged}
    /\ judged \subseteq Range(Targets) => Len(all) <= 3

LEMMA EntriesList ==
    ASSUME NEW texts \in Seq(Entry), NEW templates, NEW reused, KeptOf(reused),
           NEW fresh, fresh = FreshOf(texts, templates),
           NEW judged, judged = {e.intensity : e \in Range(fresh)}
    PROVE  AllOf(Entries(texts, templates, reused), fresh, judged, reused)
  <1> DEFINE own(i) == Select(fresh, {e \in Range(fresh) : e.intensity = i})
             old(i) == IF i \in DOMAIN reused \ judged THEN <<reused[i]>> ELSE <<>>
             lists == [n \in DOMAIN Targets |-> own(Targets[n]) \o old(Targets[n])]
             extra == Select(fresh, {e \in Range(fresh) : e.intensity \notin Range(Targets)})
             all == Entries(texts, templates, reused)
  <1>1. /\ fresh \in Seq(Entry)
        /\ \A j, k \in DOMAIN fresh :
             OfAnIntensity(fresh[k]) /\ fresh[j].intensity = fresh[k].intensity => j = k
    BY FreshList
  <1>2. all = FlattenSeq(lists) \o extra
    <2>1. judged = {fresh[k].intensity : k \in DOMAIN fresh}
      BY DEF Range
    <2>2. all = EntriesOf(fresh, judged, reused)
      BY <2>1, EntriesAre
    <2> QED
      BY <2>2, Zenon DEF EntriesOf
  <1>3. ASSUME NEW i
        PROVE  own(i) \in Seq(Entry) /\ Range(own(i)) = {e \in Range(fresh) : e.intensity = i}
    <2> DEFINE K == {e \in Range(fresh) : e.intensity = i}
    <2> HIDE DEF K
    <2>1. Select(fresh, K) \in Seq(Entry) /\ Range(Select(fresh, K)) = Range(fresh) \cap K
      BY <1>1, SelectKeeps
    <2> QED
      BY <2>1 DEF K
  <1>4. extra \in Seq(Entry) /\ Range(extra) = {e \in Range(fresh) : e.intensity \notin Range(Targets)}
        /\ Len(extra) <= Len(fresh)
    <2> DEFINE K == {e \in Range(fresh) : e.intensity \notin Range(Targets)}
    <2> HIDE DEF K
    <2>1. /\ Select(fresh, K) \in Seq(Entry) /\ Range(Select(fresh, K)) = Range(fresh) \cap K
          /\ Len(Select(fresh, K)) <= Len(fresh)
      BY <1>1, SelectKeeps
    <2> QED
      BY <2>1 DEF K
  <1>5. ASSUME NEW i
        PROVE  /\ old(i) \in Seq(Entry) /\ Len(old(i)) <= 1
               /\ Range(old(i)) = {reused[j] : j \in {i} \cap (DOMAIN reused \ judged)}
               /\ i \in judged => old(i) = <<>>
    <2>1. CASE i \in DOMAIN reused \ judged
      <3>1. old(i) = <<reused[i]>> /\ reused[i] \in Entry
        BY <2>1 DEF KeptOf
      <3>2. <<reused[i]>> \in Seq(Entry) /\ Len(<<reused[i]>>) = 1 /\ Range(<<reused[i]>>) = {reused[i]}
        BY <3>1 DEF Range
      <3> HIDE DEF old
      <3> QED
        BY <2>1, <3>1, <3>2
    <2>2. CASE i \notin DOMAIN reused \ judged
      <3>1. old(i) = <<>>
        BY <2>2
      <3>2. <<>> \in Seq(Entry) /\ Len(<<>>) = 0 /\ Range(<<>>) = {}
        BY DEF Range
      <3> HIDE DEF old
      <3> QED
        BY <2>2, <3>1, <3>2
    <2> QED
      BY <2>1, <2>2
  <1>6. ASSUME NEW i \in {"mild", "spicy", "hell"} PROVE Len(own(i)) <= 1
    <2> DEFINE K == {e \in Range(fresh) : e.intensity = i}
    <2>1. \A j, k \in DOMAIN fresh : fresh[j] \in K /\ fresh[k] \in K => j = k
      BY <1>1 DEF OfAnIntensity
    <2> HIDE DEF K
    <2>2. Len(Select(fresh, K)) <= 1
      BY <1>1, <2>1, SelectOne
    <2> QED
      BY <2>2 DEF K
  <1> HIDE DEF own, old, extra, all
  <1>7. ASSUME NEW n \in 1..Len(Targets)
        PROVE  /\ lists[n] \in Seq(Entry) /\ Len(lists[n]) <= 1
               /\ Range(lists[n]) = Range(own(Targets[n])) \cup Range(old(Targets[n]))
    <2>1. lists[n] = own(Targets[n]) \o old(Targets[n]) /\ Targets[n] \in {"mild", "spicy", "hell"}
      BY TargetsParts
    <2> DEFINE a == own(Targets[n])
               b == old(Targets[n])
    <2>2. a \in Seq(Entry) /\ b \in Seq(Entry) /\ Len(a) <= 1 /\ Len(b) <= 1
      BY <1>3, <1>5, <1>6, <2>1
    <2>3. b = <<>> \/ a = <<>>
      <3>1. CASE Targets[n] \in judged
        BY <1>5, <3>1
      <3>2. CASE Targets[n] \notin judged
        <4>1. Range(a) = {}
          BY <1>3, <3>2
        <4>2. a # <<>> => a[1] \in Range(a)
          BY <2>2 DEF Range
        <4> QED
          BY <4>1, <4>2
      <3> QED
        BY <3>1, <3>2
    <2> HIDE DEF a, b
    <2>4. a \o b \in Seq(Entry) /\ Range(a \o b) = Range(a) \cup Range(b)
      BY <2>2, RangeJoined
    <2>5. Len(a \o b) <= 1
      BY <2>2, <2>3
    <2> QED
      BY <2>1, <2>4, <2>5 DEF a, b
  <1>8. lists \in Seq(Seq(Entry)) /\ Len(lists) = Len(Targets) /\ DOMAIN lists = 1..Len(Targets)
    <2>1. DOMAIN lists = 1..Len(Targets) /\ Len(Targets) \in Nat
      BY TargetsParts
    <2> QED
      BY <1>7, <2>1
  <1> HIDE DEF lists
  <1>9. /\ FlattenSeq(lists) \in Seq(Entry)
        /\ Range(FlattenSeq(lists)) = UNION {Range(lists[n]) : n \in 1..Len(Targets)}
        /\ Len(FlattenSeq(lists)) <= Len(Targets)
    <2>1. \A n \in DOMAIN lists : Len(lists[n]) <= 1
      BY <1>7, <1>8
    <2> QED
      BY <1>8, <2>1, FlattenParts
  <1>10. /\ all \in Seq(Entry) /\ Range(all) = Range(FlattenSeq(lists)) \cup Range(extra)
         /\ Len(all) = Len(FlattenSeq(lists)) + Len(extra)
    BY <1>2, <1>4, <1>9, RangeJoined
  <1>11. Range(all) = Range(fresh) \cup {reused[i] : i \in DOMAIN reused \ judged}
    <2>1. ASSUME NEW e \in Range(fresh) PROVE e \in Range(all)
      <3>1. CASE e.intensity \in Range(Targets)
        <4>1. PICK n \in 1..Len(Targets) : e.intensity = Targets[n]
          BY <3>1, TargetsParts
        <4>2. e \in Range(lists[n])
          BY <1>3, <1>7, <4>1
        <4> QED
          BY <1>9, <1>10, <4>2
      <3>2. CASE e.intensity \notin Range(Targets)
        BY <1>4, <1>10, <3>2
      <3> QED
        BY <3>1, <3>2
    <2>2. ASSUME NEW i \in DOMAIN reused \ judged PROVE reused[i] \in Range(all)
      <3>1. PICK n \in 1..Len(Targets) : i = Targets[n]
        BY TargetsParts DEF KeptOf
      <3>2. reused[i] \in Range(lists[n])
        <4>1. Range(old(i)) = {reused[j] : j \in {i} \cap (DOMAIN reused \ judged)}
          BY <1>5
        <4>2. reused[i] \in Range(old(i))
          BY <4>1
        <4> QED
          BY <1>7, <3>1, <4>2
      <3> QED
        BY <1>9, <1>10, <3>2
    <2>3. ASSUME NEW e \in Range(all)
          PROVE  e \in Range(fresh) \cup {reused[i] : i \in DOMAIN reused \ judged}
      <3>1. CASE e \in Range(extra)
        BY <1>4, <3>1
      <3>2. CASE e \in Range(FlattenSeq(lists))
        <4>1. PICK n \in 1..Len(Targets) : e \in Range(lists[n])
          BY <1>9, <3>2
        <4>2. e \in Range(own(Targets[n])) \/ e \in Range(old(Targets[n]))
          BY <1>7, <4>1
        <4>3. Range(own(Targets[n])) \subseteq Range(fresh)
          BY <1>3
        <4>4. Range(old(Targets[n])) \subseteq {reused[i] : i \in DOMAIN reused \ judged}
          BY <1>5
        <4> QED
          BY <4>2, <4>3, <4>4
      <3> QED
        BY <1>10, <3>1, <3>2
    <2> QED
      BY <2>1, <2>2, <2>3
  <1>12. ASSUME judged \subseteq Range(Targets) PROVE Len(all) <= 3
    <2>1. Range(extra) = {}
      BY <1>4, <1>12
    <2>2. extra = <<>>
      <3>1. extra # <<>> => extra[1] \in Range(extra)
        BY <1>4 DEF Range
      <3> QED
        BY <2>1, <3>1
    <2>3. Len(extra) = 0 /\ Len(FlattenSeq(lists)) \in Nat
      BY <1>9, <2>2
    <2>4. Len(FlattenSeq(lists)) <= Len(Targets) /\ Len(Targets) \in 1..3
      BY <1>9, TargetsParts
    <2>5. Len(all) = Len(FlattenSeq(lists)) + Len(extra)
      BY <1>10
    <2> HIDE DEF all, lists, extra
    <2> QED
      BY <2>3, <2>4, <2>5
  <1> QED
    BY <1>10, <1>11, <1>12 DEF all, AllOf

\* What the entries of a round say of each text, of the answers of the round.
LEMMA RoundEntries ==
    ASSUME NEW texts \in Seq(Entry), NEW templates, NEW reused, KeptOf(reused),
           NEW all, all = Entries(texts, templates, reused)
    PROVE  /\ all \in Seq(Entry)
           /\ {e.intensity : e \in Range(all)} = {e.intensity : e \in Range(texts)} \cup DOMAIN reused
           /\ \A e \in Range(all) : OfAnIntensity(e) =>
                IF e.intensity \in {x.intensity : x \in Range(texts)}
                THEN SaysOf(e, AboutOf(Range(texts), e.intensity), templates)
                ELSE e.pass = "yes" /\ Len(e.violations) <= MaxViolations
           /\ {e.intensity : e \in Range(texts)} \subseteq Range(Targets) => Len(all) <= 3
  <1> DEFINE fresh == FreshOf(texts, templates)
             judged == {e.intensity : e \in Range(fresh)}
             named == {e.intensity : e \in Range(texts)}
             rest == {reused[i] : i \in DOMAIN reused \ judged}
  <1>1. /\ fresh \in Seq(Entry) /\ judged = named
        /\ \A e \in Range(fresh) : OfAnIntensity(e) =>
             SaysOf(e, AboutOf(Range(texts), e.intensity), templates)
    BY FreshList
  <1>2. /\ all \in Seq(Entry) /\ Range(all) = Range(fresh) \cup rest
        /\ judged \subseteq Range(Targets) => Len(all) <= 3
    <2> HIDE DEF fresh
    <2>1. fresh = FreshOf(texts, templates)
      BY DEF fresh
    <2> HIDE DEF judged
    <2>2. judged = {e.intensity : e \in Range(fresh)}
      BY DEF judged
    <2>3. AllOf(all, fresh, judged, reused)
      BY <2>1, <2>2, EntriesList
    <2> QED
      BY <2>3 DEF AllOf
  <1> HIDE DEF fresh
  <1>3. \A e \in Range(fresh) : e.intensity \in judged
    OBVIOUS
  <1>4. ASSUME NEW i \in DOMAIN reused
        PROVE  /\ reused[i].intensity = i /\ reused[i].pass = "yes"
               /\ Len(reused[i].violations) <= MaxViolations
    BY DEF KeptOf
  <1>5. {e.intensity : e \in rest} = DOMAIN reused \ judged
    BY <1>4
  <1>6. {e.intensity : e \in Range(all)} = judged \cup {e.intensity : e \in rest}
    BY <1>2
  <1>7. ASSUME NEW e \in Range(all), OfAnIntensity(e)
        PROVE  IF e.intensity \in judged
               THEN SaysOf(e, AboutOf(Range(texts), e.intensity), templates)
               ELSE e.pass = "yes" /\ Len(e.violations) <= MaxViolations
    <2>1. CASE e \in Range(fresh)
      BY <1>1, <1>3, <1>7, <2>1
    <2>2. CASE e \in rest
      <3>1. PICK i \in DOMAIN reused \ judged : e = reused[i]
        BY <2>2
      <3>2. e.intensity \notin judged
        BY <1>4, <3>1
      <3> QED
        BY <1>4, <3>1, <3>2
    <2> QED
      BY <1>2, <2>1, <2>2
  <1> HIDE DEF judged, rest
  <1> QED
    BY <1>1, <1>2, <1>5, <1>6, <1>7

\* The checks of all answers, as _merge_reports makes one of them.
LEMMA MergedCheckIs ==
    ASSUME NEW checks \in Seq(Check), checks # <<>>
    PROVE  /\ MergedCheck(checks) \in Check /\ Sums(MergedCheck(checks), Range(checks))
           /\ Len(FlattenSeq([k \in DOMAIN checks |-> checks[k].violations])) <= MaxViolations =>
                Len(MergedCheck(checks).violations) <= MaxViolations
  <1> DEFINE codes == [k \in DOMAIN checks |-> checks[k].violations]
             c == MergedCheck(checks)
  <1>1. /\ DOMAIN checks = 1..Len(checks) /\ Len(checks) \in Nat /\ Len(checks) # 0
        /\ Range(checks) = {checks[k] : k \in DOMAIN checks}
    BY DEF Range
  <1>2. \A k \in DOMAIN checks : checks[k].pass \in Passes /\ checks[k].violations \in Seq(STRING)
    <2>1. \A k \in DOMAIN checks : checks[k] \in Check
      BY <1>1
    <2>2. \A x \in Check : x.pass \in Passes /\ x.violations \in Seq(STRING)
      BY DEF Check
    <2> QED
      BY <2>1, <2>2
  <1>3. codes \in Seq(Seq(STRING)) /\ Len(codes) = Len(checks) /\ DOMAIN codes = DOMAIN checks
    BY <1>1, <1>2
  <1>4. \A k \in DOMAIN checks : codes[k] = checks[k].violations
    OBVIOUS
  <1> HIDE DEF codes
  <1>5. /\ FlattenSeq(codes) \in Seq(STRING)
        /\ Range(FlattenSeq(codes)) = UNION {Range(codes[k]) : k \in DOMAIN codes}
        /\ Len(codes) = 1 => FlattenSeq(codes) = codes[1]
    BY <1>3, FlattenParts
  <1>6. Range(FlattenSeq(codes)) = CodesOf(Range(checks))
    <2>1. {Range(codes[k]) : k \in DOMAIN codes} = {Range(x.violations) : x \in Range(checks)}
      BY <1>1, <1>3, <1>4
    <2> QED
      BY <1>5, <2>1 DEF CodesOf
  <1>7. CASE Len(checks) = 1
    <2>1. c = checks[1] /\ 1 \in DOMAIN checks
      BY <1>1, <1>7 DEF MergedCheck
    <2>2. Range(checks) = {checks[1]}
      BY <1>1, <1>7
    <2>3. c \in Check
      BY <1>1, <2>1
    <2>4. Sums(c, Range(checks))
      BY <1>2, <2>1, <2>2, SumsOne
    <2>5. FlattenSeq(codes) = c.violations
      BY <1>3, <1>4, <1>5, <1>7, <2>1
    <2> QED
      BY <2>3, <2>4, <2>5 DEF codes
  <1>8. CASE Len(checks) # 1 /\ \E k \in DOMAIN checks : checks[k].pass = "odd"
    <2>1. c = [pass |-> "odd", violations |-> <<>>]
      BY <1>8 DEF MergedCheck
    <2>2. c \in Check /\ c.pass = "odd" /\ Len(c.violations) = 0
      BY <2>1 DEF Check, Passes
    <2>3. OddOf(Range(checks)) /\ ~\A x \in Range(checks) : x.pass = "yes"
      BY <1>1, <1>8 DEF OddOf
    <2>4. Sums(c, Range(checks))
      BY <2>2, <2>3 DEF Sums
    <2> QED
      BY <2>2, <2>4, ReportAssumption
  <1>9. CASE Len(checks) # 1 /\ ~\E k \in DOMAIN checks : checks[k].pass = "odd"
    <2> DEFINE p == IF \A k \in DOMAIN checks : checks[k].pass = "yes" THEN "yes" ELSE "no"
    <2>1. c = [pass |-> p, violations |-> FlattenSeq(codes)]
      BY <1>9 DEF MergedCheck, codes
    <2>2. p \in Passes /\ p # "odd" /\ (p = "yes" <=> \A x \in Range(checks) : x.pass = "yes")
      BY <1>1 DEF Passes
    <2>3. ~OddOf(Range(checks))
      BY <1>1, <1>9 DEF OddOf
    <2> HIDE DEF p
    <2>4. c.pass = p /\ c.violations = FlattenSeq(codes)
      BY <2>1
    <2>5. c \in Check
      BY <1>5, <2>1, <2>2 DEF Check
    <2> HIDE DEF c
    <2>6. Sums(c, Range(checks))
      BY <1>6, <2>2, <2>3, <2>4 DEF Sums
    <2> QED
      BY <2>4, <2>5, <2>6 DEF codes, c
  <1> QED
    BY <1>7, <1>8, <1>9

\* What becomes of a report depends on its checks and on which entries it has.
LEMMA WeighIs ==
    ASSUME NEW s, NEW r, NEW all \in Seq(Entry), NEW verdict,
           verdict = Weigh([sentence_check |-> s, reason_check |-> r, texts |-> all])
    PROVE  /\ verdict.rejected =
                {i \in Range(Targets) : \E e \in Range(all) : e.intensity = i /\ e.pass = "no"}
           /\ verdict.missing =
                {i \in Range(Targets) : i \notin {e.intensity : e \in Range(all)}}
           /\ verdict.reasonFailed <=> r.pass # "yes"
           /\ verdict.global <=>
                \/ ~(/\ Valid(s) /\ Valid(r) /\ Len(all) \in 1..3
                     /\ \A e \in Range(all) : Valid(e) /\ OfAnIntensity(e))
                \/ s.pass # "yes"
                \/ \E e \in Range(all) : e.intensity \notin Range(Targets)
  <1> DEFINE report == [sentence_check |-> s, reason_check |-> r, texts |-> all]
  <1>1. report.sentence_check = s /\ report.reason_check = r /\ report.texts = all
    OBVIOUS
  <1>2. Range(all) = {all[k] : k \in DOMAIN all}
    BY DEF Range
  <1> DEFINE entriesOf(i) == {k \in DOMAIN all : all[k].intensity = i}
             rejected == {i \in Range(Targets) : \E k \in entriesOf(i) : all[k].pass = "no"}
             missing == {i \in Range(Targets) : entriesOf(i) = {}}
             global == \/ ~ReportContract(report)
                       \/ s.pass # "yes"
                       \/ \E k \in DOMAIN all : all[k].intensity \notin Range(Targets)
  <1>3. /\ verdict.rejected = rejected /\ verdict.missing = missing
        /\ verdict.reasonFailed = (r.pass # "yes") /\ verdict.global = global
    <2> HIDE DEF report
    <2> QED
      BY <1>1 DEF Weigh, report
  <1>4. rejected = {i \in Range(Targets) : \E e \in Range(all) : e.intensity = i /\ e.pass = "no"}
    BY <1>2
  <1>5. missing = {i \in Range(Targets) : i \notin {e.intensity : e \in Range(all)}}
    BY <1>2
  <1>6. ReportContract(report) <=>
          /\ Valid(s) /\ Valid(r) /\ Len(all) \in 1..3
          /\ \A e \in Range(all) : Valid(e) /\ OfAnIntensity(e)
    <2> HIDE DEF report
    <2>1. ReportContract(report) <=>
            /\ Valid(s) /\ Valid(r) /\ Len(all) \in 1..3
            /\ \A k \in DOMAIN all : Valid(all[k]) /\ OfAnIntensity(all[k])
      BY <1>1 DEF ReportContract
    <2> QED
      BY <1>2, <2>1
  <1>7. (\E k \in DOMAIN all : all[k].intensity \notin Range(Targets)) <=>
          \E e \in Range(all) : e.intensity \notin Range(Targets)
    BY <1>2
  <1> HIDE DEF report, rejected, missing
  <1> QED
    BY <1>3, <1>4, <1>5, <1>6, <1>7

LEMMA MergedReport ==
    ASSUME NEW outputs \in Seq(Judgement), outputs # <<>>,
           NEW merged, merged = MergeReports(outputs)
    PROVE  /\ merged.texts \in Seq(Entry)
           /\ Range(merged.texts) = UNION {Range(outputs[k].texts) : k \in DOMAIN outputs}
           /\ merged.sentence_check \in Check
           /\ Sums(merged.sentence_check, {outputs[k].sentence_check : k \in DOMAIN outputs})
           /\ Len(FlattenSeq([k \in DOMAIN outputs |-> outputs[k].sentence_check.violations]))
                <= MaxViolations => Len(merged.sentence_check.violations) <= MaxViolations
           /\ merged.reason_check \in Check
           /\ Sums(merged.reason_check, {outputs[k].reason_check : k \in DOMAIN outputs})
           /\ Len(FlattenSeq([k \in DOMAIN outputs |-> outputs[k].reason_check.violations]))
                <= MaxViolations => Len(merged.reason_check.violations) <= MaxViolations
  <1> DEFINE D == DOMAIN outputs
             texts == [k \in D |-> outputs[k].texts]
             sentences == [k \in D |-> outputs[k].sentence_check]
             reasons == [k \in D |-> outputs[k].reason_check]
  <1>1. D = 1..Len(outputs) /\ Len(outputs) \in Nat /\ Len(outputs) # 0
    OBVIOUS
  <1>2. \A k \in D : /\ outputs[k].texts \in Seq(Entry) /\ outputs[k].sentence_check \in Check
                     /\ outputs[k].reason_check \in Check
    <2>1. \A k \in D : outputs[k] \in Judgement
      BY <1>1
    <2>2. \A o \in Judgement : o.texts \in Seq(Entry) /\ o.sentence_check \in Check /\ o.reason_check \in Check
      BY DEF Judgement
    <2> QED
      BY <2>1, <2>2
  <1>3. /\ texts \in Seq(Seq(Entry)) /\ DOMAIN texts = D /\ \A k \in D : texts[k] = outputs[k].texts
        /\ sentences \in Seq(Check) /\ sentences # <<>> /\ DOMAIN sentences = D
        /\ \A k \in D : sentences[k] = outputs[k].sentence_check
        /\ reasons \in Seq(Check) /\ reasons # <<>> /\ DOMAIN reasons = D
        /\ \A k \in D : reasons[k] = outputs[k].reason_check
    <2>1. texts \in Seq(Seq(Entry))
      BY <1>1, <1>2
    <2>2. sentences \in Seq(Check) /\ sentences # <<>>
      BY <1>1, <1>2
    <2>3. reasons \in Seq(Check) /\ reasons # <<>>
      BY <1>1, <1>2
    <2> QED
      BY <2>1, <2>2, <2>3
  <1>4. /\ merged.texts = FlattenSeq(texts) /\ merged.sentence_check = MergedCheck(sentences)
        /\ merged.reason_check = MergedCheck(reasons)
    BY DEF MergeReports
  <1>5. /\ Range(sentences) = {outputs[k].sentence_check : k \in D}
        /\ Range(reasons) = {outputs[k].reason_check : k \in D}
    BY <1>3 DEF Range
  <1>6. /\ [k \in DOMAIN sentences |-> sentences[k].violations] = [k \in D |-> outputs[k].sentence_check.violations]
        /\ [k \in DOMAIN reasons |-> reasons[k].violations] = [k \in D |-> outputs[k].reason_check.violations]
    BY <1>3
  <1> HIDE DEF texts, sentences, reasons, D
  <1>7. FlattenSeq(texts) \in Seq(Entry) /\ Range(FlattenSeq(texts)) = UNION {Range(texts[k]) : k \in DOMAIN texts}
    BY <1>3, FlattenParts
  <1>8. UNION {Range(texts[k]) : k \in DOMAIN texts} = UNION {Range(outputs[k].texts) : k \in D}
    BY <1>3
  <1>9. /\ MergedCheck(sentences) \in Check /\ Sums(MergedCheck(sentences), Range(sentences))
        /\ Len(FlattenSeq([k \in DOMAIN sentences |-> sentences[k].violations])) <= MaxViolations =>
             Len(MergedCheck(sentences).violations) <= MaxViolations
    BY <1>3, MergedCheckIs
  <1>10. /\ MergedCheck(reasons) \in Check /\ Sums(MergedCheck(reasons), Range(reasons))
         /\ Len(FlattenSeq([k \in DOMAIN reasons |-> reasons[k].violations])) <= MaxViolations =>
              Len(MergedCheck(reasons).violations) <= MaxViolations
    BY <1>3, MergedCheckIs
  <1> QED
    BY <1>4, <1>5, <1>6, <1>7, <1>8, <1>9, <1>10 DEF D

\* Entries as the contract takes them.
LEMMA UpToThree ==
    ASSUME NEW n \in Nat, n # 0, n <= 3 PROVE n \in 1..3
  OBVIOUS

\* Every round weighs its answers as the property says.
LEMMA ReportOnce ==
    ASSUME asked.kind = "report", asked.outputs \in Seq(Judgement), asked.outputs # <<>>,
           KeptOf(asked.reused)
    PROVE  ReportsAreWeighed
  <1> DEFINE outputs == asked.outputs
             templates == asked.templates
             reused == asked.reused
             answers == DOMAIN outputs
             merged == MergeReports(outputs)
             s == Forgiven(merged.sentence_check)
             r == Forgiven(merged.reason_check)
             all == Entries(merged.texts, templates, reused)
             verdict == Round(outputs, templates, reused)
             entries == UNION {Range(outputs[k].texts) : k \in answers}
             sentence == {outputs[k].sentence_check : k \in answers}
             reason == {outputs[k].reason_check : k \in answers}
             named == {e.intensity : e \in entries}
             few(codes) == Len(FlattenSeq(codes)) <= MaxViolations
             fewOfSentence == few([k \in answers |-> outputs[k].sentence_check.violations])
             fewOfReason == few([k \in answers |-> outputs[k].reason_check.violations])
  <1>1. /\ merged.texts \in Seq(Entry) /\ Range(merged.texts) = entries
        /\ merged.sentence_check \in Check /\ Sums(merged.sentence_check, sentence)
        /\ fewOfSentence => Len(merged.sentence_check.violations) <= MaxViolations
        /\ merged.reason_check \in Check /\ Sums(merged.reason_check, reason)
        /\ fewOfReason => Len(merged.reason_check.violations) <= MaxViolations
    <2> HIDE DEF merged
    <2>1. merged = MergeReports(outputs)
      BY DEF merged
    <2> HIDE DEF outputs
    <2> QED
      BY <2>1, MergedReport DEF outputs
  <1>2. verdict = Weigh([sentence_check |-> s, reason_check |-> r, texts |-> all])
    BY DEF Round
  <1> HIDE DEF merged, verdict, entries, sentence, reason, fewOfSentence, fewOfReason
  <1>3. /\ s.pass \in Passes /\ (s.pass = "odd" <=> OddOf(sentence))
        /\ ~OddOf(sentence) => (s.pass = "yes" <=> PassesAll(sentence))
        /\ fewOfSentence => Len(s.violations) <= MaxViolations
    <2>1. /\ s.pass \in Passes /\ Len(s.violations) <= Len(merged.sentence_check.violations)
          /\ s.violations \in Seq(STRING)
          /\ s.pass = "odd" <=> OddOf(sentence)
          /\ ~OddOf(sentence) => (s.pass = "yes" <=> PassesAll(sentence))
      BY <1>1, ForgivenIs
    <2>2. merged.sentence_check.violations \in Seq(STRING)
      BY <1>1 DEF Check
    <2>3. Len(s.violations) \in Nat /\ Len(merged.sentence_check.violations) \in Nat /\ MaxViolations \in Nat
      BY <2>1, <2>2, ReportAssumption
    <2> HIDE DEF s
    <2> QED
      BY <1>1, <2>1, <2>3
  <1>4. /\ r.pass \in Passes /\ (r.pass = "odd" <=> OddOf(reason))
        /\ ~OddOf(reason) => (r.pass = "yes" <=> PassesAll(reason))
        /\ fewOfReason => Len(r.violations) <= MaxViolations
    <2>1. /\ r.pass \in Passes /\ Len(r.violations) <= Len(merged.reason_check.violations)
          /\ r.violations \in Seq(STRING)
          /\ r.pass = "odd" <=> OddOf(reason)
          /\ ~OddOf(reason) => (r.pass = "yes" <=> PassesAll(reason))
      BY <1>1, ForgivenIs
    <2>2. merged.reason_check.violations \in Seq(STRING)
      BY <1>1 DEF Check
    <2>3. Len(r.violations) \in Nat /\ Len(merged.reason_check.violations) \in Nat /\ MaxViolations \in Nat
      BY <2>1, <2>2, ReportAssumption
    <2> HIDE DEF r
    <2> QED
      BY <1>1, <2>1, <2>3
  <1>5. /\ all \in Seq(Entry)
        /\ {e.intensity : e \in Range(all)} = named \cup DOMAIN reused
        /\ \A e \in Range(all) : OfAnIntensity(e) =>
             IF e.intensity \in named
             THEN SaysOf(e, AboutOf(entries, e.intensity), templates)
             ELSE e.pass = "yes" /\ Len(e.violations) <= MaxViolations
        /\ named \subseteq Range(Targets) => Len(all) <= 3
    <2> HIDE DEF all, reused, templates
    <2>1. all = Entries(merged.texts, templates, reused) /\ KeptOf(reused)
      BY DEF all, reused
    <2> QED
      BY <1>1, <2>1, RoundEntries
  <1> HIDE DEF s, r, all
  <1>6. /\ verdict.rejected =
             {i \in Range(Targets) : \E e \in Range(all) : e.intensity = i /\ e.pass = "no"}
        /\ verdict.missing =
             {i \in Range(Targets) : i \notin {e.intensity : e \in Range(all)}}
        /\ verdict.reasonFailed <=> r.pass # "yes"
        /\ verdict.global <=>
             \/ ~(/\ Valid(s) /\ Valid(r) /\ Len(all) \in 1..3
                  /\ \A e \in Range(all) : Valid(e) /\ OfAnIntensity(e))
             \/ s.pass # "yes"
             \/ \E e \in Range(all) : e.intensity \notin Range(Targets)
    BY <1>2, <1>5, WeighIs
  <1> HIDE DEF outputs, templates, reused, answers
  <1> DEFINE about(i) == AboutOf(entries, i)
             judged == {i \in Range(Targets) : about(i) # {}}
  <1>7. /\ judged = Range(Targets) \cap named
        /\ \A i : about(i) # {} <=> i \in named
    BY DEF AboutOf
  <1>8. \A e \in Range(all) : e.pass \in Passes /\ e.intensity \in named \cup DOMAIN reused
    <2>1. Range(all) \subseteq Entry
      BY <1>5 DEF Range
    <2>2. \A e \in Range(all) : e.intensity \in {x.intensity : x \in Range(all)}
      OBVIOUS
    <2> QED
      BY <1>5, <2>1, <2>2, EntryParts
  <1> HIDE DEF about, judged, named
  <1>9. ASSUME NEW i \in Range(Targets), NEW e \in Range(all), e.intensity = i
        PROVE  IF i \in judged THEN SaysOf(e, about(i), templates)
               ELSE e.pass = "yes" /\ Len(e.violations) <= MaxViolations
    <2>1. OfAnIntensity(e)
      BY <1>9, TargetsParts DEF OfAnIntensity
    <2> QED
      BY <1>5, <1>7, <1>9, <2>1 DEF about
  <1>10. verdict.missing = Range(Targets) \ (judged \cup DOMAIN reused)
    BY <1>5, <1>6, <1>7
  <1>11. ASSUME NEW i \in judged \ templates
         PROVE  \E e \in Range(all) : e.intensity = i /\ SaysOf(e, about(i), templates)
    <2>1. i \in Range(Targets) /\ i \in named
      BY <1>7
    <2>2. PICK e \in Range(all) : e.intensity = i
      <3>1. i \in {e.intensity : e \in Range(all)}
        BY <1>5, <2>1
      <3> QED
        BY <3>1
    <2> QED
      BY <1>9, <2>1, <2>2
  <1>12. ASSUME NEW i \in judged \ templates, ~OddOf(about(i))
         PROVE  i \in verdict.rejected <=> ~PassesAll(about(i))
    <2>1. i \in Range(Targets) /\ i \in judged
      BY <1>7
    <2>2. ASSUME NEW e \in Range(all), e.intensity = i
          PROVE  e.pass = "no" <=> ~PassesAll(about(i))
      <3>1. SaysOf(e, about(i), templates)
        BY <1>9, <2>1, <2>2
      <3>2. e.pass # "odd" /\ (e.pass = "yes" <=> PassesAll(about(i)))
        BY <1>12, <2>2, <3>1 DEF SaysOf
      <3>3. e.pass \in {"yes", "no", "odd"}
        BY <1>8 DEF Passes
      <3> QED
        BY <3>2, <3>3
    <2>3. \E e \in Range(all) : e.intensity = i
      BY <1>11
    <2> QED
      BY <1>6, <2>1, <2>2, <2>3
  <1>13. verdict.rejected \subseteq judged \ templates
    <2>1. ASSUME NEW i \in verdict.rejected PROVE i \in judged \ templates
      <3>1. PICK e \in Range(all) : e.intensity = i /\ e.pass = "no"
        BY <1>6
      <3>2. i \in Range(Targets)
        BY <1>6
      <3> QED
        BY <1>9, <3>1, <3>2 DEF SaysOf
    <2> QED
      BY <2>1
  <1>14. ~OddOf(reason) => (verdict.reasonFailed <=> ~PassesAll(reason))
    BY <1>4, <1>6
  <1> DEFINE fails == \/ OddOf(sentence) \/ OddOf(reason) \/ ~PassesAll(sentence)
                      \/ \E i \in judged \ templates : OddOf(about(i))
                      \/ \E e \in entries : e.intensity \notin Range(Targets)
                      \/ judged \cup DOMAIN reused = {}
             brief == /\ fewOfSentence /\ fewOfReason
                      /\ \A e \in entries : Len(e.violations) <= MaxViolations
                      /\ \A i \in judged : Cardinality(CodesOf(about(i))) <= MaxViolations
  <1>15. ASSUME fails PROVE verdict.global
    <2>1. CASE OddOf(sentence) \/ ~PassesAll(sentence)
      BY <1>3, <1>6, <2>1
    <2>2. CASE OddOf(reason)
      <3>1. ~Valid(r)
        BY <1>4, <2>2 DEF Valid
      <3> QED
        BY <1>6, <3>1
    <2>3. CASE \E i \in judged \ templates : OddOf(about(i))
      <3>1. PICK i \in judged \ templates : OddOf(about(i))
        BY <2>3
      <3>2. PICK e \in Range(all) : e.intensity = i /\ SaysOf(e, about(i), templates)
        BY <1>11
      <3>3. ~Valid(e)
        BY <3>1, <3>2 DEF SaysOf, Valid
      <3> QED
        BY <1>6, <3>3
    <2>4. CASE \E e \in entries : e.intensity \notin Range(Targets)
      <3>1. PICK x \in entries : x.intensity \notin Range(Targets)
        BY <2>4
      <3>2. x.intensity \in {e.intensity : e \in Range(all)}
        BY <1>5 DEF named
      <3>3. \E e \in Range(all) : e.intensity \notin Range(Targets)
        BY <3>1, <3>2
      <3> QED
        BY <1>6, <3>3
    <2>5. CASE judged \cup DOMAIN reused = {}
      <3>1. CASE all = <<>>
        <4>1. ~(Len(all) \in 1..3)
          BY <3>1
        <4> QED
          BY <1>6, <4>1
      <3>2. CASE all # <<>>
        <4>1. all[1] \in Range(all)
          BY <1>5, <3>2 DEF Range
        <4>2. all[1].intensity \in named
          BY <1>8, <2>5, <4>1
        <4>3. all[1].intensity \notin Range(Targets)
          BY <1>7, <2>5, <4>2
        <4> QED
          BY <1>6, <4>1, <4>3
      <3> QED
        BY <3>1, <3>2
    <2> QED
      BY <1>15, <2>1, <2>2, <2>3, <2>4, <2>5
  <1>16. ASSUME ~fails, brief PROVE ~verdict.global
    <2>1. s.pass = "yes" /\ Valid(s)
      BY <1>3, <1>16 DEF Valid
    <2>2. Valid(r)
      BY <1>4, <1>16 DEF Valid
    <2>3. named \subseteq Range(Targets) /\ judged = named
      BY <1>7, <1>16 DEF named
    <2>4. \A e \in Range(all) : e.intensity \in Range(Targets)
      BY <1>8, <2>3 DEF KeptOf, reused
    <2>5. Len(all) \in 1..3
      <3>1. {e.intensity : e \in Range(all)} # {}
        BY <1>5, <1>16, <2>3
      <3>2. all # <<>>
        BY <3>1 DEF Range
      <3>3. Len(all) \in Nat /\ Len(all) # 0
        BY <1>5, <3>2
      <3>4. Len(all) <= 3
        BY <1>5, <2>3
      <3> HIDE DEF fails, brief, few
      <3> QED
        BY <3>3, <3>4, UpToThree
    <2>6. ASSUME NEW e \in Range(all) PROVE Valid(e) /\ OfAnIntensity(e)
      <3>1. OfAnIntensity(e)
        BY <2>4, TargetsParts DEF OfAnIntensity
      <3> DEFINE i == e.intensity
      <3>2. i \in Range(Targets)
        BY <2>4
      <3>3. CASE i \notin judged
        BY <1>9, <3>1, <3>2, <3>3 DEF Valid
      <3>4. CASE i \in judged /\ i \in templates
        <4>1. e.pass = "yes" /\ e.violations = <<>>
          BY <1>9, <3>2, <3>4 DEF SaysOf
        <4>2. Len(e.violations) <= MaxViolations
          BY <4>1, ReportAssumption
        <4> QED
          BY <3>1, <4>1, <4>2 DEF Valid
      <3>5. CASE i \in judged /\ i \notin templates
        <4>1. SaysOf(e, about(i), templates)
          BY <1>9, <3>2, <3>5
        <4>2. ~OddOf(about(i))
          BY <1>16, <3>5
        <4>3. \A c \in about(i) : Len(c.violations) <= MaxViolations
          BY <1>16 DEF about, AboutOf
        <4>4. Cardinality(CodesOf(about(i))) <= MaxViolations
          BY <1>16, <3>5
        <4> HIDE DEF fails, brief
        <4>5. e.pass # "odd" /\ Len(e.violations) <= MaxViolations
          BY <3>5, <4>1, <4>2, <4>3, <4>4 DEF SaysOf
        <4> QED
          BY <3>1, <4>5 DEF Valid
      <3> QED
        BY <3>3, <3>4, <3>5
    <2> QED
      BY <1>6, <2>1, <2>2, <2>4, <2>5, <2>6
  <1>17. /\ fails => verdict.global
         /\ verdict.global => fails \/ ~brief
    <2> HIDE DEF fails, brief
    <2> QED
      BY <1>15, <1>16
  <1>18. \A i \in judged \ templates : ~OddOf(about(i)) =>
           (i \in verdict.rejected <=> ~PassesAll(about(i)))
    BY <1>12
  <1> QED
    BY <1>10, <1>13, <1>14, <1>17, <1>18, Zenon
       DEF ReportsAreWeighed, verdict, answers, entries, about, judged, sentence, reason, outputs,
           templates, reused, fewOfSentence, fewOfReason, OddOf, PassesAll, CodesOf, AboutOf

\* Of the answers about a text only which there are counts, in whatever order
\* and split; a round fails if one is odd, objects to the sentence or is about
\* none of the texts, and, of answers each within the contract, also if they
\* are too many together, and never for what is said of a template.
THEOREM ReportsWeighed == Spec => []ReportsAreWeighed
  <1>1. Asked => ReportsAreWeighed
    <2>1. asked.kind # "report" => ReportsAreWeighed
      BY DEF ReportsAreWeighed
    <2> QED
      BY <2>1, ReportOnce DEF Asked
  <1> QED
    BY <1>1, Typing, PTL

-----------------------------------------------------------------------------
(* Amounts.                                                                *)

\* The state of _parse_amount.
Read == [total : Nat, section : Nat, number : Nat \cup {None},
         small : Nat \cup {None}, large : Nat \cup {None}, has_section : BOOLEAN]

\* A token is a number, a small unit or a large one.
LEMMA TokenIs ==
    ASSUME NEW token \in Token
    PROVE  /\ IsNumber(token) \/ IsSmall(token) \/ IsLarge(token)
           /\ ~(IsNumber(token) /\ IsSmall(token)) /\ ~(IsNumber(token) /\ IsLarge(token))
           /\ ~(IsSmall(token) /\ IsLarge(token))
           /\ IsNumber(token) => token.number \in Nat
           /\ IsSmall(token) => SmallUnits[token.unit] \in Nat \ {0}
           /\ IsLarge(token) => LargeUnits[token.unit] \in Nat \ {0}
  <1>1. CASE token \in [number : Nat]
    BY <1>1 DEF IsNumber, IsSmall, IsLarge
  <1>2. CASE token \in [unit : DOMAIN SmallUnits \cup DOMAIN LargeUnits]
    <2>1. DOMAIN token = {"unit"} /\ token.unit \in DOMAIN SmallUnits \cup DOMAIN LargeUnits
      BY <1>2
    <2>2. ~IsNumber(token)
      BY <2>1 DEF IsNumber
    <2> QED
      BY <2>1, <2>2, AmountsAssumption DEF IsSmall, IsLarge
  <1> QED
    BY <1>1, <1>2 DEF Token

\* What a token does to the state.
AfterNumber(r, s, number) ==
    IF s.number # None THEN r = None
    ELSE /\ r \in Read /\ r.total = s.total /\ r.section = s.section
         /\ r.number = number /\ r.small = s.small /\ r.large = s.large
         /\ r.has_section = TRUE

AfterSmall(r, s, unit) ==
    IF s.small # None /\ unit >= s.small THEN r = None
    ELSE /\ r \in Read /\ r.total = s.total
         /\ r.section = s.section + OrElse(s.number, 10) * unit
         /\ r.number = None /\ r.small = unit /\ r.large = s.large
         /\ r.has_section = TRUE

AfterLarge(r, s, unit) ==
    IF (s.large # None /\ unit >= s.large) \/ ~s.has_section THEN r = None
    ELSE /\ r \in Read /\ r.total = s.total + (s.section + OrElse(s.number, 0)) * unit
         /\ r.section = 0 /\ r.number = None /\ r.small = None /\ r.large = unit
         /\ r.has_section = FALSE

LEMMA ReadsNumber ==
    ASSUME NEW s \in Read, NEW token \in Token, IsNumber(token)
    PROVE  AfterNumber(Reads(s, token), s, token.number)
  <1> DEFINE r == Reads(s, token)
  <1>1. s # None /\ ~IsSmall(token) /\ ~IsLarge(token) /\ token.number \in Nat
    BY TokenIs, AmountsAssumption DEF Read
  <1>2. r = IF s.number # None THEN None
            ELSE [[s EXCEPT !.number = token.number] EXCEPT !.has_section = TRUE]
    BY <1>1 DEF Reads
  <1> HIDE DEF r
  <1>3. AfterNumber(r, s, token.number)
    BY <1>1, <1>2 DEF Read, AfterNumber
  <1> QED
    BY <1>3 DEF r

LEMMA ReadsSmall ==
    ASSUME NEW s \in Read, NEW token \in Token, IsSmall(token)
    PROVE  AfterSmall(Reads(s, token), s, SmallUnits[token.unit])
  <1> DEFINE r == Reads(s, token)
             unit == SmallUnits[token.unit]
  <1>1. s # None /\ unit \in Nat
    BY TokenIs, AmountsAssumption DEF Read
  <1> DEFINE section == s.section + OrElse(s.number, 10) * unit
  <1>2. section \in Nat
    <2>1. OrElse(s.number, 10) \in Nat /\ s.section \in Nat
      BY DEF OrElse, Read
    <2>2. OrElse(s.number, 10) * unit \in Nat
      BY <1>1, <2>1
    <2> QED
      BY <2>1, <2>2
  <1>3. r = IF s.small # None /\ unit >= s.small THEN None
            ELSE [[[[s EXCEPT !.section = section] EXCEPT !.number = None] EXCEPT !.small = unit]
                    EXCEPT !.has_section = TRUE]
    BY <1>1 DEF Reads
  <1> HIDE DEF section, r, unit
  <1>4. ~(s.small # None /\ unit >= s.small) =>
          /\ r \in Read /\ r.total = s.total /\ r.section = section
          /\ r.number = None /\ r.small = unit /\ r.large = s.large /\ r.has_section = TRUE
    BY <1>1, <1>2, <1>3 DEF Read
  <1> HIDE DEF r, unit
  <1>5. AfterSmall(r, s, unit)
    BY <1>3, <1>4 DEF section, AfterSmall
  <1> QED
    BY <1>5 DEF r, unit

LEMMA ReadsLarge ==
    ASSUME NEW s \in Read, NEW token \in Token, IsLarge(token)
    PROVE  AfterLarge(Reads(s, token), s, LargeUnits[token.unit])
  <1> DEFINE r == Reads(s, token)
             unit == LargeUnits[token.unit]
  <1>1. s # None /\ unit \in Nat /\ ~IsSmall(token)
    BY TokenIs, AmountsAssumption DEF Read
  <1> DEFINE total == s.total + (s.section + OrElse(s.number, 0)) * unit
  <1>2. total \in Nat
    <2>1. OrElse(s.number, 0) \in Nat /\ s.section \in Nat /\ s.total \in Nat
      BY DEF OrElse, Read
    <2>2. (s.section + OrElse(s.number, 0)) \in Nat
      BY <2>1
    <2>3. (s.section + OrElse(s.number, 0)) * unit \in Nat
      BY <1>1, <2>2
    <2> QED
      BY <2>1, <2>3
  <1>3. r = IF (s.large # None /\ unit >= s.large) \/ ~s.has_section THEN None
            ELSE [[[[[[s EXCEPT !.total = total] EXCEPT !.section = 0] EXCEPT !.number = None]
                    EXCEPT !.small = None] EXCEPT !.large = unit] EXCEPT !.has_section = FALSE]
    BY <1>1 DEF Reads, NextSection
  <1> HIDE DEF total, r, unit
  <1>4. ~((s.large # None /\ unit >= s.large) \/ ~s.has_section) =>
          /\ r \in Read /\ r.total = total
          /\ r.section = 0 /\ r.number = None /\ r.small = None /\ r.large = unit
          /\ r.has_section = FALSE
    <2> SUFFICES ASSUME ~((s.large # None /\ unit >= s.large) \/ ~s.has_section)
                 PROVE  /\ r \in Read /\ r.total = total
                        /\ r.section = 0 /\ r.number = None /\ r.small = None /\ r.large = unit
                        /\ r.has_section = FALSE
      OBVIOUS
    <2>1. r = [total |-> total, section |-> 0, number |-> None, small |-> None, large |-> unit,
               has_section |-> FALSE]
      BY <1>3 DEF Read
    <2>2. r \in Read
      BY <1>1, <1>2, <2>1 DEF Read
    <2> QED
      BY <2>1, <2>2
  <1> HIDE DEF r, unit
  <1>5. AfterLarge(r, s, unit)
    BY <1>3, <1>4 DEF total, AfterLarge
  <1> QED
    BY <1>5 DEF r, unit

LEMMA ReadsStays ==
    ASSUME NEW s \in Read \cup {None}, NEW token \in Token
    PROVE  Reads(s, token) \in Read \cup {None}
  <1>1. CASE s = None
    BY <1>1 DEF Reads
  <1>2. CASE s # None /\ IsNumber(token)
    BY <1>2, ReadsNumber DEF AfterNumber
  <1>3. CASE s # None /\ IsSmall(token)
    BY <1>3, ReadsSmall DEF AfterSmall
  <1>4. CASE s # None /\ IsLarge(token)
    BY <1>4, ReadsLarge DEF AfterLarge
  <1> QED
    BY <1>1, <1>2, <1>3, <1>4, TokenIs

\* The units that count when a next token comes: the small ones of its section,
\* and the large ones.
Smalls(t, m) == {SmallUnits[t[i].unit] : i \in {k \in 1..m : IsSmall(t[k]) /\ Apart(t, k, m)}}
Larges(t, m) == {LargeUnits[t[i].unit] : i \in {k \in 1..m : IsLarge(t[k])}}

LEMMA UnitsAre ==
    ASSUME NEW t \in Seq(Token), NEW m \in 1..Len(t)
    PROVE  /\ Smalls(t, m) = IF IsLarge(t[m]) THEN {}
                             ELSE IF IsSmall(t[m]) THEN Smalls(t, m - 1) \cup {SmallUnits[t[m].unit]}
                             ELSE Smalls(t, m - 1)
           /\ Larges(t, m) = IF IsLarge(t[m]) THEN Larges(t, m - 1) \cup {LargeUnits[t[m].unit]}
                             ELSE Larges(t, m - 1)
  <1> DEFINE at(n) == {k \in 1..n : IsSmall(t[k]) /\ Apart(t, k, n)}
             large(n) == {k \in 1..n : IsLarge(t[k])}
  <1>0. Len(t) \in Nat /\ m \in Nat /\ t[m] \in Token
    OBVIOUS
  <1>1. ~(IsSmall(t[m]) /\ IsLarge(t[m]))
    BY <1>0, TokenIs
  <1>2. \A k \in 1..m : Apart(t, k, m) <=> (~IsLarge(t[m]) /\ (k = m \/ Apart(t, k, m - 1)))
    BY <1>0 DEF Apart
  <1>3. at(m) = IF IsLarge(t[m]) THEN {} ELSE IF IsSmall(t[m]) THEN at(m - 1) \cup {m} ELSE at(m - 1)
    <2>1. 1..m = (1..m - 1) \cup {m} /\ m \notin 1..m - 1
      BY <1>0
    <2> QED
      BY <1>1, <1>2, <2>1
  <1>4. large(m) = IF IsLarge(t[m]) THEN large(m - 1) \cup {m} ELSE large(m - 1)
    <2>1. 1..m = (1..m - 1) \cup {m}
      BY <1>0
    <2> QED
      BY <2>1
  <1>5. \A n : /\ Smalls(t, n) = {SmallUnits[t[i].unit] : i \in at(n)}
               /\ Larges(t, n) = {LargeUnits[t[i].unit] : i \in large(n)}
    BY DEF Smalls, Larges
  <1> HIDE DEF at, large
  <1>6. \A A : /\ {SmallUnits[t[i].unit] : i \in A \cup {m}}
                    = {SmallUnits[t[i].unit] : i \in A} \cup {SmallUnits[t[m].unit]}
               /\ {LargeUnits[t[i].unit] : i \in A \cup {m}}
                    = {LargeUnits[t[i].unit] : i \in A} \cup {LargeUnits[t[m].unit]}
    OBVIOUS
  <1>7. Smalls(t, m) = IF IsLarge(t[m]) THEN {}
                       ELSE IF IsSmall(t[m]) THEN Smalls(t, m - 1) \cup {SmallUnits[t[m].unit]}
                       ELSE Smalls(t, m - 1)
    <2>1. CASE IsLarge(t[m])
      BY <1>3, <1>5, <2>1
    <2>2. CASE ~IsLarge(t[m]) /\ IsSmall(t[m])
      BY <1>3, <1>5, <1>6, <2>2
    <2>3. CASE ~IsLarge(t[m]) /\ ~IsSmall(t[m])
      BY <1>3, <1>5, <2>3
    <2> QED
      BY <2>1, <2>2, <2>3
  <1>8. Larges(t, m) = IF IsLarge(t[m]) THEN Larges(t, m - 1) \cup {LargeUnits[t[m].unit]}
                       ELSE Larges(t, m - 1)
    <2>1. CASE IsLarge(t[m])
      BY <1>4, <1>5, <1>6, <2>1
    <2>2. CASE ~IsLarge(t[m])
      BY <1>4, <1>5, <2>2
    <2> QED
      BY <2>1, <2>2
  <1> QED
    BY <1>7, <1>8

LEMMA UnitsAreNumbers ==
    ASSUME NEW t \in Seq(Token), NEW m \in 0..Len(t)
    PROVE  Smalls(t, m) \subseteq Nat \ {0} /\ Larges(t, m) \subseteq Nat \ {0}
  <1>1. \A k \in 1..m : t[k] \in Token
    OBVIOUS
  <1> QED
    BY <1>1, TokenIs DEF Smalls, Larges

\* Two tokens go together, and all of a prefix do.
Pair(t, i, j) ==
    /\ IsSmall(t[i]) /\ IsSmall(t[j]) /\ Apart(t, i, j) =>
         SmallUnits[t[i].unit] > SmallUnits[t[j].unit]
    /\ IsLarge(t[i]) /\ IsLarge(t[j]) =>
         LargeUnits[t[i].unit] > LargeUnits[t[j].unit] /\ i + 1 < j
    /\ ~(IsNumber(t[i]) /\ IsNumber(t[j]) /\ j = i + 1)

Okay(t, m) ==
    /\ \A i, j \in 1..m : i < j => Pair(t, i, j)
    /\ m > 0 => ~IsLarge(t[1])

\* The next token goes with those before it.
Fits1(t, m) ==
    /\ IsNumber(t[m]) => ~(m > 1 /\ IsNumber(t[m - 1]))
    /\ IsSmall(t[m]) => \A v \in Smalls(t, m - 1) : v > SmallUnits[t[m].unit]
    /\ IsLarge(t[m]) => /\ m > 1 /\ ~IsLarge(t[m - 1])
                        /\ \A v \in Larges(t, m - 1) : v > LargeUnits[t[m].unit]

LEMMA OkayNext ==
    ASSUME NEW t \in Seq(Token), NEW m \in 1..Len(t)
    PROVE  Okay(t, m) <=> (Okay(t, m - 1) /\ Fits1(t, m))
  <1>0. Len(t) \in Nat /\ m \in Nat /\ t[m] \in Token /\ \A i \in 1..m : t[i] \in Token
    OBVIOUS
  <1>1. Okay(t, m) <=> /\ Okay(t, m - 1)
                       /\ m = 1 => ~IsLarge(t[1])
                       /\ \A i \in 1..m - 1 : Pair(t, i, m)
    BY <1>0 DEF Okay
  <1>2. CASE IsNumber(t[m])
    <2>1. ~IsSmall(t[m]) /\ ~IsLarge(t[m])
      BY <1>0, <1>2, TokenIs
    <2>2. \A i \in 1..m - 1 : Pair(t, i, m) <=> ~(IsNumber(t[i]) /\ m = i + 1)
      BY <1>2, <2>1, Zenon DEF Pair
    <2>3. (\A i \in 1..m - 1 : Pair(t, i, m)) <=> ~(m > 1 /\ IsNumber(t[m - 1]))
      BY <1>0, <2>2
    <2> QED
      BY <1>1, <1>2, <2>1, <2>3 DEF Fits1
  <1>3. CASE IsSmall(t[m])
    <2>1. ~IsNumber(t[m]) /\ ~IsLarge(t[m])
      BY <1>0, <1>3, TokenIs
    <2>2. \A i \in 1..m - 1 : Pair(t, i, m) <=>
            (IsSmall(t[i]) /\ Apart(t, i, m) => SmallUnits[t[i].unit] > SmallUnits[t[m].unit])
      BY <1>3, <2>1, Zenon DEF Pair
    <2>3. \A i \in 1..m - 1 : Apart(t, i, m) <=> Apart(t, i, m - 1)
      BY <1>0, <2>1 DEF Apart
    <2>4. (\A v \in Smalls(t, m - 1) : v > SmallUnits[t[m].unit]) <=>
          \A i \in 1..m - 1 : IsSmall(t[i]) /\ Apart(t, i, m - 1) => SmallUnits[t[i].unit] > SmallUnits[t[m].unit]
      BY Zenon DEF Smalls
    <2> QED
      BY <1>1, <1>3, <2>1, <2>2, <2>3, <2>4, Zenon DEF Fits1
  <1>4. CASE IsLarge(t[m])
    <2>1. ~IsNumber(t[m]) /\ ~IsSmall(t[m])
      BY <1>0, <1>4, TokenIs
    <2>2. \A i \in 1..m - 1 : Pair(t, i, m) <=>
            (IsLarge(t[i]) => LargeUnits[t[i].unit] > LargeUnits[t[m].unit] /\ i + 1 < m)
      BY <1>4, <2>1, Zenon DEF Pair
    <2>3. (\A v \in Larges(t, m - 1) : v > LargeUnits[t[m].unit]) <=>
          \A i \in 1..m - 1 : IsLarge(t[i]) => LargeUnits[t[i].unit] > LargeUnits[t[m].unit]
      BY Zenon DEF Larges
    <2>4. (\A i \in 1..m - 1 : IsLarge(t[i]) => i + 1 < m) <=> ~(m > 1 /\ IsLarge(t[m - 1]))
      BY <1>0
    <2>5. m = 1 \/ m > 1
      BY <1>0
    <2>6. (\A i \in 1..m - 1 : Pair(t, i, m)) <=>
            /\ \A v \in Larges(t, m - 1) : v > LargeUnits[t[m].unit]
            /\ ~(m > 1 /\ IsLarge(t[m - 1]))
      BY <2>2, <2>3, <2>4, Zenon
    <2>7. m > 1 => ~(m = 1)
      BY <1>0
    <2> QED
      BY <1>1, <1>4, <2>1, <2>5, <2>6, <2>7, Zenon DEF Fits1
  <1> QED
    BY <1>0, <1>2, <1>3, <1>4, TokenIs

\* The state that was read from a prefix.
LeastOf(x, V) ==
    /\ \A v \in V : x # None /\ x <= v
    /\ x # None => x \in V

Follows(t, s, m) ==
    /\ s \in Read
    /\ s.number = IF m > 0 /\ IsNumber(t[m]) THEN t[m].number ELSE None
    /\ s.has_section <=> (m > 0 /\ ~IsLarge(t[m]))
    /\ LeastOf(s.small, Smalls(t, m)) /\ LeastOf(s.large, Larges(t, m))

\* With a lesser one the least of all is that.
LEMMA LeastAdd ==
    ASSUME NEW V \in SUBSET Nat, NEW x \in Nat \cup {None}, LeastOf(x, V), NEW u \in Nat
    PROVE  /\ (x # None /\ u >= x) <=> ~\A v \in V : v > u
           /\ (\A v \in V : v > u) => LeastOf(u, V \cup {u})
  <1>1. u # None
    BY AmountsAssumption
  <1>2. CASE x = None
    BY <1>1, <1>2 DEF LeastOf
  <1>3. CASE x # None
    <2>1. x \in V /\ x \in Nat /\ \A v \in V : v \in Nat /\ x <= v
      BY <1>3 DEF LeastOf
    <2>2. (u >= x) <=> ~\A v \in V : v > u
      BY <2>1
    <2>3. (\A v \in V : v > u) => LeastOf(u, V \cup {u})
      BY <1>1, <2>1 DEF LeastOf
    <2> QED
      BY <1>3, <2>2, <2>3
  <1> QED
    BY <1>2, <1>3

LEMMA FollowsNext ==
    ASSUME NEW t \in Seq(Token), NEW m \in 1..Len(t), NEW s, Follows(t, s, m - 1),
           NEW r, r = Reads(s, t[m])
    PROVE  IF Fits1(t, m) THEN Follows(t, r, m) ELSE r = None
  <1>0. /\ Len(t) \in Nat /\ m \in Nat /\ m > 0 /\ t[m] \in Token /\ m - 1 \in 0..Len(t)
        /\ m > 1 => t[m - 1] \in Token
    OBVIOUS
  <1>1. /\ s \in Read /\ LeastOf(s.small, Smalls(t, m - 1)) /\ LeastOf(s.large, Larges(t, m - 1))
        /\ s.small \in Nat \cup {None} /\ s.large \in Nat \cup {None}
    BY DEF Follows, Read
  <1>2. Smalls(t, m - 1) \in SUBSET Nat /\ Larges(t, m - 1) \in SUBSET Nat
    BY <1>0, UnitsAreNumbers
  <1>3. CASE IsNumber(t[m])
    <2>1. ~IsSmall(t[m]) /\ ~IsLarge(t[m])
      BY <1>0, <1>3, TokenIs
    <2>2. Smalls(t, m) = Smalls(t, m - 1) /\ Larges(t, m) = Larges(t, m - 1)
      BY <2>1, UnitsAre
    <2>3. (s.number # None) <=> (m > 1 /\ IsNumber(t[m - 1]))
      <3>1. s.number = IF m - 1 > 0 /\ IsNumber(t[m - 1]) THEN t[m - 1].number ELSE None
        BY DEF Follows
      <3>2. m > 1 /\ IsNumber(t[m - 1]) => t[m - 1].number \in Nat
        BY <1>0, TokenIs
      <3>3. (m - 1 > 0) <=> (m > 1)
        BY <1>0
      <3> QED
        BY <3>1, <3>2, <3>3, AmountsAssumption
    <2>4. Fits1(t, m) <=> s.number = None
      BY <1>3, <2>1, <2>3, Zenon DEF Fits1
    <2>5. CASE s.number = None
      <3>1. /\ r \in Read /\ r.number = t[m].number /\ r.small = s.small /\ r.large = s.large
            /\ r.has_section = TRUE
        BY <1>0, <1>1, <1>3, <2>5, ReadsNumber DEF AfterNumber
      <3>2. Follows(t, r, m)
        BY <1>0, <1>1, <1>3, <2>1, <2>2, <3>1 DEF Follows
      <3> QED
        BY <2>4, <2>5, <3>2
    <2>6. CASE s.number # None
      <3>1. r = None
        BY <1>0, <1>1, <1>3, <2>6, ReadsNumber DEF AfterNumber
      <3> QED
        BY <2>4, <2>6, <3>1
    <2> QED
      BY <2>5, <2>6
  <1>4. CASE IsSmall(t[m])
    <2> DEFINE u == SmallUnits[t[m].unit]
               drop == s.small # None /\ u >= s.small
    <2>1. ~IsNumber(t[m]) /\ ~IsLarge(t[m]) /\ u \in Nat
      BY <1>0, <1>4, TokenIs
    <2>2. Smalls(t, m) = Smalls(t, m - 1) \cup {u} /\ Larges(t, m) = Larges(t, m - 1)
      BY <1>4, <2>1, UnitsAre
    <2>3. /\ drop <=> ~\A v \in Smalls(t, m - 1) : v > u
          /\ (\A v \in Smalls(t, m - 1) : v > u) => LeastOf(u, Smalls(t, m - 1) \cup {u})
      <3> HIDE DEF u
      <3> QED
        BY <1>1, <1>2, <2>1, LeastAdd
    <2>4. Fits1(t, m) <=> ~drop
      <3>1. Fits1(t, m) <=> \A v \in Smalls(t, m - 1) : v > u
        BY <1>4, <2>1, Zenon DEF Fits1
      <3> HIDE DEF drop
      <3> QED
        BY <2>3, <3>1, Zenon
    <2>5. /\ drop => r = None
          /\ ~drop => /\ r \in Read /\ r.number = None /\ r.small = u /\ r.large = s.large
                      /\ r.has_section = TRUE
      <3>1. AfterSmall(r, s, u)
        BY <1>0, <1>1, <1>4, ReadsSmall
      <3> HIDE DEF u
      <3> QED
        BY <3>1 DEF AfterSmall
    <2> HIDE DEF drop, u
    <2>6. ~drop => Follows(t, r, m)
      BY <1>0, <1>1, <2>1, <2>2, <2>3, <2>5 DEF Follows
    <2> QED
      BY <2>4, <2>5, <2>6
  <1>5. CASE IsLarge(t[m])
    <2> DEFINE u == LargeUnits[t[m].unit]
               drop == (s.large # None /\ u >= s.large) \/ ~s.has_section
    <2>1. ~IsNumber(t[m]) /\ ~IsSmall(t[m]) /\ u \in Nat
      BY <1>0, <1>5, TokenIs
    <2>2. Smalls(t, m) = {} /\ Larges(t, m) = Larges(t, m - 1) \cup {u}
      BY <1>5, UnitsAre
    <2>3. /\ (s.large # None /\ u >= s.large) <=> ~\A v \in Larges(t, m - 1) : v > u
          /\ (\A v \in Larges(t, m - 1) : v > u) => LeastOf(u, Larges(t, m - 1) \cup {u})
      <3> HIDE DEF u
      <3> QED
        BY <1>1, <1>2, <2>1, LeastAdd
    <2>4. s.has_section <=> (m > 1 /\ ~IsLarge(t[m - 1]))
      <3>1. s.has_section <=> (m - 1 > 0 /\ ~IsLarge(t[m - 1]))
        BY DEF Follows
      <3>2. (m - 1 > 0) <=> (m > 1)
        BY <1>0
      <3> QED
        BY <3>1, <3>2
    <2>5. Fits1(t, m) <=> ~drop
      <3>1. Fits1(t, m) <=> (m > 1 /\ ~IsLarge(t[m - 1]) /\ \A v \in Larges(t, m - 1) : v > u)
        BY <1>5, <2>1, Zenon DEF Fits1
      <3> QED
        BY <2>3, <2>4, <3>1, Zenon
    <2>6. /\ drop => r = None
          /\ ~drop => /\ r \in Read /\ r.number = None /\ r.small = None /\ r.large = u
                      /\ r.has_section = FALSE
      <3>1. AfterLarge(r, s, u)
        BY <1>0, <1>1, <1>5, ReadsLarge
      <3> HIDE DEF u
      <3> QED
        BY <3>1 DEF AfterLarge
    <2>7. ~drop => \A v \in Larges(t, m - 1) : v > u
      BY <2>3, Zenon
    <2> HIDE DEF drop, u
    <2>8. LeastOf(None, {})
      BY DEF LeastOf
    <2>9. ~drop => Follows(t, r, m)
      BY <1>0, <1>1, <1>5, <2>1, <2>2, <2>3, <2>6, <2>7, <2>8 DEF Follows
    <2> QED
      BY <2>5, <2>6, <2>9
  <1> QED
    BY <1>0, <1>3, <1>4, <1>5, TokenIs

\* What a token is multiplied by: the next large unit, or else one.
LEMMA MultipliedIs ==
    ASSUME NEW t \in Seq(Token), NEW k \in 1..Len(t), NEW m \in k..Len(t),
           IsLarge(t[m]), Apart(t, k, m - 1)
    PROVE  Multiplied(t, k) = LargeUnits[t[m].unit]
  <1>0. Len(t) \in Nat /\ k \in Nat /\ m \in Nat
    OBVIOUS
  <1>1. ~Apart(t, k, Len(t))
    BY <1>0 DEF Apart
  <1> DEFINE first == CHOOSE j \in k..Len(t) : IsLarge(t[j]) /\ Apart(t, k, j - 1)
  <1>2. first \in k..Len(t) /\ IsLarge(t[first]) /\ Apart(t, k, first - 1)
    OBVIOUS
  <1>3. Multiplied(t, k) = LargeUnits[t[first].unit]
    BY <1>1 DEF Multiplied
  <1> HIDE DEF first
  <1>4. first = m
    <2>1. ~(first < m)
      BY <1>0, <1>2 DEF Apart
    <2>2. ~(m < first)
      BY <1>0, <1>2 DEF Apart
    <2> QED
      BY <1>0, <1>2, <2>1, <2>2
  <1> QED
    BY <1>3, <1>4

LEMMA MultipliedNext ==
    ASSUME NEW t \in Seq(Token), NEW k \in 1..Len(t)
    PROVE  Multiplied(t, k) = IF IsLarge(t[k]) THEN LargeUnits[t[k].unit] ELSE Multiplied(t, k + 1)
  <1>0. Len(t) \in Nat /\ k \in Nat
    OBVIOUS
  <1>1. CASE IsLarge(t[k])
    <2>1. Apart(t, k, k - 1) /\ k \in k..Len(t)
      BY <1>0 DEF Apart
    <2> QED
      BY <1>1, <2>1, MultipliedIs
  <1>2. CASE ~IsLarge(t[k]) /\ Apart(t, k + 1, Len(t))
    <2>1. Apart(t, k, Len(t))
      BY <1>0, <1>2 DEF Apart
    <2> QED
      BY <1>2, <2>1 DEF Multiplied
  <1>3. CASE ~IsLarge(t[k]) /\ ~Apart(t, k + 1, Len(t))
    <2> DEFINE T == {j \in k + 1..Len(t) : IsLarge(t[j])}
    <2>1. T # {} /\ T \in SUBSET Nat
      BY <1>0, <1>3 DEF Apart
    <2>2. PICK m \in T : \A j \in T : m <= j
      <3> HIDE DEF T
      <3> QED
        BY <2>1, Least
    <2>3. m \in k + 1..Len(t) /\ IsLarge(t[m])
      OBVIOUS
    <2>4. Apart(t, k + 1, m - 1)
      BY <1>0, <2>2, <2>3 DEF Apart
    <2>5. Apart(t, k, m - 1)
      BY <1>0, <1>3, <2>3, <2>4 DEF Apart
    <2>6. k + 1 \in 1..Len(t) /\ m \in k..Len(t)
      BY <1>0, <2>3
    <2> HIDE DEF T
    <2>7. Multiplied(t, k) = LargeUnits[t[m].unit]
      BY <2>3, <2>5, <2>6, MultipliedIs
    <2>8. Multiplied(t, k + 1) = LargeUnits[t[m].unit]
      BY <2>3, <2>4, <2>6, MultipliedIs
    <2> QED
      BY <1>3, <2>7, <2>8
  <1> QED
    BY <1>1, <1>2, <1>3

LEMMA MultipliedLast ==
    ASSUME NEW t \in Seq(Token)
    PROVE  Multiplied(t, Len(t) + 1) = 1
  <1>1. Len(t) \in Nat
    OBVIOUS
  <1>2. Apart(t, Len(t) + 1, Len(t))
    BY <1>1 DEF Apart
  <1> QED
    BY <1>2 DEF Multiplied

LEMMA MultipliedNat ==
    ASSUME NEW t \in Seq(Token)
    PROVE  \A k \in 1..Len(t) + 1 : Multiplied(t, k) \in Nat
  <1>0. Len(t) \in Nat
    OBVIOUS
  <1> DEFINE T == {m \in 0..Len(t) : Multiplied(t, Len(t) + 1 - m) \in Nat}
  <1>1. 0 \in T
    BY <1>0, MultipliedLast
  <1>2. ASSUME NEW m \in 1..Len(t), m - 1 \in T PROVE m \in T
    <2> DEFINE k == Len(t) + 1 - m
    <2>1. k \in 1..Len(t) /\ t[k] \in Token
      BY <1>0
    <2>2. k + 1 = Len(t) + 1 - (m - 1)
      BY <1>0
    <2>3. Multiplied(t, k + 1) \in Nat
      BY <1>2, <2>2
    <2> HIDE DEF k
    <2>4. Multiplied(t, k) \in Nat
      BY <2>1, <2>3, MultipliedNext, TokenIs
    <2> QED
      BY <1>0, <2>4 DEF k
  <1> HIDE DEF T
  <1>3. \A m \in 1..Len(t) : m - 1 \in T => m \in T
    BY <1>2
  <1>4. \A m \in 0..Len(t) : m \in T
    BY <1>0, <1>1, <1>3, Climb
  <1>5. ASSUME NEW k \in 1..Len(t) + 1 PROVE Multiplied(t, k) \in Nat
    <2> DEFINE m == Len(t) + 1 - k
    <2>1. m \in 0..Len(t) /\ k = Len(t) + 1 - m
      BY <1>0
    <2> HIDE DEF m
    <2>2. m \in T
      BY <1>4, <2>1
    <2> QED
      BY <2>1, <2>2 DEF T
  <1> QED
    BY <1>5

\* A number that waits for its unit is counted at once.
Pending(t, m) == IF m > 0 /\ IsNumber(t[m]) THEN Worth(t, m) ELSE 0

\* What the state is worth once all of the numeral is read.
Valued(t, s, m, x) == x = s.total + s.section * Multiplied(t, m + 1) + Pending(t, m)

LEMMA WorthNat ==
    ASSUME NEW t \in Seq(Token), NEW k \in 1..Len(t)
    PROVE  Worth(t, k) \in Nat
  <1>0. /\ Len(t) \in Nat /\ k \in Nat /\ t[k] \in Token
        /\ k < Len(t) => t[k + 1] \in Token
    OBVIOUS
  <1>1. Multiplied(t, k) \in Nat
    BY <1>0, MultipliedNat
  <1>2. CASE IsLarge(t[k])
    BY <1>2 DEF Worth
  <1>3. ASSUME NEW a \in Nat, NEW b \in Nat PROVE a * b \in Nat
    OBVIOUS
  <1>4. CASE IsSmall(t[k])
    <2>1. SmallUnits[t[k].unit] \in Nat
      BY <1>0, <1>4, TokenIs
    <2>2. Counted(t, k) \in Nat
      BY <1>3, <1>4, <2>1 DEF Counted
    <2> QED
      BY <1>1, <1>3, <2>2 DEF Worth
  <1>5. CASE IsNumber(t[k])
    <2>1. t[k].number \in Nat /\ ~IsSmall(t[k])
      BY <1>0, <1>5, TokenIs
    <2> DEFINE unit == IF k < Len(t) /\ IsSmall(t[k + 1]) THEN SmallUnits[t[k + 1].unit] ELSE 1
    <2>2. unit \in Nat
      BY <1>0, TokenIs
    <2>3. Counted(t, k) = t[k].number * unit
      BY <2>1 DEF Counted
    <2> HIDE DEF unit
    <2>4. Counted(t, k) \in Nat
      BY <1>3, <2>1, <2>2, <2>3
    <2> QED
      BY <1>1, <1>3, <2>4 DEF Worth
  <1> QED
    BY <1>0, <1>2, <1>4, <1>5, TokenIs

\* A sum times a number.
LEMMA Distributes ==
    ASSUME NEW a \in Nat, NEW b \in Nat, NEW c \in Nat, NEW d \in Nat
    PROVE  a + (b + c) * d = a + b * d + c * d
  OBVIOUS

LEMMA Associates ==
    ASSUME NEW a \in Nat, NEW b \in Nat, NEW c \in Nat
    PROVE  (a * b) * c = a * (b * c) /\ a * b \in Nat
  OBVIOUS

\* The sum of what the tokens are worth is what the state is worth.
LEMMA ValuedNext ==
    ASSUME NEW t \in Seq(Token), NEW m \in 1..Len(t), NEW s, Follows(t, s, m - 1),
           Fits1(t, m), NEW r, r = Reads(s, t[m]), NEW x, Valued(t, s, m - 1, x)
    PROVE  Valued(t, r, m, x + Worth(t, m))
  <1> DEFINE p == m - 1
             M == Multiplied(t, m)
             N == Multiplied(t, m + 1)
  <1>0. /\ Len(t) \in Nat /\ m \in Nat /\ t[m] \in Token /\ (m > 1 => t[p] \in Token)
        /\ p \in Nat /\ p + 1 = m /\ p < Len(t) /\ (p > 0 <=> m > 1) /\ m > 0
        /\ m > 1 => p \in 1..Len(t)
    OBVIOUS
  <1>1. /\ M = IF IsLarge(t[m]) THEN LargeUnits[t[m].unit] ELSE N
        /\ M \in Nat /\ N \in Nat
    BY <1>0, MultipliedNext, MultipliedNat
  <1>2. m > 1 /\ IsNumber(t[p]) => Multiplied(t, p) = M
    BY <1>0, MultipliedNext, TokenIs
  <1> HIDE DEF p, M, N
  <1>3. /\ s \in Read /\ s.total \in Nat /\ s.section \in Nat
        /\ s.number = IF p > 0 /\ IsNumber(t[p]) THEN t[p].number ELSE None
    BY DEF Follows, Read, p
  <1>4. x = s.total + s.section * M + Pending(t, p)
    BY <1>0 DEF Valued, M, p
  <1>5. r # None
    <2>1. Follows(t, r, m)
      BY FollowsNext
    <2> QED
      BY <2>1, AmountsAssumption DEF Follows, Read
  <1>6. None \notin Nat
    BY AmountsAssumption
  <1>7. CASE IsNumber(t[m])
    <2>1. ~IsSmall(t[m]) /\ ~IsLarge(t[m])
      BY <1>0, <1>7, TokenIs
    <2>2. r.total = s.total /\ r.section = s.section
      <3>1. AfterNumber(r, s, t[m].number)
        BY <1>0, <1>3, <1>7, ReadsNumber
      <3> QED
        BY <1>5, <3>1 DEF AfterNumber
    <2>3. Pending(t, p) = 0
      BY <1>0, <1>7 DEF Pending, Fits1, p
    <2>4. Pending(t, m) = Worth(t, m)
      BY <1>0, <1>7 DEF Pending
    <2>5. Worth(t, m) \in Nat /\ s.section * N \in Nat
      BY <1>0, <1>1, <1>3, WorthNat
    <2>6. x + Worth(t, m) = s.total + s.section * N + Worth(t, m)
      BY <1>1, <1>3, <1>4, <2>1, <2>3, <2>5
    <2> QED
      BY <2>2, <2>4, <2>6 DEF Valued, N
  <1>8. CASE IsSmall(t[m])
    <2> DEFINE u == SmallUnits[t[m].unit]
               number == OrElse(s.number, 10)
    <2>1. ~IsNumber(t[m]) /\ ~IsLarge(t[m]) /\ u \in Nat /\ M = N
      BY <1>0, <1>1, <1>8, TokenIs
    <2>2. r.total = s.total /\ r.section = s.section + number * u
      <3>1. AfterSmall(r, s, u)
        BY <1>0, <1>3, <1>8, ReadsSmall
      <3> HIDE DEF u
      <3> QED
        BY <1>5, <3>1 DEF AfterSmall
    <2>3. Worth(t, m) = Counted(t, m) * M
      BY <2>1 DEF Worth, M
    <2>4. Counted(t, m) = IF p > 0 /\ IsNumber(t[p]) THEN 0 ELSE 10 * u
      BY <1>0, <1>8 DEF Counted, p
    <2>5. number \in Nat /\ Pending(t, p) + Worth(t, m) = (number * u) * M
      <3>1. CASE p > 0 /\ IsNumber(t[p])
        <4>1. t[p].number \in Nat /\ number = t[p].number /\ ~IsSmall(t[p]) /\ ~IsLarge(t[p])
          BY <1>0, <1>3, <1>6, <3>1, TokenIs DEF OrElse
        <4>2. Pending(t, p) = Worth(t, p) /\ Worth(t, p) = Counted(t, p) * Multiplied(t, p)
          BY <3>1, <4>1 DEF Pending, Worth
        <4>3. Counted(t, p) = t[p].number * u
          BY <1>0, <1>8, <4>1 DEF Counted
        <4>4. Multiplied(t, p) = M
          BY <1>0, <1>2, <3>1
        <4>5. Worth(t, m) = 0
          BY <1>1, <2>3, <2>4, <3>1
        <4> HIDE DEF number, u
        <4>6. (number * u) * M \in Nat
          BY <1>1, <2>1, <4>1, Associates
        <4> QED
          BY <4>1, <4>2, <4>3, <4>4, <4>5, <4>6
      <3>2. CASE ~(p > 0 /\ IsNumber(t[p]))
        <4>1. number = 10 /\ Pending(t, p) = 0
          BY <1>3, <3>2 DEF OrElse, Pending
        <4> HIDE DEF number, u
        <4>2. Worth(t, m) = (number * u) * M
          BY <2>3, <2>4, <3>2, <4>1
        <4>3. (number * u) * M \in Nat
          BY <1>1, <2>1, <4>1, Associates
        <4> QED
          BY <4>1, <4>2, <4>3
      <3> QED
        BY <3>1, <3>2
    <2> HIDE DEF number, u
    <2>6. number * u \in Nat
      BY <2>1, <2>5, Associates
    <2> DEFINE c == number * u
    <2> HIDE DEF c
    <2>7. s.total + (s.section + c) * M = s.total + s.section * M + c * M
      BY <1>1, <1>3, <2>6, Distributes DEF c
    <2>8. Worth(t, m) \in Nat /\ Pending(t, p) \in Nat /\ s.section * M \in Nat /\ c * M \in Nat
      <3>1. c \in Nat
        BY <2>6 DEF c
      <3>2. p > 0 => Worth(t, p) \in Nat
        BY <1>0, WorthNat
      <3> QED
        BY <1>0, <1>1, <1>3, <3>1, <3>2, WorthNat, Associates DEF Pending
    <2>9. Pending(t, p) + Worth(t, m) = c * M
      BY <2>5 DEF c
    <2>10. x + Worth(t, m) = s.total + s.section * M + c * M
      BY <1>3, <1>4, <2>8, <2>9
    <2>11. Pending(t, m) = 0
      BY <2>1 DEF Pending
    <2>12. r.section = s.section + c
      BY <2>2 DEF c
    <2>13. (s.section + c) * M \in Nat
      BY <1>1, <1>3, <2>6, Associates DEF c
    <2>14. x + Worth(t, m) = r.total + r.section * N + 0
      BY <1>3, <2>1, <2>2, <2>7, <2>10, <2>12, <2>13
    <2> QED
      BY <2>11, <2>14 DEF Valued, N
  <1>9. CASE IsLarge(t[m])
    <2> DEFINE u == LargeUnits[t[m].unit]
               number == OrElse(s.number, 0)
    <2>1. ~IsNumber(t[m]) /\ ~IsSmall(t[m]) /\ u \in Nat /\ M = u
      BY <1>0, <1>1, <1>9, TokenIs
    <2>2. r.total = s.total + (s.section + number) * u /\ r.section = 0
      <3>1. AfterLarge(r, s, u)
        BY <1>0, <1>3, <1>9, ReadsLarge
      <3> HIDE DEF u
      <3> QED
        BY <1>5, <3>1 DEF AfterLarge
    <2>3. Worth(t, m) = 0
      BY <1>9 DEF Worth
    <2>4. number \in Nat /\ Pending(t, p) = number * M
      <3>1. CASE p > 0 /\ IsNumber(t[p])
        <4>1. t[p].number \in Nat /\ number = t[p].number /\ ~IsSmall(t[p]) /\ ~IsLarge(t[p])
          BY <1>0, <1>3, <1>6, <3>1, TokenIs DEF OrElse
        <4>2. Pending(t, p) = Worth(t, p) /\ Worth(t, p) = Counted(t, p) * Multiplied(t, p)
          BY <3>1, <4>1 DEF Pending, Worth
        <4>3. Counted(t, p) = t[p].number
          BY <1>0, <2>1, <4>1 DEF Counted
        <4>4. Multiplied(t, p) = M
          BY <1>0, <1>2, <3>1
        <4> QED
          BY <4>1, <4>2, <4>3, <4>4
      <3>2. CASE ~(p > 0 /\ IsNumber(t[p]))
        <4>1. number = 0 /\ Pending(t, p) = 0
          BY <1>3, <3>2 DEF OrElse, Pending
        <4> HIDE DEF number
        <4> QED
          BY <1>1, <4>1
      <3> QED
        BY <3>1, <3>2
    <2> HIDE DEF number, u
    <2>5. s.total + (s.section + number) * M = s.total + s.section * M + number * M
      <3>1. s.total \in Nat /\ s.section \in Nat /\ number \in Nat /\ M \in Nat
        BY <1>1, <1>3, <2>4
      <3> QED
        BY <3>1, Distributes
    <2>6. x + Worth(t, m) = s.total + s.section * M + number * M
      <3>1. number * M \in Nat /\ s.section * M \in Nat
        BY <1>1, <1>3, <2>4, Associates
      <3> QED
        BY <1>3, <1>4, <2>3, <2>4, <3>1
    <2>7. Pending(t, m) = 0
      BY <2>1 DEF Pending
    <2>8. r.total = s.total + (s.section + number) * M
      BY <2>1, <2>2
    <2>9. s.total + (s.section + number) * M \in Nat
      <3>1. s.section + number \in Nat
        BY <1>3, <2>4
      <3>2. (s.section + number) * M \in Nat
        BY <1>1, <3>1, Associates
      <3> QED
        BY <1>3, <3>2
    <2>10. 0 * N = 0
      BY <1>1
    <2>11. x + Worth(t, m) = r.total + r.section * N + 0
      BY <2>2, <2>5, <2>6, <2>8, <2>9, <2>10
    <2> QED
      BY <2>7, <2>11 DEF Valued, N
  <1> QED
    BY <1>0, <1>7, <1>8, <1>9, TokenIs

\* The states on the way, and the sums of what the tokens are worth.
ReadOf(f, t) == f = [n \in 0..Len(t) |-> IF n = 0 THEN Start ELSE Reads(f[n - 1], t[n])]

SumOf(f, t) == f = [k \in 0..Len(t) |-> IF k = 0 THEN 0 ELSE f[k - 1] + Worth(t, k)]

LEMMA ReadExists ==
    ASSUME NEW t \in Seq(Token)
    PROVE  \E f : ReadOf(f, t)
  <1> DEFINE A == Read \cup {None}
             step == [q \in A \X Token |-> Reads(q[1], q[2])]
  <1>1. Len(t) \in Nat /\ Start \in A
    BY DEF Start, Read
  <1>2. step \in [A \X Token -> A]
    BY ReadsStays
  <1>3. PICK f : Runs(f, Start, step, t, Len(t))
    <2> HIDE DEF step, A
    <2> QED
      BY <1>1, RunsExist
  <1>4. \A m \in 0..Len(t) : f[m] \in A
    <2> HIDE DEF step, A
    <2> QED
      BY <1>1, <1>2, <1>3, RunsStay
  <1>5. ASSUME NEW m \in 0..Len(t)
        PROVE  f[m] = IF m = 0 THEN Start ELSE Reads(f[m - 1], t[m])
    <2>1. f[m] = IF m = 0 THEN Start ELSE step[<<f[m - 1], t[m]>>]
      BY <1>3 DEF Runs
    <2>2. m # 0 => f[m - 1] \in A /\ t[m] \in Token
      BY <1>4
    <2> HIDE DEF A
    <2>3. m # 0 => step[<<f[m - 1], t[m]>>] = Reads(f[m - 1], t[m])
      BY <2>2
    <2> HIDE DEF step
    <2> QED
      BY <2>1, <2>3
  <1>6. f = [m \in 0..Len(t) |-> f[m]]
    BY <1>3 DEF Runs
  <1> QED
    BY <1>5, <1>6, Zenon DEF ReadOf

LEMMA SumExists ==
    ASSUME NEW t \in Seq(Token)
    PROVE  \E f : SumOf(f, t)
  <1> DEFINE step == [q \in Nat \X Nat |-> q[1] + q[2]]
             worths == [k \in 1..Len(t) |-> Worth(t, k)]
  <1>1. Len(t) \in Nat /\ worths \in Seq(Nat) /\ Len(worths) = Len(t)
    BY WorthNat
  <1>2. step \in [Nat \X Nat -> Nat]
    OBVIOUS
  <1>3. \A m \in 1..Len(t) : worths[m] = Worth(t, m)
    OBVIOUS
  <1> HIDE DEF worths
  <1>4. PICK f : Runs(f, 0, step, worths, Len(t))
    <2> HIDE DEF step
    <2> QED
      BY <1>1, RunsExist
  <1>5. \A m \in 0..Len(t) : f[m] \in Nat
    <2> HIDE DEF step
    <2> QED
      BY <1>1, <1>2, <1>4, RunsStay
  <1>6. ASSUME NEW m \in 0..Len(t)
        PROVE  f[m] = IF m = 0 THEN 0 ELSE f[m - 1] + Worth(t, m)
    <2>1. f[m] = IF m = 0 THEN 0 ELSE step[<<f[m - 1], worths[m]>>]
      BY <1>4 DEF Runs
    <2>2. m # 0 => f[m - 1] \in Nat /\ worths[m] \in Nat /\ worths[m] = Worth(t, m)
      BY <1>3, <1>5, WorthNat
    <2>3. m # 0 => step[<<f[m - 1], worths[m]>>] = f[m - 1] + worths[m]
      BY <2>2
    <2> HIDE DEF step
    <2> QED
      BY <2>1, <2>2, <2>3
  <1>7. f = [m \in 0..Len(t) |-> f[m]]
    BY <1>4 DEF Runs
  <1> QED
    BY <1>6, <1>7, Zenon DEF SumOf

\* A prefix that is said as it should be is read, and no other is.
LEMMA ReadFollows ==
    ASSUME NEW t \in Seq(Token), NEW f, ReadOf(f, t)
    PROVE  \A m \in 0..Len(t) : IF Okay(t, m) THEN Follows(t, f[m], m) ELSE f[m] = None
  <1> DEFINE follows(m) == IF Okay(t, m) THEN Follows(t, f[m], m) ELSE f[m] = None
             T == {m \in 0..Len(t) : follows(m)}
  <1>0. Len(t) \in Nat
    OBVIOUS
  <1>1. \A m \in 0..Len(t) : f[m] = IF m = 0 THEN Start ELSE Reads(f[m - 1], t[m])
    BY DEF ReadOf
  <1>2. 0 \in T
    <2>1. f[0] = Start
      BY <1>0, <1>1
    <2>2. Smalls(t, 0) = {} /\ Larges(t, 0) = {}
      BY DEF Smalls, Larges
    <2>3. Start \in Read /\ Start.number = None /\ Start.has_section = FALSE
          /\ Start.small = None /\ Start.large = None
      BY DEF Start, Read
    <2>4. Follows(t, Start, 0)
      BY <2>2, <2>3 DEF Follows, LeastOf
    <2>5. Okay(t, 0)
      BY DEF Okay
    <2> QED
      BY <1>0, <2>1, <2>4, <2>5
  <1>3. ASSUME NEW m \in 1..Len(t), m - 1 \in T PROVE m \in T
    <2>1. m \in 0..Len(t) /\ f[m] = Reads(f[m - 1], t[m]) /\ m - 1 \in 0..Len(t)
      BY <1>0, <1>1
    <2>2. follows(m - 1)
      BY <1>3
    <2>3. Okay(t, m) <=> (Okay(t, m - 1) /\ Fits1(t, m))
      BY OkayNext
    <2>4. CASE Okay(t, m - 1)
      <3>1. IF Fits1(t, m) THEN Follows(t, f[m], m) ELSE f[m] = None
        BY <2>1, <2>2, <2>4, FollowsNext
      <3> QED
        BY <2>1, <2>3, <2>4, <3>1
    <2>5. CASE ~Okay(t, m - 1)
      <3>1. f[m] = None
        BY <2>1, <2>2, <2>5 DEF Reads
      <3> QED
        BY <2>1, <2>3, <2>5, <3>1
    <2> QED
      BY <2>4, <2>5
  <1> HIDE DEF T
  <1>4. \A m \in 1..Len(t) : m - 1 \in T => m \in T
    BY <1>3
  <1>5. \A m \in 0..Len(t) : m \in T
    BY <1>0, <1>2, <1>4, Climb
  <1> QED
    BY <1>5 DEF T

\* And is worth what its tokens are.
LEMMA ReadValued ==
    ASSUME NEW t \in Seq(Token), NEW f, ReadOf(f, t), NEW g, SumOf(g, t), Okay(t, Len(t))
    PROVE  \A m \in 0..Len(t) : Valued(t, f[m], m, g[m])
  <1> DEFINE T == {m \in 0..Len(t) : Valued(t, f[m], m, g[m])}
  <1>0. Len(t) \in Nat
    OBVIOUS
  <1>1. ASSUME NEW m \in 0..Len(t) PROVE Okay(t, m)
    <2>1. 1..m \subseteq 1..Len(t) /\ (m > 0 => Len(t) > 0)
      BY <1>0
    <2> QED
      BY <2>1 DEF Okay
  <1>2. ASSUME NEW m \in 0..Len(t)
        PROVE  /\ f[m] = IF m = 0 THEN Start ELSE Reads(f[m - 1], t[m])
               /\ g[m] = IF m = 0 THEN 0 ELSE g[m - 1] + Worth(t, m)
    BY DEF ReadOf, SumOf
  <1>3. 0 \in T
    <2>1. f[0] = Start /\ g[0] = 0
      BY <1>0, <1>2
    <2>2. Multiplied(t, 1) \in Nat
      BY <1>0, MultipliedNat
    <2>3. Start.total = 0 /\ Start.section = 0 /\ Pending(t, 0) = 0
      BY DEF Start, Pending
    <2>4. 0 + 1 = 1 /\ 0 * Multiplied(t, 1) = 0
      BY <2>2
    <2>5. Valued(t, Start, 0, 0)
      BY <2>3, <2>4 DEF Valued
    <2> QED
      BY <1>0, <2>1, <2>5
  <1>4. ASSUME NEW m \in 1..Len(t), m - 1 \in T PROVE m \in T
    <2>1. m \in 0..Len(t) /\ m # 0 /\ m - 1 \in 0..Len(t)
      BY <1>0
    <2>2. f[m] = Reads(f[m - 1], t[m]) /\ g[m] = g[m - 1] + Worth(t, m)
      BY <1>2, <2>1
    <2>3. Fits1(t, m)
      BY <1>1, <2>1, OkayNext
    <2>4. Follows(t, f[m - 1], m - 1)
      BY <1>1, <2>1, ReadFollows
    <2>5. Valued(t, f[m - 1], m - 1, g[m - 1])
      BY <1>4
    <2>6. Valued(t, f[m], m, g[m - 1] + Worth(t, m))
      BY <2>2, <2>3, <2>4, <2>5, ValuedNext
    <2> QED
      BY <2>1, <2>2, <2>6
  <1> HIDE DEF T
  <1>5. \A m \in 1..Len(t) : m - 1 \in T => m \in T
    BY <1>4
  <1>6. \A m \in 0..Len(t) : m \in T
    BY <1>0, <1>3, <1>5, Climb
  <1> QED
    BY <1>6 DEF T

LEMMA AmountsOnce ==
    ASSUME asked.kind = "amount", asked.tokens \in Seq(Token)
    PROVE  AmountsAreRead
  <1> DEFINE t == asked.tokens
             n == Len(t)
             f == CHOOSE a : ReadOf(a, t)
             g == CHOOSE a : SumOf(a, t)
             s == f[n]
             tenths == s.total + s.section + OrElse(s.number, 0)
  <1>0. t \in Seq(Token) /\ n \in Nat
    OBVIOUS
  <1>1. ReadOf(f, t)
    BY ReadExists
  <1>2. SumOf(g, t)
    BY SumExists
  <1>3. ParseAmount(t, FALSE) = IF s = None THEN None
                                ELSE IF tenths % 10 # 0 THEN None ELSE tenths \div 10
    BY DEF ParseAmount, ReadOf
  <1>4. AmountsAreRead <=> (ParseAmount(t, FALSE) = IF Said(t) /\ g[n] % 10 = 0 THEN g[n] \div 10 ELSE None)
    BY DEF AmountsAreRead, SumOf
  <1> HIDE DEF f, g
  <1>5. Said(t) <=> Okay(t, n)
    BY DEF Said, Okay, Pair
  <1>6. IF Okay(t, n) THEN Follows(t, s, n) ELSE s = None
    BY <1>0, <1>1, ReadFollows
  <1>7. CASE Okay(t, n)
    <2>1. /\ s \in Read /\ s # None
          /\ s.number = IF n > 0 /\ IsNumber(t[n]) THEN t[n].number ELSE None
      BY <1>6, <1>7, AmountsAssumption DEF Follows, Read
    <2>2. s.total \in Nat /\ s.section \in Nat
      BY <2>1 DEF Read
    <2>3. g[n] = s.total + s.section * Multiplied(t, n + 1) + Pending(t, n)
      <3>1. n \in 0..Len(t)
        BY <1>0
      <3>2. Valued(t, f[n], n, g[n])
        BY <1>0, <1>1, <1>2, <1>7, <3>1, ReadValued
      <3> QED
        BY <3>2 DEF Valued
    <2>4. Multiplied(t, n + 1) = 1
      BY <1>0, MultipliedLast
    <2>5. Pending(t, n) = OrElse(s.number, 0)
      <3>1. CASE n > 0 /\ IsNumber(t[n])
        <4>1. n \in 1..Len(t) /\ t[n] \in Token
          BY <1>0, <3>1
        <4>2. t[n].number \in Nat /\ ~IsSmall(t[n]) /\ ~IsLarge(t[n])
          BY <3>1, <4>1, TokenIs
        <4>3. Multiplied(t, n) = 1
          BY <1>0, <2>4, <4>1, <4>2, MultipliedNext
        <4>4. ~(n < Len(t))
          BY <1>0
        <4>5. Counted(t, n) = t[n].number
          BY <4>2, <4>4 DEF Counted
        <4>6. Worth(t, n) = t[n].number
          BY <4>2, <4>3, <4>5 DEF Worth
        <4>7. s.number = t[n].number /\ s.number # None
          BY <2>1, <3>1, <4>2, AmountsAssumption
        <4> QED
          BY <3>1, <4>6, <4>7 DEF Pending, OrElse
      <3>2. CASE ~(n > 0 /\ IsNumber(t[n]))
        BY <2>1, <3>2 DEF Pending, OrElse
      <3> QED
        BY <3>1, <3>2
    <2>6. g[n] = tenths
      BY <2>2, <2>3, <2>4, <2>5
    <2> QED
      BY <1>3, <1>4, <1>5, <1>7, <2>1, <2>6
  <1>8. CASE ~Okay(t, n)
    BY <1>3, <1>4, <1>5, <1>6, <1>8
  <1> QED
    BY <1>7, <1>8

-----------------------------------------------------------------------------
(* Claims.                                                                 *)

\* If the backend counts what it says it counts, it counts what the rule does.
LEMMA RepeatsOnce ==
    ASSUME asked.kind = "aggregate", CountsSo(asked.past, asked.snapshot, asked.aggregates)
    PROVE  RepeatsAreCounted
  <1> DEFINE s == asked.snapshot
             a == asked.aggregates
             facts == Aggregates(s, a)
             sentence == Fact("AGGREGATE", AudienceScope(s), {})
  <1> SUFFICES ASSUME facts # <<>> PROVE facts[2].count = CountRepeat(s, asked.past)
    BY DEF RepeatsAreCounted
  <1>0. /\ s.created \in Int /\ a.start \in Int /\ a.end \in Int
        /\ a.count = CountOf(asked.past, s, a.excludes, a.start, a.end)
    BY DEF CountsSo
  <1>1. Agrees(a, s) /\ facts = <<sentence, [sentence EXCEPT !.count = a.count]>>
    BY DEF Aggregates
  <1>2. facts[2].count = a.count
    BY <1>1 DEF Fact
  <1>3. a.excludes = s.post /\ a.end = s.created /\ a.start = s.created - Window
    <2>1. a.excludes = s.post /\ a.end = s.created /\ a.end - a.start = Window
      BY <1>1 DEF Agrees
    <2> QED
      BY <1>0, <2>1, EvidenceAssumption
  <1> HIDE DEF facts
  <1> QED
    BY <1>0, <1>2, <1>3 DEF CountRepeat, CountOf

-----------------------------------------------------------------------------
(* The evidence.                                                           *)

\* Latest leaves out no verdict and adds none.
Sorts(f, s) ==
    f = [n \in 0..Len(s) |->
           IF n = 0 THEN <<>>
           ELSE Select(f[n - 1], Range(s) \ {w \in Range(s) : w.judged < s[n].judged})
                  \o <<s[n]>> \o Select(f[n - 1], {w \in Range(s) : w.judged < s[n].judged})]

LEMMA SortsExist ==
    ASSUME NEW S, NEW s \in Seq(S)
    PROVE  \E f : Sorts(f, s)
  <1> DEFINE earlier(v) == {w \in Range(s) : w.judged < v.judged}
             put(q, v) == Select(q, Range(s) \ earlier(v)) \o <<v>> \o Select(q, earlier(v))
             step == [x \in Seq(S) \X S |-> put(x[1], x[2])]
  <1>1. Len(s) \in Nat /\ <<>> \in Seq(S)
    OBVIOUS
  <1>2. ASSUME NEW q \in Seq(S), NEW v \in S PROVE put(q, v) \in Seq(S)
    <2>1. Select(q, Range(s) \ earlier(v)) \in Seq(S) /\ Select(q, earlier(v)) \in Seq(S)
      BY SelectKeeps
    <2> QED
      BY <2>1
  <1>3. step \in [Seq(S) \X S -> Seq(S)]
    <2> HIDE DEF put
    <2> QED
      BY <1>2
  <1>4. PICK f : Runs(f, <<>>, step, s, Len(s))
    <2> HIDE DEF step
    <2> QED
      BY <1>1, RunsExist
  <1>5. \A m \in 0..Len(s) : f[m] \in Seq(S)
    <2> HIDE DEF step
    <2> QED
      BY <1>1, <1>3, <1>4, RunsStay
  <1>6. ASSUME NEW m \in 0..Len(s) PROVE f[m] = IF m = 0 THEN <<>> ELSE put(f[m - 1], s[m])
    <2>1. f[m] = IF m = 0 THEN <<>> ELSE step[<<f[m - 1], s[m]>>]
      BY <1>4 DEF Runs
    <2>2. m # 0 => f[m - 1] \in Seq(S) /\ s[m] \in S
      BY <1>5
    <2> HIDE DEF put
    <2>3. m # 0 => step[<<f[m - 1], s[m]>>] = put(f[m - 1], s[m])
      BY <2>2
    <2> QED
      BY <2>1, <2>3
  <1>7. f = [m \in 0..Len(s) |-> f[m]]
    BY <1>4 DEF Runs
  <1> QED
    BY <1>6, <1>7, Zenon DEF Sorts

LEMMA LatestKeeps ==
    ASSUME NEW S, NEW s \in Seq(S)
    PROVE  Latest(s) \in Seq(S) /\ Range(Latest(s)) \subseteq Range(s)
  <1> DEFINE R == Range(s)
             chosen == CHOOSE f : Sorts(f, s)
             T == {m \in 0..Len(s) : chosen[m] \in Seq(R)}
  <1>1. Sorts(chosen, s)
    BY SortsExist
  <1>2. Latest(s) = chosen[Len(s)]
    BY DEF Latest, Sorts
  <1>3. 0 \in T
    <2> HIDE DEF chosen, R
    <2>1. 0 \in 0..Len(s)
      OBVIOUS
    <2>2. chosen[0] = <<>>
      BY <1>1, <2>1 DEF Sorts
    <2>3. <<>> \in Seq(R)
      OBVIOUS
    <2> QED
      BY <2>1, <2>2, <2>3
  <1>4. ASSUME NEW m \in 1..Len(s), m - 1 \in T PROVE m \in T
    <2> DEFINE earlier == {w \in Range(s) : w.judged < s[m].judged}
               q == chosen[m - 1]
    <2>1. chosen[m] = Select(q, Range(s) \ earlier) \o <<s[m]>> \o Select(q, earlier)
      <3> HIDE DEF chosen
      <3>1. m \in 0..Len(s) /\ m # 0
        OBVIOUS
      <3> QED
        BY <1>1, <3>1 DEF Sorts
    <2>2. q \in Seq(R)
      BY <1>4
    <2>3. s[m] \in R
      BY DEF Range
    <2> HIDE DEF q, earlier, R, chosen
    <2>4. Select(q, Range(s) \ earlier) \in Seq(R) /\ Select(q, earlier) \in Seq(R)
      BY <2>2, SelectKeeps
    <2>5. <<s[m]>> \in Seq(R)
      BY <2>3
    <2>6. Select(q, Range(s) \ earlier) \o <<s[m]>> \in Seq(R)
      BY <2>4, <2>5
    <2>7. chosen[m] \in Seq(R)
      BY <2>1, <2>4, <2>6
    <2> QED
      BY <2>7
  <1>5. Len(s) \in T
    <2> HIDE DEF T
    <2>1. \A m \in 1..Len(s) : m - 1 \in T => m \in T
      BY <1>4
    <2>2. Len(s) \in Nat
      OBVIOUS
    <2>3. \A m \in 0..Len(s) : m \in T
      BY <1>3, <2>1, <2>2, Climb
    <2> QED
      BY <2>2, <2>3
  <1>6. Latest(s) \in Seq(R)
    BY <1>2, <1>5
  <1>7. R \subseteq S
    BY DEF Range
  <1> HIDE DEF R
  <1> QED
    BY <1>6, <1>7 DEF Range, R

\* A list made item by item.
LEMMA ListOf ==
    ASSUME NEW S, NEW s \in Seq(S), NEW g, g = [k \in DOMAIN s |-> g[k]],
           NEW R, \A k \in DOMAIN s : g[k] \in R
    PROVE  g \in Seq(R) /\ Len(g) = Len(s) /\ DOMAIN g = DOMAIN s
  <1>1. Len(s) \in Nat /\ DOMAIN s = 1..Len(s)
    OBVIOUS
  <1>2. g \in [1..Len(s) -> R]
    BY <1>1
  <1> QED
    BY <1>1, <1>2

\* A list of one item and others is one with more of the others after it.
LEMMA Longer ==
    ASSUME NEW S, NEW X, NEW q \in Seq(S), Len(q) >= 1, \A k \in 2..Len(q) : q[k] \in X,
           NEW b \in Seq(S), \A k \in DOMAIN b : b[k] \in X
    PROVE  /\ q \o b \in Seq(S) /\ Len(q \o b) >= 1 /\ (q \o b)[1] = q[1]
           /\ \A k \in 2..Len(q \o b) : (q \o b)[k] \in X
  <1>1. /\ q \o b \in Seq(S) /\ Len(q) \in Nat /\ Len(b) \in Nat /\ Len(q \o b) = Len(q) + Len(b)
        /\ \A k \in 1..Len(q) + Len(b) : (q \o b)[k] = IF k <= Len(q) THEN q[k] ELSE b[k - Len(q)]
    OBVIOUS
  <1>2. ASSUME NEW k \in 2..Len(q \o b) PROVE (q \o b)[k] \in X
    <2>1. CASE k <= Len(q)
      BY <1>1, <2>1
    <2>2. CASE ~(k <= Len(q))
      <3>1. k - Len(q) \in DOMAIN b
        BY <1>1, <2>2
      <3> QED
        BY <1>1, <2>2, <3>1
    <2> QED
      BY <2>1, <2>2
  <1> QED
    BY <1>1, <1>2

\* What the facts of a pack after the first stand for.
OfAggregates(f, snapshot, resolved) ==
    /\ f.type = "AGGREGATE" /\ f.sources = {} /\ f.scope = AudienceScope(snapshot)
    /\ f.count >= 1 => resolved.aggregates.count > 0

OfARule(f, snapshot, resolved) ==
    \E k \in DOMAIN resolved.rules :
       /\ Matches(snapshot.category, resolved.rules[k])
       /\ f = Fact("RULE", InRooms({resolved.rules[k].room}), {<<"RULE", resolved.rules[k].room>>})

OfAVerdict(f, snapshot, resolved) ==
    \E k \in DOMAIN resolved.verdicts :
       /\ resolved.verdicts[k].post # snapshot.post
       /\ f = Fact("VERDICT", resolved.verdicts[k].scope, {<<"POST", resolved.verdicts[k].post>>})

OfASource(f, resolved) ==
    \E k \in DOMAIN resolved.sources :
       /\ resolved.sources[k].type \in {"POST", "VERDICT"}
       /\ \E type \in {"SPEND", "VERDICT"} :
            f = Fact(type, resolved.sources[k].scope, {<<resolved.sources[k].type, resolved.sources[k].id>>})

OfAnother(f, snapshot, resolved) ==
    \/ OfAggregates(f, snapshot, resolved) \/ OfARule(f, snapshot, resolved)
    \/ OfAVerdict(f, snapshot, resolved) \/ OfASource(f, resolved)

LEMMA AggregatesAre ==
    ASSUME NEW snapshot, NEW resolved, Resolved(resolved),
           NEW list, list = Aggregates(snapshot, resolved.aggregates)
    PROVE  list \in Seq(Range(list)) /\ \A k \in DOMAIN list : OfAggregates(list[k], snapshot, resolved)
  <1> DEFINE sentence == Fact("AGGREGATE", AudienceScope(snapshot), {})
             repeat == [sentence EXCEPT !.count = resolved.aggregates.count]
  <1>1. list = <<>> \/ list = <<sentence, repeat>>
    BY DEF Aggregates
  <1>2. /\ sentence.type = "AGGREGATE" /\ sentence.sources = {} /\ sentence.count = 0
        /\ sentence.scope = AudienceScope(snapshot)
        /\ repeat.type = "AGGREGATE" /\ repeat.sources = {} /\ repeat.count = resolved.aggregates.count
        /\ repeat.scope = AudienceScope(snapshot)
    BY DEF Fact
  <1> HIDE DEF sentence, repeat
  <1>3. OfAggregates(sentence, snapshot, resolved) /\ OfAggregates(repeat, snapshot, resolved)
    BY <1>2 DEF OfAggregates, Resolved
  <1>4. CASE list = <<>>
    BY <1>4 DEF Range
  <1>5. CASE list = <<sentence, repeat>>
    <2>1. DOMAIN list = {1, 2} /\ list[1] = sentence /\ list[2] = repeat
      BY <1>5
    <2>2. sentence \in Range(list) /\ repeat \in Range(list)
      BY <2>1 DEF Range
    <2> QED
      BY <1>3, <1>5, <2>1, <2>2
  <1> QED
    BY <1>1, <1>4, <1>5

LEMMA RuleFactsAre ==
    ASSUME NEW snapshot, NEW resolved, Resolved(resolved),
           NEW list, list = RuleFacts(snapshot, resolved.rules)
    PROVE  list \in Seq(Range(list)) /\ \A k \in DOMAIN list : OfARule(list[k], snapshot, resolved)
  <1> DEFINE rules == resolved.rules
             matching == Select(rules, {r \in Range(rules) : Matches(snapshot.category, r)})
  <1>1. rules \in Seq(Range(rules))
    BY DEF Resolved
  <1>2. /\ matching \in Seq(Range(rules))
        /\ Range(matching) = Range(rules) \cap {r \in Range(rules) : Matches(snapshot.category, r)}
    BY <1>1, SelectKeeps
  <1>3. list = [k \in DOMAIN matching |->
                  Fact("RULE", InRooms({matching[k].room}), {<<"RULE", matching[k].room>>})]
    BY DEF RuleFacts
  <1> HIDE DEF matching
  <1>4. ASSUME NEW k \in DOMAIN list PROVE OfARule(list[k], snapshot, resolved)
    <2>1. k \in DOMAIN matching /\ matching[k] \in Range(matching)
      BY <1>3 DEF Range
    <2>2. matching[k] \in Range(rules) /\ Matches(snapshot.category, matching[k])
      BY <1>2, <2>1
    <2>3. PICK j \in DOMAIN rules : matching[k] = rules[j]
      BY <2>2 DEF Range
    <2> QED
      BY <1>3, <2>1, <2>2, <2>3 DEF OfARule
  <1>5. list \in Seq(Range(list))
    <2>1. DOMAIN list = DOMAIN matching /\ list = [k \in DOMAIN matching |-> list[k]]
      BY <1>3
    <2>2. \A k \in DOMAIN matching : list[k] \in Range(list)
      BY <2>1 DEF Range
    <2> QED
      BY <1>2, <2>1, <2>2, ListOf
  <1> QED
    BY <1>4, <1>5

LEMMA PriorAre ==
    ASSUME NEW snapshot, NEW resolved, Resolved(resolved),
           NEW list, list = Prior(snapshot, resolved.verdicts)
    PROVE  list \in Seq(Range(list)) /\ \A k \in DOMAIN list : OfAVerdict(list[k], snapshot, resolved)
  <1> DEFINE verdicts == resolved.verdicts
             past == Select(verdicts, {v \in Range(verdicts) : v.post # snapshot.post})
             others == Latest(past)
  <1>1. verdicts \in Seq(Range(verdicts))
    BY DEF Resolved
  <1>2. /\ past \in Seq(Range(verdicts))
        /\ Range(past) = Range(verdicts) \cap {v \in Range(verdicts) : v.post # snapshot.post}
    BY <1>1, SelectKeeps
  <1>3. list = [k \in DOMAIN others |-> Fact("VERDICT", others[k].scope, {<<"POST", others[k].post>>})]
    BY DEF Prior
  <1> HIDE DEF past
  <1>4. others \in Seq(Range(verdicts)) /\ Range(others) \subseteq Range(past)
    BY <1>2, LatestKeeps
  <1> HIDE DEF others
  <1>5. ASSUME NEW k \in DOMAIN list PROVE OfAVerdict(list[k], snapshot, resolved)
    <2>1. k \in DOMAIN others /\ others[k] \in Range(others)
      BY <1>3 DEF Range
    <2>2. others[k] \in Range(verdicts) /\ others[k].post # snapshot.post
      BY <1>2, <1>4, <2>1
    <2>3. PICK j \in DOMAIN verdicts : others[k] = verdicts[j]
      BY <2>2 DEF Range
    <2> QED
      BY <1>3, <2>1, <2>2, <2>3 DEF OfAVerdict
  <1>6. list \in Seq(Range(list))
    <2>1. DOMAIN list = DOMAIN others /\ list = [k \in DOMAIN others |-> list[k]]
      BY <1>3
    <2>2. \A k \in DOMAIN others : list[k] \in Range(list)
      BY <2>1 DEF Range
    <2> QED
      BY <1>4, <2>1, <2>2, ListOf
  <1> QED
    BY <1>5, <1>6

LEMMA MemoriesAre ==
    ASSUME NEW snapshot, NEW resolved, Resolved(resolved),
           NEW list, list = Memories(resolved.sources)
    PROVE  list \in Seq(Range(list)) /\ \A k \in DOMAIN list : OfASource(list[k], resolved)
  <1> DEFINE sources == resolved.sources
             known == Select(sources, {s \in Range(sources) : s.type \in {"POST", "VERDICT"}})
             type(k) == IF known[k].type = "POST" THEN "SPEND" ELSE "VERDICT"
  <1>1. sources \in Seq(Range(sources))
    BY DEF Resolved
  <1>2. /\ known \in Seq(Range(sources))
        /\ Range(known) = Range(sources) \cap {s \in Range(sources) : s.type \in {"POST", "VERDICT"}}
    BY <1>1, SelectKeeps
  <1>3. list = [k \in DOMAIN known |-> Fact(type(k), known[k].scope, {<<known[k].type, known[k].id>>})]
    BY DEF Memories
  <1> HIDE DEF known
  <1>4. ASSUME NEW k \in DOMAIN list PROVE OfASource(list[k], resolved)
    <2>1. k \in DOMAIN known /\ known[k] \in Range(known)
      BY <1>3 DEF Range
    <2>2. known[k] \in Range(sources) /\ known[k].type \in {"POST", "VERDICT"}
      BY <1>2, <2>1
    <2>3. PICK j \in DOMAIN sources : known[k] = sources[j]
      BY <2>2 DEF Range
    <2>4. list[k] = Fact(type(k), known[k].scope, {<<known[k].type, known[k].id>>})
      BY <1>3, <2>1
    <2>5. type(k) \in {"SPEND", "VERDICT"}
      OBVIOUS
    <2> HIDE DEF type
    <2> QED
      BY <2>2, <2>3, <2>4, <2>5 DEF OfASource
  <1>5. list \in Seq(Range(list))
    <2>1. DOMAIN list = DOMAIN known /\ list = [k \in DOMAIN known |-> list[k]]
      BY <1>3
    <2>2. \A k \in DOMAIN known : list[k] \in Range(list)
      BY <2>1 DEF Range
    <2>3. known \in Seq(Range(sources))
      BY <1>2
    <2> HIDE DEF sources, type
    <2> QED
      BY <2>1, <2>2, <2>3, ListOf
  <1> QED
    BY <1>4, <1>5

\* The pack begins with the case itself, and all others are of what is resolved.
LEMMA PackIs ==
    ASSUME NEW snapshot, NEW resolved, Resolved(resolved), NEW limit \in Nat \ {0},
           NEW pack, pack = BuildEvidence(snapshot, resolved, limit)
    PROVE  /\ pack \in Seq(Range(pack)) /\ Len(pack) \in 1..limit /\ pack[1] = ThisCase(snapshot)
           /\ \A k \in 2..Len(pack) : OfAnother(pack[k], snapshot, resolved)
  <1> DEFINE a == Aggregates(snapshot, resolved.aggregates)
             b == RuleFacts(snapshot, resolved.rules)
             c == Prior(snapshot, resolved.verdicts)
             d == Memories(resolved.sources)
             one == <<ThisCase(snapshot)>>
             all == one \o a \o b \o c \o d
             n == IF Len(all) < limit THEN Len(all) ELSE limit
             X == Range(a) \cup Range(b) \cup Range(c) \cup Range(d)
             S == {ThisCase(snapshot)} \cup X
  <1>1. pack = SubSeq(all, 1, n)
    BY DEF BuildEvidence
  <1>2. /\ a \in Seq(Range(a)) /\ \A k \in DOMAIN a : OfAggregates(a[k], snapshot, resolved)
        /\ b \in Seq(Range(b)) /\ \A k \in DOMAIN b : OfARule(b[k], snapshot, resolved)
        /\ c \in Seq(Range(c)) /\ \A k \in DOMAIN c : OfAVerdict(c[k], snapshot, resolved)
        /\ d \in Seq(Range(d)) /\ \A k \in DOMAIN d : OfASource(d[k], resolved)
    BY AggregatesAre, RuleFactsAre, PriorAre, MemoriesAre
  <1> HIDE DEF a, b, c, d
  <1>3. ASSUME NEW f \in X PROVE OfAnother(f, snapshot, resolved)
    <2>1. CASE f \in Range(a)
      BY <1>2, <2>1 DEF Range, OfAnother
    <2>2. CASE f \in Range(b)
      BY <1>2, <2>2 DEF Range, OfAnother
    <2>3. CASE f \in Range(c)
      BY <1>2, <2>3 DEF Range, OfAnother
    <2>4. CASE f \in Range(d)
      BY <1>2, <2>4 DEF Range, OfAnother
    <2> QED
      BY <2>1, <2>2, <2>3, <2>4
  <1>4. ASSUME NEW q, q \in Seq(Range(q)), Range(q) \subseteq X
        PROVE  q \in Seq(S) /\ \A k \in DOMAIN q : q[k] \in X
    <2>1. \A k \in DOMAIN q : q[k] \in X
      BY <1>4 DEF Range
    <2>2. Range(q) \subseteq S
      BY <1>4
    <2> HIDE DEF X, S
    <2> QED
      BY <1>4, <2>1, <2>2
  <1>5. /\ a \in Seq(S) /\ \A k \in DOMAIN a : a[k] \in X
        /\ b \in Seq(S) /\ \A k \in DOMAIN b : b[k] \in X
        /\ c \in Seq(S) /\ \A k \in DOMAIN c : c[k] \in X
        /\ d \in Seq(S) /\ \A k \in DOMAIN d : d[k] \in X
    <2>1. /\ Range(a) \subseteq X /\ Range(b) \subseteq X
          /\ Range(c) \subseteq X /\ Range(d) \subseteq X
      OBVIOUS
    <2> HIDE DEF X, S
    <2> QED
      BY <1>2, <1>4, <2>1
  <1>6. one \in Seq(S) /\ Len(one) >= 1 /\ one[1] = ThisCase(snapshot) /\ \A k \in 2..Len(one) : one[k] \in X
    OBVIOUS
  <1> HIDE DEF one, X, S
  <1>7. /\ one \o a \in Seq(S) /\ Len(one \o a) >= 1 /\ (one \o a)[1] = one[1]
        /\ \A k \in 2..Len(one \o a) : (one \o a)[k] \in X
    BY <1>5, <1>6, Longer
  <1> DEFINE oa == one \o a
             ob == oa \o b
             oc == ob \o c
  <1> HIDE DEF oa
  <1>8. /\ ob \in Seq(S) /\ Len(ob) >= 1 /\ ob[1] = oa[1] /\ \A k \in 2..Len(ob) : ob[k] \in X
    <2>1. oa \in Seq(S) /\ Len(oa) >= 1 /\ \A k \in 2..Len(oa) : oa[k] \in X
      BY <1>7 DEF oa
    <2> QED
      BY <1>5, <2>1, Longer
  <1> HIDE DEF ob
  <1>9. /\ oc \in Seq(S) /\ Len(oc) >= 1 /\ oc[1] = ob[1] /\ \A k \in 2..Len(oc) : oc[k] \in X
    BY <1>5, <1>8, Longer
  <1> HIDE DEF oc
  <1>10. /\ oc \o d \in Seq(S) /\ Len(oc \o d) >= 1 /\ (oc \o d)[1] = oc[1]
         /\ \A k \in 2..Len(oc \o d) : (oc \o d)[k] \in X
    BY <1>5, <1>9, Longer
  <1>11. /\ all \in Seq(S) /\ Len(all) >= 1 /\ all[1] = ThisCase(snapshot)
         /\ \A k \in 2..Len(all) : all[k] \in X
    BY <1>6, <1>7, <1>8, <1>9, <1>10 DEF oa, ob, oc
  <1> HIDE DEF all
  <1>12. Len(all) \in Nat /\ n \in 1..Len(all) /\ n <= limit
    BY <1>11
  <1> HIDE DEF n
  <1>13. /\ pack \in Seq(S) /\ Len(pack) = n /\ DOMAIN pack = 1..n
         /\ \A k \in 1..n : pack[k] = all[k]
    BY <1>1, <1>11, <1>12
  <1>14. pack \in Seq(Range(pack))
    BY <1>13 DEF Range
  <1>15. \A k \in 2..Len(pack) : pack[k] \in X
    BY <1>11, <1>12, <1>13
  <1> QED
    BY <1>3, <1>11, <1>12, <1>13, <1>14, <1>15

-----------------------------------------------------------------------------
(* What a model is offered.                                                *)

\* With what is inferred each fact is one of the pack or refers to some of it.
AddsTo(facts, pack, items) ==
    /\ Len(facts) \in Nat /\ DOMAIN facts = 1..Len(facts) /\ Len(facts) >= Len(pack)
    /\ \A k \in 1..Len(pack) : facts[k] = pack[k]
    /\ \A k \in Len(pack) + 1..Len(facts) :
         \E j \in DOMAIN items : Kept(items[j], pack) /\ facts[k] = Inferred(items[j], pack)

LEMMA InferredAre ==
    ASSUME NEW pack, pack \in Seq(Range(pack)), NEW items, items \in Seq(Range(items)),
           NEW facts, facts = MergeInferred(pack, items)
    PROVE  AddsTo(facts, pack, items)
  <1> DEFINE kept == Select(items, {i \in Range(items) : Kept(i, pack)})
             more == [k \in DOMAIN kept |-> Inferred(kept[k], pack)]
             S == Range(pack) \cup Range(more)
  <1>1. facts = pack \o more
    BY DEF MergeInferred
  <1>2. /\ kept \in Seq(Range(items))
        /\ Range(kept) = Range(items) \cap {i \in Range(items) : Kept(i, pack)}
    BY SelectKeeps
  <1> HIDE DEF kept
  <1>3. ASSUME NEW k \in DOMAIN more
        PROVE  \E j \in DOMAIN items : Kept(items[j], pack) /\ more[k] = Inferred(items[j], pack)
    <2>1. k \in DOMAIN kept /\ kept[k] \in Range(kept)
      BY DEF Range
    <2>2. kept[k] \in Range(items) /\ Kept(kept[k], pack)
      BY <1>2, <2>1
    <2>3. PICK j \in DOMAIN items : kept[k] = items[j]
      BY <2>2 DEF Range
    <2> QED
      BY <2>1, <2>2, <2>3
  <1>4. more \in Seq(Range(more))
    <2>1. DOMAIN more = DOMAIN kept /\ more = [k \in DOMAIN kept |-> more[k]]
      OBVIOUS
    <2>2. \A k \in DOMAIN kept : more[k] \in Range(more)
      BY <2>1 DEF Range
    <2> HIDE DEF more
    <2> QED
      BY <1>2, <2>1, <2>2, ListOf
  <1> HIDE DEF more
  <1>5. pack \in Seq(S) /\ more \in Seq(S)
    BY <1>4
  <1> HIDE DEF S
  <1>6. /\ facts \in Seq(S) /\ Len(pack) \in Nat /\ Len(more) \in Nat /\ Len(facts) = Len(pack) + Len(more)
        /\ DOMAIN more = 1..Len(more)
        /\ \A k \in 1..Len(pack) + Len(more) : facts[k] = IF k <= Len(pack) THEN pack[k] ELSE more[k - Len(pack)]
    BY <1>1, <1>5
  <1>7. ASSUME NEW k \in Len(pack) + 1..Len(facts)
        PROVE  \E j \in DOMAIN items : Kept(items[j], pack) /\ facts[k] = Inferred(items[j], pack)
    <2>1. k - Len(pack) \in DOMAIN more /\ facts[k] = more[k - Len(pack)]
      BY <1>6
    <2> QED
      BY <1>3, <2>1
  <1> QED
    BY <1>6, <1>7 DEF AddsTo

\* A scope all the rooms are in.
Admits(scope, rooms) ==
    \/ scope.visibility = "PUBLIC"
    \/ scope.visibility = "ROOMS" /\ rooms \subseteq scope.rooms

\* Where the narrowest of some scopes is usable, they all are.
LEMMA NarrowestIs ==
    ASSUME NEW scopes, \A s \in scopes : s.visibility \in Visibilities,
           NEW rooms, Usable(Narrowest(scopes), rooms)
    PROVE  \A s \in scopes : Admits(s, rooms)
  <1> DEFINE limited == {s \in scopes : s.visibility = "ROOMS"}
             common == {r \in UNION {s.rooms : s \in limited} : \A s \in limited : r \in s.rooms}
  <1>1. CASE \E s \in scopes : s.visibility = "PRIVATE"
    <2>1. Narrowest(scopes) = Private
      BY <1>1 DEF Narrowest
    <2>2. ~Usable(Private, rooms)
      BY DEF Usable, Private
    <2> QED
      BY <2>1, <2>2
  <1>2. CASE (\A s \in scopes : s.visibility # "PRIVATE") /\ limited = {}
    BY <1>2 DEF Visibilities, Admits
  <1>3. CASE (\A s \in scopes : s.visibility # "PRIVATE") /\ limited # {}
    <2>1. Narrowest(scopes) = InRooms(common)
      BY <1>3 DEF Narrowest
    <2>2. rooms \subseteq common
      <3>1. InRooms(common).visibility = "ROOMS" /\ InRooms(common).rooms = common
        BY DEF InRooms
      <3> HIDE DEF common
      <3> QED
        BY <2>1, <3>1 DEF Usable
    <2>3. ASSUME NEW s \in scopes PROVE Admits(s, rooms)
      <3>1. CASE s.visibility = "ROOMS"
        <4>1. rooms \subseteq s.rooms
          BY <2>2, <3>1
        <4> QED
          BY <3>1, <4>1 DEF Admits
      <3>2. CASE s.visibility = "PUBLIC"
        BY <3>2 DEF Admits
      <3> QED
        BY <1>3, <3>1, <3>2 DEF Visibilities
    <2> QED
      BY <2>3
  <1> QED
    BY <1>1, <1>2, <1>3

\* The scopes a source came with, as the property has it.
ScopesOf(source, snapshot, resolved) ==
    (IF source = <<"POST", snapshot.post>> THEN {AudienceScope(snapshot)} ELSE {})
      \cup {v.scope : v \in {w \in Range(resolved.verdicts) : source = <<"POST", w.post>>}}
      \cup {s.scope : s \in {m \in Range(resolved.sources) : source = <<m.type, m.id>>}}
      \cup (IF source[1] = "RULE" THEN {InRooms({source[2]})} ELSE {})

\* A fact of the pack has the scope its source came with.
LEMMA PackScopes ==
    ASSUME NEW snapshot, NEW resolved, Resolved(resolved),
           NEW f, f = ThisCase(snapshot) \/ OfAnother(f, snapshot, resolved)
    PROVE  /\ f.scope.visibility \in Visibilities
           /\ \A source \in f.sources : f.scope \in ScopesOf(source, snapshot, resolved)
  <1>0. AudienceScope(snapshot).visibility \in Visibilities
    BY DEF AudienceScope, InRooms, Visibilities
  <1>1. CASE f = ThisCase(snapshot)
    <2>1. f.scope = AudienceScope(snapshot) /\ f.sources = {<<"POST", snapshot.post>>}
      BY <1>1 DEF ThisCase, Fact
    <2> QED
      BY <1>0, <2>1 DEF ScopesOf
  <1>2. CASE OfAggregates(f, snapshot, resolved)
    BY <1>0, <1>2 DEF OfAggregates
  <1>3. CASE OfARule(f, snapshot, resolved)
    <2>1. PICK room : f = Fact("RULE", InRooms({room}), {<<"RULE", room>>})
      BY <1>3 DEF OfARule
    <2>2. f.scope = InRooms({room}) /\ f.sources = {<<"RULE", room>>}
      BY <2>1 DEF Fact
    <2>3. f.scope \in ScopesOf(<<"RULE", room>>, snapshot, resolved)
      BY <2>2 DEF ScopesOf
    <2>4. f.scope.visibility = "ROOMS"
      BY <2>2 DEF InRooms
    <2> QED
      BY <2>2, <2>3, <2>4 DEF Visibilities
  <1>4. CASE OfAVerdict(f, snapshot, resolved)
    <2>1. PICK v \in Range(resolved.verdicts) : f = Fact("VERDICT", v.scope, {<<"POST", v.post>>})
      BY <1>4 DEF OfAVerdict, Range
    <2>2. f.scope = v.scope /\ f.sources = {<<"POST", v.post>>}
      BY <2>1 DEF Fact
    <2>3. v.scope \in ScopesOf(<<"POST", v.post>>, snapshot, resolved)
      BY DEF ScopesOf
    <2> QED
      BY <2>2, <2>3 DEF Resolved
  <1>5. CASE OfASource(f, resolved)
    <2>1. PICK s \in Range(resolved.sources), type \in {"SPEND", "VERDICT"} :
            f = Fact(type, s.scope, {<<s.type, s.id>>})
      BY <1>5 DEF OfASource, Range
    <2>2. f.scope = s.scope /\ f.sources = {<<s.type, s.id>>}
      BY <2>1 DEF Fact
    <2>3. s.scope \in ScopesOf(<<s.type, s.id>>, snapshot, resolved)
      BY DEF ScopesOf
    <2> QED
      BY <2>2, <2>3 DEF Resolved
  <1> QED
    BY <1>1, <1>2, <1>3, <1>4, <1>5 DEF OfAnother

\* A fact that is usable came of sources each with a scope all the rooms are in.
LEMMA UsableIsAdmitted ==
    ASSUME NEW snapshot, NEW resolved, Resolved(resolved), NEW limit \in Nat \ {0},
           NEW items, items \in Seq(Range(items)),
           NEW pack, pack = BuildEvidence(snapshot, resolved, limit),
           NEW facts, facts = MergeInferred(pack, items),
           NEW k \in DOMAIN facts, NEW rooms, Usable(facts[k].scope, rooms),
           NEW source \in facts[k].sources
    PROVE  \E scope \in ScopesOf(source, snapshot, resolved) : Admits(scope, rooms)
  <1>1. /\ pack \in Seq(Range(pack)) /\ Len(pack) \in 1..limit /\ pack[1] = ThisCase(snapshot)
        /\ \A j \in 2..Len(pack) : OfAnother(pack[j], snapshot, resolved)
    BY PackIs
  <1>2. /\ DOMAIN facts = 1..Len(facts) /\ Len(facts) \in Nat
        /\ \A j \in 1..Len(pack) : facts[j] = pack[j]
        /\ \A j \in Len(pack) + 1..Len(facts) :
             \E i \in DOMAIN items : Kept(items[i], pack) /\ facts[j] = Inferred(items[i], pack)
    <2>1. AddsTo(facts, pack, items)
      BY <1>1, InferredAre
    <2> QED
      BY <2>1, Zenon DEF AddsTo
  <1>3. ASSUME NEW j \in DOMAIN pack
        PROVE  /\ pack[j].scope.visibility \in Visibilities
               /\ \A s \in pack[j].sources : pack[j].scope \in ScopesOf(s, snapshot, resolved)
    <2>1. pack[j] = ThisCase(snapshot) \/ OfAnother(pack[j], snapshot, resolved)
      BY <1>1
    <2> QED
      BY <2>1, PackScopes
  <1>4. Len(pack) \in Nat /\ DOMAIN pack = 1..Len(pack)
    BY <1>1
  <1>5. CASE k \in 1..Len(pack)
    <2>1. facts[k] = pack[k] /\ k \in DOMAIN pack
      BY <1>2, <1>4, <1>5
    <2>2. Admits(pack[k].scope, rooms)
      BY <2>1 DEF Usable, Admits
    <2> QED
      BY <1>3, <2>1, <2>2
  <1>6. CASE k \in Len(pack) + 1..Len(facts)
    <2>1. PICK i \in DOMAIN items : Kept(items[i], pack) /\ facts[k] = Inferred(items[i], pack)
      BY <1>2, <1>6
    <2> DEFINE refs == items[i].refs
               scopes == {pack[j].scope : j \in refs}
    <2>2. refs \subseteq DOMAIN pack
      BY <2>1 DEF Kept
    <2>3. facts[k].scope = Narrowest(scopes) /\ facts[k].sources = UNION {pack[j].sources : j \in refs}
      BY <2>1 DEF Inferred
    <2>4. PICK j \in refs : source \in pack[j].sources
      BY <2>3
    <2>5. \A s \in scopes : s.visibility \in Visibilities
      BY <1>3, <2>2
    <2>6. pack[j].scope \in scopes
      OBVIOUS
    <2>7. Admits(pack[j].scope, rooms)
      <3> HIDE DEF scopes
      <3> QED
        BY <2>3, <2>5, <2>6, NarrowestIs
    <2> QED
      BY <1>3, <2>2, <2>4, <2>7
  <1> QED
    BY <1>2, <1>4, <1>5, <1>6

\* Facts of the past, or of a rule, are there only if something vouches for them.
Grounds(f, snapshot, resolved, items) ==
    /\ f.type \in {"SPEND", "VERDICT"} \/ f.count >= 1 =>
         \/ \E j \in DOMAIN resolved.verdicts : resolved.verdicts[j].post # snapshot.post
         \/ \E j \in DOMAIN resolved.sources : resolved.sources[j].type \in {"POST", "VERDICT"}
         \/ resolved.aggregates.count > 0
    /\ f.type \in {"RULE", "RULE_HIT"} =>
         \/ \E j \in DOMAIN resolved.rules : resolved.rules[j].words \cap snapshot.category # {}
         \/ \E j \in DOMAIN items : items[j].kind = "RULE_HIT"

LEMMA GroundsAre ==
    ASSUME NEW snapshot, NEW resolved, Resolved(resolved), NEW limit \in Nat \ {0},
           NEW items, items \in Seq(Range(items)),
           NEW pack, pack = BuildEvidence(snapshot, resolved, limit),
           NEW facts, facts = MergeInferred(pack, items),
           NEW k \in 2..Len(facts)
    PROVE  Grounds(facts[k], snapshot, resolved, items)
  <1>1. /\ pack \in Seq(Range(pack)) /\ Len(pack) \in 1..limit
        /\ \A j \in 2..Len(pack) : OfAnother(pack[j], snapshot, resolved)
    BY PackIs
  <1>2. /\ Len(facts) \in Nat
        /\ \A j \in 1..Len(pack) : facts[j] = pack[j]
        /\ \A j \in Len(pack) + 1..Len(facts) :
             \E i \in DOMAIN items : Kept(items[i], pack) /\ facts[j] = Inferred(items[i], pack)
    <2>1. AddsTo(facts, pack, items)
      BY <1>1, InferredAre
    <2> QED
      BY <2>1, Zenon DEF AddsTo
  <1>3. CASE k \in 2..Len(pack)
    <2>1. facts[k] = pack[k] /\ OfAnother(pack[k], snapshot, resolved)
      BY <1>1, <1>2, <1>3
    <2>2. CASE OfAggregates(facts[k], snapshot, resolved)
      BY <2>2 DEF OfAggregates, Grounds
    <2>3. CASE OfARule(facts[k], snapshot, resolved)
      <3>1. facts[k].type = "RULE" /\ facts[k].count = 0
        BY <2>3 DEF OfARule, Fact
      <3> QED
        BY <2>3, <3>1 DEF OfARule, Grounds, Matches
    <2>4. CASE OfAVerdict(facts[k], snapshot, resolved)
      <3>1. facts[k].type = "VERDICT"
        BY <2>4 DEF OfAVerdict, Fact
      <3> QED
        BY <2>4, <3>1 DEF OfAVerdict, Grounds
    <2>5. CASE OfASource(facts[k], resolved)
      <3>1. facts[k].type \in {"SPEND", "VERDICT"}
        BY <2>5 DEF OfASource, Fact
      <3> QED
        BY <2>5, <3>1 DEF OfASource, Grounds
    <2> QED
      BY <2>1, <2>2, <2>3, <2>4, <2>5 DEF OfAnother
  <1>4. CASE k \in Len(pack) + 1..Len(facts)
    <2>1. PICK i \in DOMAIN items : Kept(items[i], pack) /\ facts[k] = Inferred(items[i], pack)
      BY <1>2, <1>4
    <2>2. facts[k].type = KindType[items[i].kind] /\ facts[k].count = 0
      BY <2>1 DEF Inferred
    <2>3. items[i].kind \in {"RULE_HIT", "MITIGATION"}
      BY <2>1 DEF Kept, KindType
    <2>4. CASE items[i].kind = "RULE_HIT"
      <3>1. facts[k].type = "RULE"
        BY <2>2, <2>4 DEF KindType
      <3> QED
        BY <2>2, <2>4, <3>1 DEF Grounds
    <2>5. CASE items[i].kind = "MITIGATION"
      <3>1. facts[k].type = "MITIGATION"
        BY <2>2, <2>5 DEF KindType
      <3> QED
        BY <2>2, <3>1 DEF Grounds
    <2> QED
      BY <2>3, <2>4, <2>5
  <1> QED
    BY <1>1, <1>2, <1>3, <1>4

\* One item and then others.
LEMMA RangeOfBoth ==
    ASSUME NEW S, NEW one \in S, NEW others \in Seq(S)
    PROVE  Range(<<one>> \o others) = {one} \cup Range(others)
  <1> DEFINE first == <<one>>
  <1>1. first \in Seq(S) /\ Range(first) = {one}
    BY DEF Range
  <1> HIDE DEF first
  <1>2. Range(first \o others) = Range(first) \cup Range(others)
    BY <1>1, RangeJoined
  <1> QED
    BY <1>1, <1>2 DEF first

\* An angle is offered if it is the plain one or grounded.
LEMMA AnglesAre ==
    ASSUME NEW snapshot, NEW facts, NEW angles, angles = WriterAngles(snapshot, facts)
    PROVE  /\ snapshot.result \in {"notGuilty", "agree"} => Len(angles) = 1
           /\ Range(angles) \cap UngroundedAngles(facts) = {}
  <1> DEFINE plain == "EXCUSE_DISSECTION"
             others == Select(AngleOrder, Range(AngleOrder) \ (UngroundedAngles(facts) \cup {plain}))
  <1>1. UngroundedAngles(facts) \subseteq {"REPETITION", "FUTURE_PROPHECY", "RULE_PERSONIFICATION"}
    BY DEF UngroundedAngles, HistoryAngles, RuleAngles
  <1>2. plain \notin UngroundedAngles(facts)
    BY <1>1
  <1> HIDE DEF plain
  <1>3. CASE snapshot.result \in {"agree", "notGuilty"}
    <2>1. angles = <<plain>>
      BY <1>3 DEF WriterAngles, plain
    <2>2. Range(angles) = {plain} /\ Len(angles) = 1
      BY <2>1 DEF Range
    <2> QED
      BY <1>2, <2>2
  <1>4. CASE snapshot.result \notin {"agree", "notGuilty"}
    <2>1. angles = <<plain>> \o others
      BY <1>4 DEF WriterAngles, plain
    <2> DEFINE S == Range(AngleOrder) \cup {plain}
    <2>2. AngleOrder \in Seq(S)
      <3>1. AngleOrder \in Seq(Range(AngleOrder))
        BY DEF AngleOrder, Range
      <3> QED
        BY <3>1
    <2>3. others \in Seq(S) /\ Range(others) = Range(AngleOrder) \cap (Range(AngleOrder) \ (UngroundedAngles(facts) \cup {plain}))
      BY <2>2, SelectKeeps
    <2> HIDE DEF S, others
    <2>5. Range(angles) = {plain} \cup Range(others)
      <3>1. plain \in S
        BY DEF S
      <3> QED
        BY <2>1, <2>3, <3>1, RangeOfBoth
    <2> QED
      BY <1>2, <1>4, <2>3, <2>5
  <1> QED
    BY <1>3, <1>4

\* A candidate that is offered is the one that was parsed, without what it may
\* not cite.
LEMMA CandidatesAre ==
    ASSUME NEW candidate, {"fits", "labels"} \subseteq DOMAIN candidate,
           NEW allowed, NEW snapshot, NEW facts,
           NEW c \in Range(WriterRequest(snapshot, facts,
                     FilterBanter(ParseCandidates(<<candidate>>), "mild", allowed)).candidates)
    PROVE  /\ snapshot.result \in c.fits /\ c.len <= BanterMax /\ c.labels \subseteq allowed
           /\ c.strategy # "PARODY" => c.labels # {}
  <1> DEFINE parsed == ParseCandidates(<<candidate>>)
             known == Select(<<candidate>>, {i \in Range(<<candidate>>) : i.strategy \in Strategies})
             fits == [candidate EXCEPT !.fits = @ \cap Fits]
             marked == [fits EXCEPT !.labels = @ \cap allowed]
             list == [k \in DOMAIN parsed |-> [parsed[k] EXCEPT !.labels = @ \cap allowed]]
             keeps(x) == /\ x.len \in 1..BanterMax
                         /\ x.strategy \in LabelRequired => x.labels # {}
                         /\ ~Forbidden(x.words, "mild")
             banter == Select(list, {x \in Range(list) : keeps(x)})
  <1>1. known \in Seq({candidate}) /\ Range(known) \subseteq {i \in {candidate} : i.strategy \in Strategies}
    <2>1. <<candidate>> \in Seq({candidate}) /\ Range(<<candidate>>) = {candidate}
      BY DEF Range
    <2>2. known \in Seq({candidate})
      BY <2>1, SelectKeeps
    <2>3. Range(known) = Range(<<candidate>>) \cap {i \in Range(<<candidate>>) : i.strategy \in Strategies}
      BY <2>1, SelectKeeps
    <2> HIDE DEF known
    <2> QED
      BY <2>1, <2>2, <2>3
  <1>2. parsed = [k \in DOMAIN known |-> [known[k] EXCEPT !.fits = @ \cap Fits]]
    BY DEF ParseCandidates
  <1> HIDE DEF known
  <1>3. /\ \A k \in DOMAIN parsed : parsed[k] = fits /\ candidate.strategy \in Strategies
        /\ DOMAIN parsed = DOMAIN known
    <2>1. \A k \in DOMAIN known : known[k] = candidate /\ candidate.strategy \in Strategies
      BY <1>1 DEF Range
    <2> HIDE DEF fits
    <2> QED
      BY <1>2, <2>1 DEF fits
  <1> HIDE DEF parsed
  <1>4. list \in Seq({marked}) /\ (Range(list) # {} => candidate.strategy \in Strategies)
    <2>1. \A k \in DOMAIN known : list[k] = marked
      <3> HIDE DEF fits
      <3> QED
        BY <1>3
    <2>2. DOMAIN list = DOMAIN known
      BY <1>3
    <2>3. list = [k \in DOMAIN known |-> list[k]]
      BY <2>2
    <2>4. Range(list) # {} => DOMAIN known # {}
      BY <2>2 DEF Range
    <2> HIDE DEF list, marked, fits
    <2>5. list \in Seq({marked})
      BY <1>1, <2>1, <2>3, ListOf
    <2> QED
      BY <1>3, <2>4, <2>5
  <1> HIDE DEF list
  <1>5. banter \in Seq({marked}) /\ Range(banter) = Range(list) \cap {x \in Range(list) : keeps(x)}
    <2> HIDE DEF keeps, marked
    <2> QED
      BY <1>4, SelectKeeps
  <1>6. c \in Range(Select(banter, {x \in Range(banter) : snapshot.result \in x.fits}))
    BY DEF WriterRequest, FilterBanter, list, parsed
  <1> HIDE DEF banter
  <1>7. c \in Range(banter) /\ snapshot.result \in c.fits
    <2>1. Range(Select(banter, {x \in Range(banter) : snapshot.result \in x.fits}))
            = Range(banter) \cap {x \in Range(banter) : snapshot.result \in x.fits}
      <3> HIDE DEF marked
      <3> QED
        BY <1>5, SelectKeeps
    <2> QED
      BY <1>6, <2>1
  <1>8. c \in Range(list) /\ keeps(c)
    <2> HIDE DEF keeps
    <2> QED
      BY <1>5, <1>7
  <1>9. c = marked /\ candidate.strategy \in Strategies
    <2> HIDE DEF marked
    <2> QED
      BY <1>4, <1>8 DEF Range
  <1>10. c.labels \subseteq allowed /\ c.strategy \in Strategies
    BY <1>9
  <1>11. c.len <= BanterMax /\ (c.strategy # "PARODY" => c.labels # {})
    BY <1>8, <1>10, EvidenceAssumption DEF Strategies, LabelRequired
  <1> QED
    BY <1>7, <1>10, <1>11

LEMMA EvidenceOnce ==
    ASSUME asked.kind = "evidence", Resolved(asked.resolved), asked.limit \in Nat \ {0},
           asked.items \in Seq(Range(asked.items)),
           {"fits", "labels"} \subseteq DOMAIN asked.candidate
    PROVE  EvidenceIsGrounded
  <1> DEFINE snapshot == asked.snapshot
             resolved == asked.resolved
             items == asked.items
             pack == BuildEvidence(snapshot, resolved, asked.limit)
             facts == MergeInferred(pack, items)
             allowed == TargetPack(facts, snapshot.rooms)
             banter == FilterBanter(ParseCandidates(<<asked.candidate>>), "mild", allowed)
             request == WriterRequest(snapshot, facts, banter)
             past == \/ \E k \in DOMAIN resolved.verdicts : resolved.verdicts[k].post # snapshot.post
                     \/ \E k \in DOMAIN resolved.sources : resolved.sources[k].type \in {"POST", "VERDICT"}
                     \/ resolved.aggregates.count > 0
             ruled == \E k \in DOMAIN resolved.rules : resolved.rules[k].words \cap snapshot.category # {}
             said == \E k \in DOMAIN items : items[k].kind = "RULE_HIT"
  <1>1. Len(pack) \in 1..asked.limit /\ pack[1] = ThisCase(snapshot)
    BY PackIs
  <1>2. request.angles = WriterAngles(snapshot, facts)
    BY DEF WriterRequest
  <1> HIDE DEF pack, allowed, banter, facts, request
  <1>3. /\ snapshot.result \in {"notGuilty", "agree"} => Len(request.angles) = 1
        /\ Range(request.angles) \cap UngroundedAngles(facts) = {}
    BY <1>2, AnglesAre
  <1>4. ASSUME NEW k \in 2..Len(facts)
        PROVE  /\ facts[k].type \in {"SPEND", "VERDICT"} \/ facts[k].count >= 1 => past
               /\ facts[k].type \in {"RULE", "RULE_HIT"} => ruled \/ said
    <2>1. Grounds(facts[k], snapshot, resolved, items)
      <3>1. pack = BuildEvidence(snapshot, resolved, asked.limit) /\ facts = MergeInferred(pack, items)
        BY DEF pack, facts
      <3>2. Resolved(resolved) /\ items \in Seq(Range(items))
        OBVIOUS
      <3> HIDE DEF past, ruled, said, snapshot, resolved, items
      <3> QED
        BY <3>1, <3>2, GroundsAre
    <2> QED
      BY <2>1, Zenon DEF Grounds
  <1> DEFINE others == {facts[k] : k \in 2..Len(facts)}
             history == \E f \in others : f.type \in {"SPEND", "VERDICT"} \/ f.count >= 1
             rule == \E f \in others : f.type \in {"RULE", "RULE_HIT"}
  <1>5. (history => past) /\ (rule => ruled \/ said)
    <2> HIDE DEF past, ruled, said
    <2> QED
      BY <1>4
  <1>6. UngroundedAngles(facts)
          = (IF history THEN {} ELSE HistoryAngles) \cup (IF rule THEN {} ELSE RuleAngles)
    BY DEF UngroundedAngles
  <1> HIDE DEF past, ruled, said, history, rule
  <1>7. /\ Range(request.angles) \cap HistoryAngles # {} => past
        /\ Range(request.angles) \cap RuleAngles # {} => ruled \/ said
    BY <1>3, <1>5, <1>6
  <1>8. ASSUME NEW c \in Range(request.candidates)
        PROVE  /\ snapshot.result \in c.fits /\ c.len <= BanterMax /\ c.labels \subseteq allowed
               /\ c.strategy # "PARODY" => c.labels # {}
    BY <1>8, CandidatesAre DEF request, banter
  <1>9. ASSUME NEW c \in Range(request.candidates), NEW k \in c.labels, NEW source \in facts[k].sources
        PROVE  \E scope \in ScopesOf(source, snapshot, resolved) : Admits(scope, snapshot.rooms)
    <2>1. k \in allowed
      BY <1>8
    <2>2. k \in DOMAIN facts /\ Usable(facts[k].scope, snapshot.rooms)
      BY <2>1 DEF allowed, TargetPack
    <2>3. pack = BuildEvidence(snapshot, resolved, asked.limit) /\ facts = MergeInferred(pack, items)
      BY DEF pack, facts
    <2>4. Resolved(resolved) /\ items \in Seq(Range(items))
      OBVIOUS
    <2> HIDE DEF past, ruled, said, snapshot, resolved, items
    <2> QED
      BY <2>2, <2>3, <2>4, UsableIsAdmitted
  <1> HIDE DEF snapshot, resolved, items
  <1> DEFINE offered == \A c \in Range(request.candidates) :
                 /\ snapshot.result \in c.fits /\ c.len <= BanterMax
                 /\ c.strategy # "PARODY" => c.labels # {}
                 /\ \A k \in c.labels : \A source \in facts[k].sources :
                      \E scope \in ScopesOf(source, snapshot, resolved) : Admits(scope, snapshot.rooms)
  <1>10. offered
    BY <1>8, <1>9
  <1> HIDE DEF offered
  <1> QED
    BY <1>1, <1>3, <1>7, <1>10
       DEF EvidenceIsGrounded, offered, ScopesOf, Admits, request, banter, allowed, facts, pack,
           snapshot, resolved, items, past, ruled, said

-----------------------------------------------------------------------------
\* A numeral is read if and only if it is said as it should be and comes to
\* whole won, and as the sum of what its tokens are worth; a repeat count gets
\* into the pack only as the rule counts it; and what a model is offered has
\* its ground in what was resolved, and is told to no room its source is not
\* for.
THEOREM ClaimsGrounded == Spec => []ClaimsAreGrounded
  <1>1. Asked => AmountsAreRead
    <2>1. asked.kind # "amount" => AmountsAreRead
      BY DEF AmountsAreRead
    <2> QED
      BY <2>1, AmountsOnce DEF Asked
  <1>2. Asked => RepeatsAreCounted
    <2>1. asked.kind # "aggregate" => RepeatsAreCounted
      BY DEF RepeatsAreCounted
    <2> QED
      BY <2>1, RepeatsOnce DEF Asked
  <1>3. Asked => EvidenceIsGrounded
    <2>1. asked.kind # "evidence" => EvidenceIsGrounded
      BY DEF EvidenceIsGrounded
    <2> QED
      BY <2>1, EvidenceOnce DEF Asked
  <1>4. Asked => ClaimsAreGrounded
    BY <1>1, <1>2, <1>3 DEF ClaimsAreGrounded
  <1> QED
    BY <1>4, Typing, PTL
=============================================================================
