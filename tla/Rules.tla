------------------------------- MODULE Rules --------------------------------
(***************************************************************************)
(* What the rules of TextRules, Report, Intake, Amounts, Evidence, Recall  *)
(* and Vendor promise, asked one question at a time: a question is an      *)
(* input one of them may get, and each property says what the answer must  *)
(* be like, without looking at how it is computed.                         *)
(***************************************************************************)
EXTENDS TextRules, Report, Intake, Amounts, Evidence, Recall, Vendor

CONSTANTS
    RuleTexts, CardTexts,            \* texts: of the contract, and of the card
    Entries1, MaxEntries, Checks,    \* entries, how many in a round, and checks
    Requests, Replies,               \* of the intake
    Tokens, MaxTokens,               \* of a numeral, and how many
    Posts, Snapshots, Resolutions, Inferences, Candidates, Limits,
    Pasts, Comments, Currents, Forgotten,
    Events                           \* what happens to a process, in a row

\* A card is written with one sentence.
ASSUME RulesAssumption ==
    /\ RuleTexts \subseteq Text
    /\ CardTexts \subseteq {text \in Text : Len(text.statement) = 1}
    /\ Entries1 \subseteq Entry /\ Checks \subseteq Check /\ MaxEntries \in Nat
    /\ Requests \subseteq Request /\ Replies \subseteq Reply
    /\ Tokens \subseteq [number : Nat] \cup [unit : DOMAIN SmallUnits \cup DOMAIN LargeUnits]
    /\ MaxTokens \in Nat
    /\ \A s \in Snapshots : s.created \in Int
    /\ \A r \in Resolutions :
         /\ {r.aggregates.count, r.aggregates.start, r.aggregates.end} \subseteq Int
         /\ \A all \in {r.rules, r.verdicts, r.sources} : all \in Seq(Range(all))
         /\ \A x \in Range(r.verdicts) \cup Range(r.sources) : x.scope.visibility \in Visibilities
    /\ \A items \in Inferences : items \in Seq(Range(items))
    /\ \A c \in Candidates : {"fits", "labels"} \subseteq DOMAIN c
    /\ Limits \subseteq Nat \ {0}

VARIABLE asked

Nothing == [kind |-> "nothing"]

Init == asked = Nothing

\* The texts of a run, before the rules see them: those of its targets.
AskText ==
    \E targets \in {{"mild"}, {"mild", "hell"}} :
    \E texts \in {<<one>> : one \in RuleTexts} \cup CardTexts \X CardTexts :
        asked' = [kind |-> "text", texts |-> texts, targets |-> targets]

\* The drafts of the targets, one text or two.
AskAssemble ==
    \E one, two \in CardTexts, template \in {<<>>} \cup {<<t>> : t \in CardTexts} :
    \E regenerate, mayRepair \in BOOLEAN :
        /\ one.intensity = "mild" /\ two.intensity = "hell"
        /\ template # <<>> => template[1].intensity = "mild"
        /\ \E texts \in {<<one>>, <<one, two>>} :
           \E sources \in [DOMAIN texts -> {"AI", "TEMPLATE"}] :
              asked' = [kind |-> "assemble", texts |-> texts, sources |-> sources,
                        targets |-> {texts[n].intensity : n \in DOMAIN texts},
                        template |-> template, regenerate |-> regenerate, mayRepair |-> mayRepair]

Yes == [pass |-> "yes", violations |-> <<>>]

Output1(texts, sentence, reason) ==
    [texts |-> texts, sentence_check |-> sentence, reason_check |-> reason]

\* Of some texts, earlier answers are kept.
OfReport(outputs, templates, kept) ==
    [kind |-> "report", outputs |-> outputs, templates |-> templates,
     reused |-> [i \in kept |-> [intensity |-> i, pass |-> "yes", violations |-> <<>>]]]

\* The entries of a round in one answer or two, or the checks of two answers.
AskReport ==
    \E templates \in SUBSET {Last(Targets)}, kept \in SUBSET {Last(Targets)} :
        LET ask(outputs) == asked' = OfReport(outputs, templates, kept)
        IN  \/ \E n \in 0..MaxEntries : \E all \in [1..n -> Entries1] :
                 \/ ask(<<Output1(all, Yes, Yes)>>)
                 \/ \E cut \in 0..n : ask(<<Output1(SubSeq(all, 1, cut), Yes, Yes),
                                            Output1(SubSeq(all, cut + 1, n), Yes, Yes)>>)
            \/ \E s, t, r \in Checks : \E e \in Entries1 :
                 \/ ask(<<Output1(<<e>>, s, r)>>)
                 \/ ask(<<Output1(<<e>>, s, Yes), Output1(<<>>, t, r)>>)

AskIntake ==
    \E request \in Requests, reply \in Replies :
        asked' = [kind |-> "intake", request |-> request, reply |-> reply]

AskAmount ==
    \E n \in 1..MaxTokens : \E tokens \in [1..n -> Tokens] :
        asked' = [kind |-> "amount", tokens |-> tokens]

\* What the backend counts by what it says it counts.
CountOf(past, s, excludes, start, end) ==
    Cardinality({p \in past : /\ p.post # excludes /\ p.category = s.category
                              /\ p.type = "spent" /\ p.created >= start /\ p.created < end})

AskAggregate ==
    \E past \in SUBSET Posts, s \in Snapshots, excludes \in {"p0", "p1"} :
    \E start \in s.created - Window - 1..s.created - Window + 1, end \in s.created..s.created + 1 :
        asked' = [kind |-> "aggregate", past |-> past, snapshot |-> s,
                  aggregates |-> [excludes |-> excludes, start |-> start, end |-> end,
                                  count |-> CountOf(past, s, excludes, start, end)]]

AskEvidence ==
    \E s \in Snapshots, r \in Resolutions, i \in Inferences, c \in Candidates, l \in Limits :
        asked' = [kind |-> "evidence", snapshot |-> s, resolved |-> r,
                  items |-> i, candidate |-> c, limit |-> l]

\* Cases kept one after the other, with the rules their dossiers cite and a
\* comment, some of it deleted again, and a case that is prepared the day
\* after it began.
AskRecall ==
    \E pasts \in {<<p>> : p \in Pasts} \cup {x \in Pasts \X Pasts : x[1].post < x[2].post} :
    \E comments \in {<<>>} \cup {<<c>> : c \in Comments} \cup Comments \X Comments :
    \E current \in Currents, forgotten \in Forgotten, limit \in Limits :
        asked' = [kind |-> "recall", pasts |-> pasts, comments |-> comments,
                  current |-> current, forgotten |-> forgotten, limit |-> limit]

AskProcess == \E events \in Events : asked' = [kind |-> "process", events |-> events]

Next ==
    /\ asked = Nothing
    /\ \/ AskText \/ AskAssemble \/ AskReport \/ AskIntake
       \/ AskAmount \/ AskAggregate \/ AskEvidence \/ AskRecall
       \/ AskProcess

Spec == Init /\ [][Next]_asked

-----------------------------------------------------------------------------
(* What a reader of a verdict may be shown.                                *)

\* The sum of numbered numbers.
AddUp(numbered) == FoldSet(LAMBDA one, sum : one[2] + sum, 0, numbered)

Decent(line, intensity) ==
    line.words \cap (CASE intensity = "mild" -> Words
                       [] intensity = "spicy" -> {"rude", "never"}
                       [] intensity = "hell" -> {"never"}) = {}

Sound(text) ==
    /\ \A k \in DOMAIN text.statement :
         text.statement[k].kind = "opinion" \/ text.statement[k].labels \in (SUBSET Known) \ {{}}
    /\ \A line \in Lines(text) : ~line.ids /\ Decent(line, text.intensity)

\* The card of a draft of one sentence, if the rules can make one of it.
CanBeShown(text) ==
    LET item == text.statement[1]
    IN  /\ text.headline.len \in 1..CardHeadlineMax
        /\ Len(text.statement) = 1 /\ item.line.len \in 1..CardStatementMax
        /\ Sound([text EXCEPT !.headline.ids = FALSE, !.statement[1].line.ids = FALSE])

\* apply_text_rules: a text without an issue is sound, and of a permitted size;
\* one that is so already is left as it is; no sound sentence is lost, and as
\* long as there is one, none is rewritten; a reference is of the sentence that
\* cites it, in the text as it was rebuilt, and rules applied to what they have
\* rebuilt change nothing any more.  A draft without an issue passes
\* validate_writer_draft as well, but for the labels its opinions cite.
RulesKeepWhatIsSound ==
    asked.kind = "text" =>
        LET rules == ApplyTextRules(asked.texts, asked.targets)
            again == ApplyTextRules(rules.texts, asked.targets)
            accepted(n) == \A issue \in rules.issues : issue[1] # n
            fits(t) == /\ t.headline.len <= HeadlineMax
                       /\ Len(t.statement) \in StatementMin..StatementMax
                       /\ FoldLeft(LAMBDA sum, i : sum + i.line.len, 0, t.statement) <= TotalMax
            sentences(t) == {t.statement[k] : k \in DOMAIN t.statement}
        IN  /\ again.texts = rules.texts /\ again.refs = rules.refs
            /\ rules.issues = {} =>
                 /\ Len(asked.texts) = Cardinality(asked.targets)
                 /\ {asked.texts[n].intensity : n \in DOMAIN asked.texts} = asked.targets
                 /\ ValidateWriterDraft(rules.texts, asked.targets) \subseteq {"UNKNOWN_EVIDENCE_LABEL"}
            /\ ValidateWriterDraft(asked.texts, asked.targets) = {} =>
                 rules.issues \cap (Nat \X {"DUPLICATE_INTENSITY", "INTENSITY_SET_MISMATCH"}) = {}
            /\ \A n \in DOMAIN asked.texts :
                 LET old == asked.texts[n]
                     new == rules.texts[n]
                     sound(i) == ~i.line.ids /\ (i.kind = "opinion" \/ i.labels \in (SUBSET Known) \ {{}})
                 IN  /\ accepted(n) => Sound(new) /\ fits(new)
                     /\ Sound(old) => new = old
                     /\ {i \in sentences(old) : sound(i)} \subseteq sentences(new)
                     /\ \A i \in sentences(new) \ sentences(old) :
                          i.line.len > 0 /\ ~\E o \in sentences(old) : sound(o)
                     /\ rules.refs[n] = UNION {{k} \X (new.statement[k].labels \cap Known) :
                                                 k \in DOMAIN new.statement}

\* assemble: what it returns can be shown as cards, one at least is of the
\* model, and only a text that cannot be shown was replaced or is written
\* again; it never gives up a run with one AI text that can be shown if
\* templates can be, too; and given its own result it changes nothing.
AssembledIsFit ==
    asked.kind = "assemble" =>
        LET assembled(texts, sources) ==
                Assemble(texts, sources, asked.targets, asked.template,
                         asked.regenerate, asked.mayRepair)
            lost == {n \in DOMAIN asked.texts : ~CanBeShown(asked.texts[n])}
            ai == {n \in DOMAIN asked.texts : asked.sources[n] = "AI"}
            goodTemplate ==
                /\ asked.template # <<>>
                /\ \A n \in lost : LET t == [asked.template[1] EXCEPT !.intensity = asked.texts[n].intensity]
                                   IN  CanBeShown(t) /\ Card(t)
        IN  \A result \in {assembled(asked.texts, asked.sources)} :
            /\ result.kind = "texts" =>
                 /\ \A n \in DOMAIN result.texts : Sound(result.texts[n]) /\ Card(result.texts[n])
                 /\ \E n \in DOMAIN result.texts : result.sources[n] = "AI"
                 /\ {n \in DOMAIN result.texts : result.sources[n] # asked.sources[n]} = lost
                 /\ assembled(result.texts, result.sources) = result
            /\ result.kind = "repair" =>
                 /\ result.bad = lost /\ lost # {} /\ lost \subseteq ai
                 /\ asked.mayRepair /\ ~asked.regenerate
            /\ result.kind = "failure" =>
                 \/ ai \subseteq lost \/ ~(lost \subseteq ai)
                 \/ asked.regenerate \/ ~goodTemplate

-----------------------------------------------------------------------------
\* run_evaluator: of a text only counts which answers there are about it, in
\* whatever order and split.  It is rejected if one is no, unless all they
\* object to is advisory; the run fails if one is odd or about none of its
\* texts, but nothing said of a template fails it; and, of answers of which
\* each keeps the contract, also if they do not keep it together, with too many
\* objections to the sentence, the reason or a text.
ReportsAreWeighed ==
    asked.kind = "report" =>
        LET verdict == Round(asked.outputs, asked.templates, asked.reused)
            answers == DOMAIN asked.outputs
            objections(given) == UNION {Range(c.violations) : c \in given}
            passes(given) == \/ \A c \in given : c.pass = "yes"
                             \/ objections(given) = Advisory
            odd(given) == \E c \in given : c.pass = "odd"
            entries == UNION {Range(asked.outputs[k].texts) : k \in answers}
            about(i) == {e \in entries : e.intensity = i}
            judged == {i \in Range(Targets) : about(i) # {}}
            sentence == {asked.outputs[k].sentence_check : k \in answers}
            reason == {asked.outputs[k].reason_check : k \in answers}
            fails == \/ odd(sentence) \/ odd(reason) \/ ~passes(sentence)
                     \/ \E i \in judged \ asked.templates : odd(about(i))
                     \/ \E e \in entries : e.intensity \notin Range(Targets)
                     \/ judged \cup DOMAIN asked.reused = {}
            few(codes) == Len(FlattenSeq(codes)) <= MaxViolations
            brief == /\ few([k \in answers |-> asked.outputs[k].sentence_check.violations])
                     /\ few([k \in answers |-> asked.outputs[k].reason_check.violations])
                     /\ \A e \in entries : Len(e.violations) <= MaxViolations
                     /\ \A i \in judged : Cardinality(objections(about(i))) <= MaxViolations
        IN  /\ verdict.missing = Range(Targets) \ (judged \cup DOMAIN asked.reused)
            /\ \A i \in judged \ asked.templates : ~odd(about(i)) =>
                 (i \in verdict.rejected <=> ~passes(about(i)))
            /\ verdict.rejected \subseteq judged \ asked.templates
            /\ ~odd(reason) => (verdict.reasonFailed <=> ~passes(reason))
            /\ fails => verdict.global
            /\ verdict.global => fails \/ ~brief

-----------------------------------------------------------------------------
\* What may fail an answer: that it asks back in the final check, or a value of
\* a type that is refused.  Its length and an unknown category are corrected.
Unusable(request, output) ==
    \/ request.mode = "FINAL_CHECK" /\ output.status = "NEEDS_CLARIFICATION"
    \/ output.item_review = "odd" /\ request.mode = "INITIAL"
    \/ "odd" \in {output.status, output.injection} \/ Odd \in {output.message, output.confidence}
    \/ /\ output.confidence # Odd /\ output.confidence.value > Certain
       /\ output.suggested # "unknown" \/ ~IsNumeric(output.confidence)

\* A review that keeps its contract and says what the request, the rules and
\* the model have said.
SoundReview(request, reply, response) ==
    LET answer == response.answer
        review == answer.category_review
    IN  /\ AnswerContract(answer) /\ answer.mode = request.mode
        /\ answer.injection \in {"yes", "no"} /\ IsNumeric(review.confidence)
        /\ {"injection", "irrelevant"} \cap request.found # {} =>
             answer.status = "BLOCKED" /\ ~response.called
        /\ response.called => reply.kind # "no_llm"
        /\ answer.source = "FALLBACK" => answer.status = "PASS" /\ answer.item_review = "OK"
        /\ reply.kind = "stop" /\ answer.source = "FALLBACK" => Unusable(request, reply.output)
        /\ answer.injection = "yes" =>
             \/ answer.status = "BLOCKED"
             \/ reply.kind = "stop" /\ reply.output.injection = "like yes"
        /\ response.remembered <=> response.called /\ answer.source = "AI"
        /\ review.status = "MISMATCH" =>
             /\ review.suggested \in Category \ {request.category}
             /\ review.confidence.value >= Threshold
             /\ response.remembered /\ IsNumeric(reply.output.confidence)

\* The docstrings of graphs/intake.py: whatever the model answers, or if it
\* does not, an accepted request gets a review that keeps the contract, and
\* only one whose required values are wrong gets none.  The one exception is a
\* suggested category that cannot be hashed.  A block by rule costs no call, no
\* FINAL_CHECK asks back, an injection is never let through, a correction is to
\* another known category the model is sure of, and only what was answered
\* with is remembered.  The code has one gap there: an injection that the model
\* reports as "true" or 1 is coerced after the correction and keeps its status.
IntakeAlwaysAnswers ==
    asked.kind = "intake" =>
        LET request == asked.request
            reply == asked.reply
            response == RunIntake(request, reply)
        IN  /\ response.code = 422 <=>
                 \/ request.item = 0 \/ request.item > ItemMax \/ request.amount <= 0
                 \/ request.reason # NULL /\ request.reason > ReasonMax
            /\ response.code = 500 => reply.kind = "stop" /\ reply.output.suggested = "unhashable"
            /\ response.code # 200 => ~response.remembered
            /\ response.code = 200 => SoundReview(request, reply, response)

-----------------------------------------------------------------------------
\* Between two tokens, they included, no large unit stands.
Apart(t, i, j) == \A k \in i..j : ~IsLarge(t[k])

\* A numeral as it is said: in a section units fall, large units fall over all,
\* no two numbers meet, and no large unit stands alone.
Said(t) ==
    LET n == Len(t)
    IN  /\ \A i, j \in 1..n : i < j =>
             /\ IsSmall(t[i]) /\ IsSmall(t[j]) /\ Apart(t, i, j) =>
                  SmallUnits[t[i].unit] > SmallUnits[t[j].unit]
             /\ IsLarge(t[i]) /\ IsLarge(t[j]) =>
                  LargeUnits[t[i].unit] > LargeUnits[t[j].unit] /\ i + 1 < j
             /\ ~(IsNumber(t[i]) /\ IsNumber(t[j]) /\ j = i + 1)
        /\ n > 0 => ~IsLarge(t[1])

\* What a token counts by itself: a number its small unit, and a small unit
\* alone one; and what that is multiplied by, the large unit of its section.
Counted(t, k) ==
    IF IsSmall(t[k])
    THEN IF k > 1 /\ IsNumber(t[k - 1]) THEN 0 ELSE 10 * SmallUnits[t[k].unit]
    ELSE t[k].number * IF k < Len(t) /\ IsSmall(t[k + 1]) THEN SmallUnits[t[k + 1].unit] ELSE 1

Multiplied(t, k) ==
    IF Apart(t, k, Len(t)) THEN 1
    ELSE LargeUnits[t[CHOOSE m \in k..Len(t) : IsLarge(t[m]) /\ Apart(t, k, m - 1)].unit]

Worth(t, k) == IF IsLarge(t[k]) THEN 0 ELSE Counted(t, k) * Multiplied(t, k)

\* domain/juror_amounts.py reads a numeral if it is said as it should be and
\* comes to whole won, and then as the sum of what its tokens are worth.
AmountsAreRead ==
    asked.kind = "amount" =>
        LET t == asked.tokens
            tenths[k \in 0..Len(t)] == IF k = 0 THEN 0 ELSE tenths[k - 1] + Worth(t, k)
            whole == tenths[Len(t)] % 10 = 0
        IN  ParseAmount(t, FALSE) =
              IF Said(t) /\ whole THEN tenths[Len(t)] \div 10 ELSE None

\* scoped_call and its watchers.  A completion is paid for once, at its cost,
\* and nothing else is, but that an attempt nobody answered holds the whole
\* reservation; so no attempt with a completion is made again.  (One without
\* usage is booked as free.)  A retry waits as long as it is told and ends in
\* the time that is left.
CallsAreBooked(m) ==
    \A k \in DOMAIN m.log :
        LET row == m.log[k]
            kind(n) == row.answers[n].answer.kind
            unheard(n) == kind(n) \in {"TIMEOUT", "TRANSPORT"}
            usage(n) == row.call.replies[n].usage
            paid(n) == IF row.call.replies[n].kind # "completion" \/ unheard(n) THEN 0
                       ELSE IF usage(n) = Nil THEN 0
                       ELSE IF usage(n).ticks # Nil THEN usage(n).ticks \div TicksPerMicro
                       ELSE usage(n).tokens * Price[row.vendor]
            used == Len(row.answers)
            took == row.ended - row.at
        IN  /\ row.status = "DEGRADED" <=> used = 0
            /\ row.status = "COMPLETE" <=> used > 0 /\ row.call.replies[used].kind = "completion"
                                           /\ row.call.replies[used].finish = "stop" /\ ~unheard(used)
            /\ row.charge = IF used > 0 /\ unheard(used) THEN row.call.est
                            ELSE AddUp({<<n, paid(n)>> : n \in 1..used})
            /\ used = 1 => took <= row.call.timeout
            /\ used = 2 =>
                 LET after == row.call.replies[1].after
                 IN  /\ took <= row.call.remaining - row.call.reserve
                     /\ after # Nil => row.ended - row.answers[1].at >= after

\* A vendor is left alone exactly while it failed three times, with no success
\* in between, within a minute that is not over for more than one.
DegradedIsRecent(m) ==
    \A k \in DOMAIN m.log :
        LET row == m.log[k]
            same(j) == m.log[j].vendor = row.vendor
            failed == {m.log[f[1]].answers[f[2]].at :
                         f \in {g \in (1..k - 1) \X (1..2) :
                                /\ same(g[1]) /\ g[2] \in DOMAIN m.log[g[1]].answers
                                /\ m.log[g[1]].answers[g[2]].answer.kind \in {"SERVER", "TRANSPORT"}
                                /\ \A i \in g[1]..k - 1 : same(i) => m.log[i].status # "COMPLETE"}}
            close == {t \in failed : Max(failed) - t <= DegradedWindow}
        IN  row.status = "DEGRADED" <=>
              Cardinality(close) >= DegradedThreshold /\ row.at - Max(failed) <= DegradedWindow

\* Each alert is told or counted in the next of its kind, which come no closer
\* than five minutes; a day is warned of once, when what is known of its costs
\* reaches the limit; and an old queue at each look at it, once all looks of
\* five minutes found it old.
AlertsAreTold(m, events) ==
    LET of(all, kind) == SelectSeq(all, LAMBDA a : a.kind = kind)
        known(day) == {<<k, Last(m.log[k].answers).answer.cost>> :
                         k \in {j \in DOMAIN m.log : /\ m.log[j].ended \div DayLength = day
                                                     /\ m.log[j].answers # <<>>
                                                     /\ Last(m.log[j].answers).answer.cost # Nil}}
        at(k) == Dawn + AddUp({<<i, events[i].gap>> : i \in 1..k})
        old(k) == events[k].kind = "age" => events[k].age # Nil /\ events[k].age > AgeLimit
    IN  /\ \A kind \in {"COST_PER_DAY", "QUEUE_OLDEST_AGE", "RETRY_EXHAUSTED"} :
             LET sent == of(m.sent, kind)
             IN  /\ Len(of(m.raised, kind)) =
                       AddUp({<<n, 1 + sent[n].suppressed>> : n \in DOMAIN sent})
                         + Get(m.suppressed, kind, 0)
                 /\ \A n \in DOMAIN sent : n > 1 => sent[n].at - sent[n - 1].at >= AlertWindow
                 /\ \A a \in Range(of(m.raised, kind)) :
                      \E n \in DOMAIN sent : a.at - sent[n].at \in 0..AlertWindow - 1
        /\ \A day \in Dawn \div DayLength..m.now \div DayLength :
             (AddUp(known(day)) >= CostLimit) <=>
               (\E a \in Range(of(m.raised, "COST_PER_DAY")) : a.at \div DayLength = day)
        /\ \A j, k \in DOMAIN of(m.raised, "COST_PER_DAY") :
             LET raised == of(m.raised, "COST_PER_DAY")
             IN  j # k => raised[j].at \div DayLength # raised[k].at \div DayLength
        /\ (\A k \in DOMAIN events : events[k].kind # "call") =>
             \A k \in DOMAIN events : events[k].kind = "age" =>
                ([kind |-> "QUEUE_OLDEST_AGE", at |-> at(k)] \in Range(m.raised) <=>
                   \E i \in 1..k : /\ events[i].kind = "age" /\ at(k) - at(i) >= AlertWindow
                                   /\ \A j \in i..k : old(j))

\* What a process says of its calls is what happened: the ledger, the breaker
\* and the alerts agree with each other and with the replies.
AccountsAgree ==
    asked.kind = "process" =>
        LET m == ProcessAfter(asked.events)
        IN  CallsAreBooked(m) /\ DegradedIsRecent(m) /\ AlertsAreTold(m, asked.events)

-----------------------------------------------------------------------------
\* A repeat count that gets into the pack is the one the rule counts, if the
\* backend has counted what it says.
RepeatsAreCounted ==
    asked.kind = "aggregate" =>
        LET facts == Aggregates(asked.snapshot, asked.aggregates)
        IN  facts # <<>> => facts[2].count = CountRepeat(asked.snapshot, asked.past)

\* The pack is within its limit and begins with the case itself.  A source that
\* came with no scope all the rooms are in is cited by no banter, however a
\* model inferred a fact from it.  An angle on the past needs a past, an angle on a rule needs a rule
\* that matches, or else a model that says one was hit; and an acquittal is
\* offered no attack.
EvidenceIsGrounded ==
    asked.kind = "evidence" =>
        LET snapshot == asked.snapshot
            resolved == asked.resolved
            pack == BuildEvidence(snapshot, resolved, asked.limit)
            facts == MergeInferred(pack, asked.items)
            allowed == TargetPack(facts, snapshot.rooms)
            banter == FilterBanter(ParseCandidates(<<asked.candidate>>), "mild", allowed)
            request == WriterRequest(snapshot, facts, banter)
            past == \/ \E k \in DOMAIN resolved.verdicts : resolved.verdicts[k].post # snapshot.post
                    \/ \E k \in DOMAIN resolved.sources : resolved.sources[k].type \in {"POST", "VERDICT"}
                    \/ resolved.aggregates.count > 0
            ruled == \E k \in DOMAIN resolved.rules : resolved.rules[k].words \cap snapshot.category # {}
            said == \E k \in DOMAIN asked.items : asked.items[k].kind = "RULE_HIT"
            scopesOf(source) ==
               (IF source = <<"POST", snapshot.post>> THEN {AudienceScope(snapshot)} ELSE {})
                 \cup {v.scope : v \in {w \in Range(resolved.verdicts) : source = <<"POST", w.post>>}}
                 \cup {s.scope : s \in {m \in Range(resolved.sources) : source = <<m.type, m.id>>}}
                 \cup (IF source[1] = "RULE" THEN {InRooms({source[2]})} ELSE {})
        IN  /\ Len(pack) \in 1..asked.limit /\ pack[1] = ThisCase(snapshot)
            /\ Range(request.angles) \cap HistoryAngles # {} => past
            /\ Range(request.angles) \cap RuleAngles # {} => ruled \/ said
            /\ snapshot.result \in {"notGuilty", "agree"} => Len(request.angles) = 1
            /\ \A c \in Range(request.candidates) :
                 /\ snapshot.result \in c.fits /\ c.len <= BanterMax
                 /\ c.strategy # "PARODY" => c.labels # {}
                 /\ \A k \in c.labels : \A source \in facts[k].sources : \E scope \in scopesOf(source) :
                      \/ scope.visibility = "PUBLIC"
                      \/ scope.visibility = "ROOMS" /\ snapshot.rooms \subseteq scope.rooms

\* Of a past only that of the author, before this case, and of a rule only one
\* hit by the same category in a room of this case; nothing deleted, each
\* source once, the best first and none better left out: of the category before
\* what shares at most days with this case, a verdict no less than what it is
\* about, and a rule as of the latest of its rooms.  A room is shown no comment
\* of the defendant's, of a wrong size or with a word the room does not take.
RecallIsScoped ==
    asked.kind = "recall" =>
        LET kept == FoldLeft(LAMBDA facts, p : Insert(facts, VerdictFacts(p) \cup RuleHits(p, p.rules)),
                             {}, asked.pasts)
            commented == FoldLeft(LAMBDA facts, c : Insert(facts, CommentFacts(asked.pasts[1], c, c.intensities)),
                                  kept, asked.comments)
            facts == CASE asked.forgotten[1] = "user" -> DeleteUser(commented, asked.forgotten[2])
                       [] asked.forgotten[1] = "room" -> DeleteRoom(commented, asked.forgotten[2])
                       [] asked.forgotten[1] = "post" -> DeletePost(commented, asked.forgotten[2])
                       [] OTHER -> commented
            case == asked.current
            found == RecallCandidates(facts, case, SetToSeq(case.rooms), case.created + 1, asked.limit)
            gone(kind, which) == asked.forgotten = <<kind, which>>
            past == {p \in Range(asked.pasts) : p.author = case.author /\ p.created < case.created
                                                /\ ~gone("user", p.author) /\ ~gone("post", p.post)}
            like(p) == p.category = case.category
            words == Range(case.reason)
            close(p) == \/ like(p)
                        \/ \E w \in words : /\ Cardinality({v \in words : v.len > w.len}) < 3
                                           /\ w.stem \in Stems(p.reason)
            recent(p) == p.confirmed >= case.created + 1 - 30
            hits(n, rule, r) == r \in rule.rooms \cap asked.pasts[n].rooms /\ rule \in asked.pasts[n].rules
            spend(p) == <<"POST", p.post, p.version>>
            place(source) == {k \in DOMAIN found : found[k].source = source}
            shown(r) == RecallRoom(facts, r, case.category, case.created + 1, asked.limit).style_example_refs
        IN  /\ Len(found) <= asked.limit
            /\ \A j, k \in DOMAIN found : j < k =>
                 found[j].source # found[k].source /\ found[j].score >= found[k].score
            /\ \A k \in DOMAIN found :
                 LET source == found[k].source
                 IN  CASE source[1] = "POST" -> \E p \in past : source = spend(p)
                       [] source[1] = "VERDICT" ->
                            \E p \in past : source[2] = p.post /\ p.confirmed < case.created
                       [] OTHER ->
                            \E p \in Range(asked.pasts) : \E rule \in p.rules :
                                /\ rule.id = source[2] /\ like(p) /\ ~gone("post", p.post)
                                /\ \E r \in rule.rooms \cap p.rooms \cap case.rooms : ~gone("room", r)
            /\ Len(found) < asked.limit => \A p \in past : place(spend(p)) # {}
            /\ Len(found) < asked.limit =>
                 \A n \in DOMAIN asked.pasts, r \in case.rooms : \A rule \in asked.pasts[n].rules :
                    LET p == asked.pasts[n]
                    IN  /\ hits(n, rule, r) /\ like(p) /\ recent(p) /\ ~gone("post", p.post) /\ ~gone("room", r)
                        /\ \A m \in 1..n - 1 : ~hits(m, rule, r)
                        => \E k \in place(<<"RULE", rule.id, 1>>) : found[k].score = 3
            /\ \A p \in past : \A j \in place(spend(p)), k \in place(<<"VERDICT", p.post, 1>>) :
                 found[k].score >= found[j].score
            /\ \A p, q \in past : \A k \in place(spend(q)) : like(p) /\ ~close(q) =>
                 \E j \in place(spend(p)) : j < k
            /\ \A r \in case.rooms : \A k \in DOMAIN shown(r) :
                 \E c \in Range(asked.comments) :
                    /\ shown(r)[k] = <<"COMMENT", c.id, 1>> /\ c.room = r /\ c.status = "JUDGED"
                    /\ c.len \in MinLength..MaxLength
                    /\ c.author # asked.pasts[1].author /\ ~gone("user", c.author) /\ ~gone("room", r)
                    /\ c.words \subseteq (CASE c.intensities[r] = "mild" -> {}
                                             [] c.intensities[r] = "spicy" -> {"rough"}
                                             [] OTHER -> {"rough", "rude"})

\* What may be said of a case has its ground in it: an amount that is cited, a
\* repeat that is counted, the evidence a model is offered.
ClaimsAreGrounded == AmountsAreRead /\ RepeatsAreCounted /\ EvidenceIsGrounded

\* What is kept over time is what happened: the accounts of a process, and the
\* memory of past cases.
RecordsAreTrue == AccountsAgree /\ RecallIsScoped
=============================================================================
