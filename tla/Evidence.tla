------------------------------ MODULE Evidence ------------------------------
(***************************************************************************)
(* From what the backend resolves to what a model is offered: the evidence *)
(* pack (application/build_evidence.py), the facts a model infers from it  *)
(* and the banter it may keep (graphs/preparation.py), and the angles and  *)
(* candidates of the writer's request (graphs/sentencing.py).  Functions   *)
(* without state.                                                          *)
(*                                                                         *)
(* A fact is at a position of the pack, which stands for its label: F0 is  *)
(* at position 1.  Its text is left out but for the count of the repeat    *)
(* sentence, which the code reads again.  A category, and a rule, is the   *)
(* set of its tokens; the category for everything else has none.           *)
(***************************************************************************)
EXTENDS Integers, Sequences, FiniteSets, SequencesExt, Filters

CONSTANTS
    Window,             \* WINDOW, in days
    BanterMax           \* CARD_STATEMENT_MAX

ASSUME EvidenceAssumption == Window \in Nat /\ BanterMax \in Nat

Visibilities == {"PUBLIC", "ROOMS", "PRIVATE"}

Public == [visibility |-> "PUBLIC", rooms |-> {}]
Private == [visibility |-> "PRIVATE", rooms |-> {}]
InRooms(rooms) == [visibility |-> "ROOMS", rooms |-> rooms]

\* usable: may it be told to all of these rooms?
Usable(scope, target) ==
    \/ scope.visibility = "PUBLIC"
    \/ scope.visibility = "ROOMS" /\ target # {} /\ target \subseteq scope.rooms

\* Any room that may see one of them.
Widest(scopes) ==
    IF \A s \in scopes : s.visibility = "PUBLIC" THEN Public
    ELSE InRooms(UNION {s.rooms : s \in scopes})

\* _narrowest_scope
Narrowest(scopes) ==
    LET limited == {s \in scopes : s.visibility = "ROOMS"}
    IN  IF \E s \in scopes : s.visibility = "PRIVATE" THEN Private
        ELSE IF limited = {} THEN Public
        ELSE InRooms({r \in UNION {s.rooms : s \in limited} : \A s \in limited : r \in s.rooms})

-----------------------------------------------------------------------------
(* The repeat count (domain/aggregation.py).                               *)

CountRepeat(current, past) ==
    Cardinality({p \in past : /\ p.post # current.post
                              /\ p.category = current.category
                              /\ p.type = "spent"
                              /\ current.created - Window <= p.created
                              /\ p.created < current.created})

\* check_backend_aggregates, validate_aggregation: what the backend says it
\* has counted is what the rule counts.
Agrees(aggregates, current) ==
    /\ aggregates.count >= 0
    /\ aggregates.excludes = current.post
    /\ aggregates.end = current.created
    /\ aggregates.end - aggregates.start = Window
    /\ aggregates.start < aggregates.end

-----------------------------------------------------------------------------
(* build_evidence                                                          *)

Fact(type, scope, sources) ==
    [type |-> type, inferred |-> FALSE, count |-> 0, scope |-> scope, sources |-> sources]

AudienceScope(snapshot) ==
    IF snapshot.public THEN [visibility |-> "PUBLIC", rooms |-> snapshot.rooms]
    ELSE InRooms(snapshot.rooms)

ThisCase(snapshot) == Fact("SPEND", AudienceScope(snapshot), {<<"POST", snapshot.post>>})

Aggregates(snapshot, aggregates) ==
    LET sentence == Fact("AGGREGATE", AudienceScope(snapshot), {})
    IN  IF Agrees(aggregates, snapshot)
        THEN <<sentence, [sentence EXCEPT !.count = aggregates.count]>>
        ELSE <<>>

\* match_rule
Matches(category, rule) == category \cap rule.words # {}

RuleFacts(snapshot, rules) ==
    LET matching == Select(rules, {r \in Range(rules) : Matches(snapshot.category, r)})
    IN  [k \in DOMAIN matching |->
           Fact("RULE", InRooms({matching[k].room}), {<<"RULE", matching[k].room>>})]

\* The latest first, and those of one time as they are.
Latest(verdicts) ==
    LET earlier(v) == {w \in Range(verdicts) : w.judged < v.judged}
        sorted[n \in 0..Len(verdicts)] ==
            IF n = 0 THEN <<>>
            ELSE Select(sorted[n - 1], Range(verdicts) \ earlier(verdicts[n]))
                   \o <<verdicts[n]>> \o Select(sorted[n - 1], earlier(verdicts[n]))
    IN  sorted[Len(verdicts)]

Prior(snapshot, verdicts) ==
    LET others == Latest(Select(verdicts, {v \in Range(verdicts) : v.post # snapshot.post}))
    IN  [k \in DOMAIN others |->
           Fact("VERDICT", others[k].scope, {<<"POST", others[k].post>>})]

Memories(sources) ==
    LET known == Select(sources, {s \in Range(sources) : s.type \in {"POST", "VERDICT"}})
    IN  [k \in DOMAIN known |->
           Fact(IF known[k].type = "POST" THEN "SPEND" ELSE "VERDICT",
                known[k].scope, {<<known[k].type, known[k].id>>})]

BuildEvidence(snapshot, resolved, limit) ==
    LET all == <<ThisCase(snapshot)>>
                 \o Aggregates(snapshot, resolved.aggregates)
                 \o RuleFacts(snapshot, resolved.rules)
                 \o Prior(snapshot, resolved.verdicts)
                 \o Memories(resolved.sources)
    IN  SubSeq(all, 1, IF Len(all) < limit THEN Len(all) ELSE limit)

\* target_pack: the labels a text for these rooms may use.
TargetPack(facts, target) == {k \in DOMAIN facts : Usable(facts[k].scope, target)}

-----------------------------------------------------------------------------
(* What the models of the preparation add.                                 *)

KindType == [kind \in {"RULE_HIT", "MITIGATION"} |-> IF kind = "RULE_HIT" THEN "RULE" ELSE kind]

\* merge_inferred_facts: an item says what it refers to; one that refers to
\* nothing, or to anything else than the evidence of the code, is dropped.
Kept(item, facts) ==
    /\ item.kind \in DOMAIN KindType /\ ~item.blank
    /\ item.refs # {} /\ item.refs \subseteq DOMAIN facts

Inferred(item, facts) ==
    [type |-> KindType[item.kind], inferred |-> TRUE, count |-> 0,
     scope |-> Narrowest({facts[k].scope : k \in item.refs}),
     sources |-> UNION {facts[k].sources : k \in item.refs}]

MergeInferred(facts, items) ==
    LET kept == Select(items, {i \in Range(items) : Kept(i, facts)})
    IN  facts \o [k \in DOMAIN kept |-> Inferred(kept[k], facts)]

Strategies == {"REPEAT_OFFENSE", "ROOM_RULE_CALLBACK", "PARODY"}
LabelRequired == {"REPEAT_OFFENSE", "ROOM_RULE_CALLBACK"}
Fits == {"guilty", "notGuilty", "agree", "disagree"}

\* _parse_candidates
ParseCandidates(items) ==
    LET known == Select(items, {i \in Range(items) : i.strategy \in Strategies})
    IN  [k \in DOMAIN known |-> [known[k] EXCEPT !.fits = @ \cap Fits]]

\* death_word_hits and profanity_hits
Forbidden(words, intensity) ==
    \/ "death" \in words
    \/ "rude" \in words /\ intensity # "hell"
    \/ "rough" \in words /\ intensity = "mild"

\* filter_banter
FilterBanter(candidates, intensity, allowed) ==
    LET known == [k \in DOMAIN candidates |-> [candidates[k] EXCEPT !.labels = @ \cap allowed]]
        keeps(c) == /\ c.len \in 1..BanterMax
                    /\ c.strategy \in LabelRequired => c.labels # {}
                    /\ ~Forbidden(c.words, intensity)
    IN  Select(known, {c \in Range(known) : keeps(c)})

-----------------------------------------------------------------------------
(* The writer's request.                                                   *)

HistoryAngles == {"REPETITION", "FUTURE_PROPHECY"}
RuleAngles == {"RULE_PERSONIFICATION"}
AngleOrder == <<"CONVERSION", "REPETITION", "EXCUSE_DISSECTION", "FUTURE_PROPHECY",
                "RULE_PERSONIFICATION", "ALTERNATIVE_MOCKERY">>

\* ungrounded_angles
UngroundedAngles(facts) ==
    LET others == {facts[k] : k \in 2..Len(facts)}
        history == \E f \in others : f.type \in {"SPEND", "VERDICT"} \/ f.count >= 1
        rule == \E f \in others : f.type \in {"RULE", "RULE_HIT"}
    IN  (IF history THEN {} ELSE HistoryAngles) \cup (IF rule THEN {} ELSE RuleAngles)

\* writer_angles
WriterAngles(snapshot, facts) ==
    IF snapshot.result \in {"agree", "notGuilty"} THEN <<"EXCUSE_DISSECTION">>
    ELSE <<"EXCUSE_DISSECTION">>
           \o Select(AngleOrder, Range(AngleOrder) \ (UngroundedAngles(facts) \cup {"EXCUSE_DISSECTION"}))

\* build_writer_request
WriterRequest(snapshot, facts, banter) ==
    [angles |-> WriterAngles(snapshot, facts),
     labels |-> DOMAIN facts,
     candidates |-> Select(banter, {c \in Range(banter) : snapshot.result \in c.fits})]
=============================================================================
