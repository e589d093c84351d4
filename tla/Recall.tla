------------------------------- MODULE Recall -------------------------------
(***************************************************************************)
(* What is kept of a case and what a later case is reminded of: the facts  *)
(* of a RETAIN job (application/retain_memory.py, with the comment rules   *)
(* of domain/comment_safety.py) and the recall of the preparation          *)
(* (adapters/postgres_memory.py).  Functions without state; how the facts  *)
(* get into the tables and out of them again is in Retain.                 *)
(*                                                                         *)
(* Times are days, a post and a comment is its number, a reason is the     *)
(* sequence of its tokens: the stem, its length, and that of the particle  *)
(* behind it.  A keyword is found in a reason that has it for a stem.      *)
(***************************************************************************)
EXTENDS Integers, Sequences, FiniteSets, SequencesExt

CONSTANTS MinLength, MaxLength      \* of a comment

KeywordLimit == 3
RecencyDays == 30
RulesHitDays == 90
StyleExampleLimit == 3

FirstOf(rows, limit) == SubSeq(rows, 1, IF Len(rows) < limit THEN Len(rows) ELSE limit)

-----------------------------------------------------------------------------
(* Comments.                                                               *)

HasProfanity(words, intensity) ==
    \/ intensity = "mild" /\ words \cap {"rough", "rude"} # {}
    \/ intensity = "spicy" /\ "rude" \in words

\* check: a comment without a reason against it may be kept.
Objections(comment, defendant, intensity) ==
    {reason \in {"POST_NOT_JUDGED", "LENGTH_OUT_OF_RANGE", "CONTACT_INFO", "DEATH_WORD",
                 "PROFANITY", "AUTHOR_IS_DEFENDANT", "MENTION"} :
       CASE reason = "POST_NOT_JUDGED" -> comment.status # "JUDGED"
         [] reason = "LENGTH_OUT_OF_RANGE" -> comment.len \notin MinLength..MaxLength
         [] reason = "CONTACT_INFO" -> "contact" \in comment.words
         [] reason = "DEATH_WORD" -> "death" \in comment.words
         [] reason = "PROFANITY" -> HasProfanity(comment.words, intensity)
         [] reason = "AUTHOR_IS_DEFENDANT" -> comment.author = defendant
         [] OTHER -> "at" \in comment.words}

\* key is what normalize makes of the content.
FilterComments(comments, defendant, intensity) ==
    LET keep(kept, c) ==
            IF Objections(c, defendant, intensity) # {} \/ \E k \in DOMAIN kept : kept[k].key = c.key
            THEN kept ELSE Append(kept, c)
    IN  FoldLeft(keep, <<>>, comments)

-----------------------------------------------------------------------------
(* The facts of a job.  told is what the payload says of the case: nothing *)
(* (the verdict in the bank of a user) or its category and reason.         *)

Row(bank, type, source, post, author, told, scope, at) ==
    [bank |-> bank, type |-> type, source |-> source, post |-> post, author |-> author,
     told |-> told, scope |-> scope, at |-> at]

Told(category, stems) == {[category |-> category, stems |-> stems]}
Stems(reason) == {reason[k].stem : k \in DOMAIN reason}

RoomScope(room) == [visibility |-> "ROOMS", rooms |-> {room}]
UserScope(s) == [visibility |-> IF s.public THEN "PUBLIC" ELSE "ROOMS", rooms |-> s.rooms]

\* build_verdict_payload
VerdictFacts(s) ==
    LET post == <<"POST", s.post, s.version>>
        verdict == <<"VERDICT", s.post, 1>>
    IN  {Row(<<"user", s.author>>, "SPEND", post, s.post, s.author,
             Told(s.category, Stems(s.reason)), UserScope(s), s.created),
         Row(<<"user", s.author>>, "VERDICT", verdict, s.post, s.author,
             {}, UserScope(s), s.confirmed)}
          \cup {Row(<<"room", r>>, "VERDICT", verdict, s.post, s.author,
                    Told(s.category, {}), RoomScope(r), s.confirmed) : r \in s.rooms}

\* _rule_hit_facts: the rules of the dossier, in the rooms they are of, as
\* far as the case was put to them.
RuleHits(s, rules) ==
    {Row(<<"room", hit[2]>>, "RULE_HIT", <<"RULE", hit[1].id, 1>>, s.post, "no author",
         Told(s.category, {}), RoomScope(hit[2]), s.confirmed) :
       hit \in {x \in rules \X s.rooms : x[2] \in x[1].rooms}}

\* build_comment_payload: intensities is of the rooms of the snapshot.
CommentFacts(s, comment, intensities) ==
    IF comment.room \notin DOMAIN intensities THEN {}
    ELSE {Row(<<"room", comment.room>>, "COMMENT", <<"COMMENT", kept.id, 1>>, kept.post, kept.author,
              {}, RoomScope(kept.room), kept.created) :
            kept \in Range(FilterComments(<<comment>>, s.author, intensities[comment.room]))}

\* ON CONFLICT DO NOTHING: the key leaves out the case, so that a rule hit in
\* a room by a second case keeps the row of the first.
Insert(facts, rows) ==
    facts \cup {f \in rows : \A g \in facts : <<f.bank, f.source, f.type>> # <<g.bank, g.source, g.type>>}

-----------------------------------------------------------------------------
(* delete_user, delete_room, delete_post: the facts that are left.         *)

DeleteUser(facts, user) ==
    {f \in facts : f.bank # <<"user", user>> /\ ~(f.bank[1] = "room" /\ f.author = user)}
DeleteRoom(facts, room) == {f \in facts : f.bank # <<"room", room>>}
DeletePost(facts, post) == {f \in facts : f.post # post}

-----------------------------------------------------------------------------
(* The recall.                                                             *)

\* extract_keywords: a token is measured with its particle, a keyword
\* without.
Keywords(reason) ==
    LET keep(kept, t) ==
            IF t.len + t.josa < 2 \/ \E k \in DOMAIN kept : kept[k].stem = t.stem
            THEN kept ELSE Append(kept, t)
        tokens == FoldLeft(keep, <<>>, reason)
        ahead(k) == {j \in DOMAIN tokens : \/ tokens[j].len > tokens[k].len
                                           \/ tokens[j].len = tokens[k].len /\ j < k}
    IN  {tokens[k].stem : k \in {j \in DOMAIN tokens : Cardinality(ahead(j)) < KeywordLimit}}

One(condition) == IF condition THEN 1 ELSE 0

\* COALESCE: what the payload does not tell is taken from the latest SPEND of
\* the same post in the same bank.
ToldOf(row, facts) ==
    LET spends == {f \in facts : f.bank = row.bank /\ f.type = "SPEND" /\ f.post = row.post}
        latest == {f \in spends : \A g \in spends : g.source[3] <= f.source[3]}
    IN  IF row.told # {} THEN row.told ELSE UNION {f.told : f \in latest}

Score(row, facts, category, keywords, before) ==
    LET told == ToldOf(row, facts)
    IN  2 * One(\E t \in told : t.category = category)
          + One(\E t \in told : t.stems \cap keywords # {})
          + One(row.at >= before - RecencyDays)

\* ORDER BY score DESC, occurred_at DESC, and the source last.
Ranked(rows, score(_), limit) ==
    LET even(f, g) == score(f) = score(g) /\ f.at = g.at
        first(f, g) ==
            \/ score(f) > score(g)
            \/ score(f) = score(g) /\ f.at > g.at
            \/ even(f, g) /\ f.type = "SPEND" /\ g.type = "VERDICT"
            \/ even(f, g) /\ f.type = g.type /\ f.source[2] < g.source[2]
        ordered == FirstOf(SetToSortSeq(rows, first), limit)
    IN  [k \in DOMAIN ordered |-> [source |-> ordered[k].source, score |-> score(ordered[k])]]

RecallUser(facts, user, category, keywords, before, limit) ==
    Ranked({f \in facts : /\ f.bank = <<"user", user>>
                          /\ f.type \in {"SPEND", "VERDICT", "MITIGATION"}
                          /\ f.at < before},
           LAMBDA f : Score(f, facts, category, keywords, before), limit)

RulesHit(facts, room, category, now, limit) ==
    Ranked({f \in facts : /\ f.bank = <<"room", room>> /\ f.type = "RULE_HIT"
                          /\ \E t \in f.told : t.category = category
                          /\ f.at >= now - RulesHitDays},
           LAMBDA f : 2 + One(f.at >= now - RecencyDays), limit)

StyleRefs(facts, room, limit) ==
    LET rows == Ranked({f \in facts : f.bank = <<"room", room>> /\ f.type = "COMMENT"},
                       LAMBDA f : 0, limit)
    IN  [k \in DOMAIN rows |-> rows[k].source]

\* The share of guilty verdicts is left out: nobody asks for it.
RecallRoom(facts, room, category, now, limit) ==
    [rules_hit |-> RulesHit(facts, room, category, now, limit),
     style_example_refs |-> StyleRefs(facts, room, StyleExampleLimit)]

\* _merge_candidates: a source once, with its best score, the best first.
MergeCandidates(groups, limit) ==
    LET all == FlattenSeq(groups)
        best(k) == \A j \in DOMAIN all : all[j].source = all[k].source =>
                      \/ all[j].score < all[k].score
                      \/ all[j].score = all[k].score /\ k <= j
        at(k) == CHOOSE j \in DOMAIN all : all[j].source = all[k].source
                   /\ \A i \in 1..j - 1 : all[i].source # all[k].source
        ordered == SetToSortSeq({k \in DOMAIN all : best(k)},
                                LAMBDA j, k : \/ all[j].score > all[k].score
                                              \/ all[j].score = all[k].score /\ at(j) < at(k))
    IN  FirstOf([k \in DOMAIN ordered |-> all[ordered[k]]], limit)

\* recall_candidates: the past of the author and the rules hit in the rooms.
RecallCandidates(facts, s, rooms, now, limit) ==
    MergeCandidates(
        <<RecallUser(facts, s.author, s.category, Keywords(s.reason), s.created, limit)>>
          \o [k \in DOMAIN rooms |-> RecallRoom(facts, rooms[k], s.category, now, limit).rules_hit],
        limit)
=============================================================================
