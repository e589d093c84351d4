------------------------------ MODULE MCRules -------------------------------
(* Bounded inputs for Rules: lengths on either side of each limit, texts of *)
(* up to three sentences, rounds of up to three entries, numerals of up to  *)
(* five tokens.                                                             *)
EXTENDS Rules

line(len, ids, words) == [len |-> len, ids |-> ids, words |-> words]
item(kind, labels, l) == [kind |-> kind, labels |-> labels, line |-> l]
text(intensity, headline, statement) ==
    [intensity |-> intensity, headline |-> headline, statement |-> statement]

good == line(100, FALSE, {})
sentences ==
    {item("fact", {"F0"}, good), item("fact", {"F0", "F9"}, good), item("claim", {}, good),
     item("opinion", {"F9"}, line(99, TRUE, {})), item("opinion", {}, line(0, TRUE, {})),
     item("claim", {"F1"}, line(101, TRUE, {"rough"}))}

MCRuleTexts ==
    {text(i, h, s) :
       i \in {"mild", "hell"},
       h \in {line(30, FALSE, {}), line(28, TRUE, {"plain"}), line(31, FALSE, {})},
       s \in {<<>>} \cup UNION {[1..n -> sentences] : n \in 1..3}}
      \cup {text(i, line(10, FALSE, {}), [k \in 1..n |-> item("opinion", {}, line(75, FALSE, w))]) :
              i \in Intensities, n \in 4..5, w \in SUBSET Words}

MCCardTexts ==
    {text(i, h, <<s>>) :
       i \in {"mild", "hell"},
       h \in {line(20, FALSE, {}), line(0, TRUE, {}), line(21, FALSE, {})},
       s \in {item("fact", {"F0"}, good), item("claim", {"F9"}, good),
              item("opinion", {}, line(98, TRUE, {"rude"})), item("opinion", {}, line(101, FALSE, {}))}}

check(pass, codes) == [pass |-> pass, violations |-> codes]
entry(i, pass, codes) == [intensity |-> i, pass |-> pass, violations |-> codes]
U == "UNGROUNDED_CLAIM"
MCTargets == <<"mild", "hell">>
MCChecks == {check(p, v) : p \in {"yes", "no", "odd"}, v \in {<<>>, <<U>>, <<"X", U>>}}
MCEntries ==
    {entry("mild", p, v) : p \in {"yes", "no"}, v \in {<<>>, <<U>>, <<"X", "Y">>}}
      \cup {entry("mild", "odd", <<>>), entry("hell", "yes", <<>>), entry("hell", "no", <<U>>),
            entry("hell", "odd", <<"X">>), entry("spicy", "yes", <<>>), entry("bland", "yes", <<>>)}

MCRequests ==
    {[mode |-> m, item |-> i, reason |-> r, amount |-> a, category |-> "food", found |-> f] :
       m \in {"INITIAL", "FINAL_CHECK"}, i \in {0, 1, 31}, r \in {NULL, 200, 201},
       a \in 0..1, f \in {{}, {"nothing", "irrelevant"}, {"injection"}}}
message(len, first) == [len |-> len, first |-> first]
inText(n) == [value |-> n, text |-> TRUE]
MCInjections == {"yes", "no", "odd"} \X {Odd, Numeric(79), Numeric(80), Numeric(101)}
MCCoercions == ({"like yes", "like no"} \X {Numeric(80), inText(90)}) \cup ({"no"} \X {inText(90), inText(101)})
MCReplies ==
    {[kind |-> "no_llm"], [kind |-> "error"]}
      \cup {[kind |-> "stop",
             output |-> [status |-> st, message |-> m, item_review |-> ir, suggested |-> sg,
                         confidence |-> ic[2], injection |-> ic[1]]] :
              st \in {"PASS", "NEEDS_CLARIFICATION", "BLOCKED", "odd"},
              m \in {NULL, Odd, message(60, 0), message(61, 0), message(61, 60), message(62, 61)},
              ir \in {"OK", "odd"}, sg \in {NULL, "food", "taxi", "unknown", "unhashable"},
              ic \in MCInjections \cup MCCoercions}

MCSmall == [ten |-> 10, hundred |-> 100]
MCLarge == [man |-> 10000, eok |-> 100000]
MCTokens ==
    {Number(15), Number(20)} \cup {Unit(u) : u \in DOMAIN MCSmall \cup DOMAIN MCLarge}

post(p, c, t, d) == [post |-> p, category |-> c, type |-> t, created |-> d]
MCPosts ==
    {post("p0", {"taxi"}, "spent", 39), post("p1", {"taxi"}, "spent", 10),
     post("p2", {"taxi"}, "spent", 9), post("p3", {"taxi"}, "spent", 40),
     post("p4", {"taxi"}, "considering", 20), post("p5", {}, "spent", 20)}
MCSnapshots ==
    {[post |-> "p0", category |-> {"taxi"}, created |-> 40, public |-> p, rooms |-> rs, result |-> r] :
       p \in BOOLEAN, rs \in {{}, {"r1"}, {"r1", "r2"}}, r \in {"guilty", "notGuilty"}}

verdict(p, d, s) == [post |-> p, judged |-> d, scope |-> s]
source(t, s) == [type |-> t, id |-> "m1", scope |-> s]
counted(n) == [excludes |-> "p0", start |-> 10, end |-> 40, count |-> n]
MCResolutions ==
    {[aggregates |-> a, rules |-> r, verdicts |-> v, sources |-> s] :
       a \in {counted(0), counted(1), [counted(0) EXCEPT !.end = 39]},
       r \in {<<>>, <<[room |-> "r1", words |-> {"taxi"}]>>, <<[room |-> "r1", words |-> {"night"}]>>},
       v \in {<<>>, <<verdict("p0", 30, Public)>>,
              <<verdict("p1", 20, InRooms({"r1"})), verdict("p2", 30, InRooms({"r1", "r2"}))>>},
       s \in {<<>>, <<source("VERDICT", Private)>>, <<source("COMMENT", Public)>>}}
inference(k, refs) == [kind |-> k, blank |-> FALSE, refs |-> refs]
MCInferences ==
    {<<>>, <<inference("RULE_HIT", {1})>>, <<inference("MITIGATION", {2, 4})>>,
     <<inference("MITIGATION", {3}), inference("RULE_HIT", {2, 3})>>, <<inference("GOSSIP", {1})>>}
MCCandidates ==
    {[strategy |-> st, fits |-> {"guilty", "odd"}, labels |-> ls, len |-> 100, words |-> {}] :
       st \in {"REPEAT_OFFENSE", "PARODY"}, ls \in {{2, 9}, 1..8}}

token(stem, len, josa) == [stem |-> stem, len |-> len, josa |-> josa]
late == token("late", 2, 1)
tired == token("tired", 1, 1)
ofCase(p, a, c, rs, d, reason) ==
    [post |-> p, author |-> a, category |-> {c}, rooms |-> rs, created |-> d, confirmed |-> d + 2,
     version |-> 1, public |-> FALSE, reason |-> reason,
     rules |-> {[id |-> 1, rooms |-> {"r1", "r2"}], [id |-> 2, rooms |-> {"r3"}]}]
MCPasts ==
    {ofCase(1, "a1", "taxi", {"r1", "r2"}, 95, <<tired, late>>),
     ofCase(2, "a1", "food", {"r1"}, 80, <<tired>>),
     ofCase(2, "a1", "food", {"r2"}, 99, <<late, token("I", 1, 0)>>),
     ofCase(0, "a1", "taxi", {"r1"}, 15, <<>>), ofCase(3, "a1", "taxi", {"r1"}, 5, <<>>),
     ofCase(4, "a2", "taxi", {"r1"}, 98, <<late>>),
     ofCase(5, "a1", "taxi", {"r2"}, 100, <<>>)}
MCCurrents ==
    {[author |-> "a1", category |-> {"taxi"}, rooms |-> rs, created |-> 100,
      reason |-> <<token("a", 4, 0), late, token("b", 3, 0), tired>>] :
        rs \in {{"r1"}, {"r1", "r2"}}}
MCForgotten == {<<"nothing">>, <<"user", "a2">>, <<"user", "a1">>, <<"room", "r1">>, <<"post", 1>>}
remark(id, room, author, len, words, key) ==
    [id |-> id, room |-> room, post |-> 1, status |-> "JUDGED", author |-> author, len |-> len,
     words |-> words, key |-> key, created |-> 98,
     intensities |-> [r \in {"r1", "r2"} |-> IF r = "r1" THEN "spicy" ELSE "hell"]]
MCComments ==
    {remark(1, "r1", "a2", 21, {"rough"}, "k"), remark(2, "r1", "a2", 200, {"rude"}, "k"),
     remark(3, "r2", "a1", 21, {}, "l"), remark(4, "r2", "a2", 201, {}, "m"),
     remark(5, "r2", "a2", 30, {"rude"}, "k"), remark(6, "r3", "a2", 30, {}, "k"),
     [remark(7, "r1", "a2", 30, {}, "n") EXCEPT !.status = "VOTING"],
     remark(8, "r2", "a2", 30, {"at"}, "n"), remark(9, "r1", "a2", 30, {"death"}, "n")}

\* Replies, calls and what happens in a row: up to four calls of the writer
\* and the evaluator around midnight, or up to five looks at the queue.
MCRoleVendor == [writer |-> "xai", evaluator |-> "openai"]
MCDefaultModel == [xai |-> "grok", openai |-> "terra"]
MCPrice == [xai |-> 1, openai |-> 2]
completion(finish, ticks, tokens) ==
    [kind |-> "completion", finish |-> finish, took |-> 10, after |-> Nil,
     usage |-> [ticks |-> ticks, tokens |-> tokens]]
status(n, took, after) == [kind |-> "status", status |-> n, took |-> took, after |-> after]
done == completion("stop", 59, 7)
dear == completion("stop", Nil, 60)
lost(kind, took) == [kind |-> kind, took |-> took, after |-> Nil]
call(role, model, remaining, first, second) ==
    [role |-> role, model |-> model, remaining |-> remaining, reserve |-> 5, timeout |-> 30,
     est |-> 90, replies |-> <<first, second>>]
writes(first, second) == call("writer", Nil, 60, first, second)
MCCalls ==
    {writes(done, done), writes(dear, done), writes([done EXCEPT !.usage = Nil], done),
     writes(completion("refusal", 12, 1), done), writes(completion("length", Nil, 1), done),
     writes(completion("no_choices", Nil, 1), done),
     writes(completion("no_object", Nil, 1), done), writes([dear EXCEPT !.took = 30], done),
     writes(lost("broken", 10), done), writes(lost("timeout", 30), done),
     writes(lost("no_connection", 10), done), writes(status(401, 1, Nil), done),
     writes(status(400, 1, 1), done), writes(status(503, 10, Nil), dear),
     writes(status(503, 10, -1), status(500, 10, 5)),
     writes(status(429, 10, 20), completion("length", Nil, 60)),
     writes(status(429, 10, 40), [done EXCEPT !.took = 6]), writes(status(429, 10, 45), done),
     writes(status(429, 10, 46), done),
     call("evaluator", Nil, 60, dear, done), call("evaluator", "hell", 60, done, done),
     call("evaluator", Nil, 60, status(503, 10, 0), lost("no_connection", 1)),
     call("evaluator", "spare", 12, status(503, 10, Nil), done)}
happens(gap, c) == [kind |-> "call", gap |-> gap, call |-> c]
looks(gap, age) == [kind |-> "age", gap |-> gap, age |-> age]
MCEvents ==
    {<<happens(1, x), happens(g, y), happens(h, z)>> :
        x, y, z \in MCCalls, g \in {40, 150}, h \in {40, 60, 150}}
      \cup [1..4 -> {happens(1, c) :
                       c \in {writes(status(500, 1, Nil), lost("no_connection", 1)), writes(done, done),
                              writes(lost("no_connection", 1), done), call("evaluator", Nil, 60, dear, done)}}]
      \cup UNION {[1..n -> {looks(g, a) : g \in {150, 299}, a \in {Nil, 10, 11}}
                             \cup {[kind |-> "exhausted", gap |-> 150]}] : n \in 1..5}
=============================================================================
