----------------------------- MODULE MCJobQueue -----------------------------
(* Small instances of JobQueue: two worker ids, one of which claims every  *)
(* kind, and up to three jobs of different kinds.                          *)
EXTENDS JobQueue, TLC

CONSTANTS js, jt, jr, jp, w1, w2

MCKind ==
    [j \in Job |-> CASE j = js -> "SENTENCE" [] j = jt -> "TEXT_RETRY"
                     [] j = jr -> "RETAIN"   [] j = jp -> "PREPARE"]

\* max_attempts of dispatch.py; RETAIN's 5 is cut to 2.
MCMaxAttempts ==
    [j \in Job |-> CASE j = js -> 2 [] j = jt -> 1 [] j = jr -> 2 [] j = jp -> 2]

MCPriority ==
    [j \in Job |-> CASE j = js -> 100 [] j = jt -> 50 [] j = jr -> 10 [] j = jp -> 30]

\* 90 s and 60 s against a lease of 15 s, scaled down: both outlive a lease of
\* 2 and its reaping.
MCDeadlineAfter ==
    [j \in Job |-> CASE j = js -> 4 [] j = jt -> 4 [] OTHER -> NULL]

MCSlotKinds ==
    [w \in Worker |-> IF w = w1 THEN {"SENTENCE", "TEXT_RETRY", "RETAIN"}
                                ELSE {"SENTENCE", "PREPARE", "TEXT_RETRY", "RETAIN"}]

GenSymmetry == Permutations(Gen)
=============================================================================
