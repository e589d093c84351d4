------------------------------ MODULE MCWorker ------------------------------
(* Small instances of Worker: two loops, either in a process each or in    *)
(* one process, and one job that may be tried twice.                       *)
EXTENDS Worker, TLC

CONSTANTS j1, w1, w2, l1, l2

MCKind == [j \in Job |-> "RETAIN"]
MCMaxAttempts == [j \in Job |-> 2]
MCPriority == [j \in Job |-> 10]
MCDeadlineAfter == [j \in Job |-> NULL]
MCSlotKinds == [w \in Worker |-> {"RETAIN"}]

MCOwnProcess == [l \in Loop |-> IF l = l1 THEN w1 ELSE w2]
MCOneProcess == [l \in Loop |-> w1]

GenSymmetry == Permutations(Gen)
=============================================================================
