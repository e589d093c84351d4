CONSTANTS
    j1 = j1
    w1 = w1
    w2 = w2
    l1 = l1
    l2 = l2
    Job = {j1}
    Worker = {w1}
    Loop = {l1, l2}
    WorkerOf <- MCOneProcess
    Gen = {g1, g2, g3}
    NULL = NULL
    Kind <- MCKind
    MaxAttempts <- MCMaxAttempts
    Priority <- MCPriority
    DeadlineAfter <- MCDeadlineAfter
    SlotKinds <- MCSlotKinds
    LeaseS = 1
    RetryDelays = {0}
SPECIFICATION WSpec
SYMMETRY GenSymmetry
INVARIANTS ExitReturnsLeases
