CONSTANTS
    js = js
    jt = jt
    jr = jr
    jp = jp
    w1 = w1
    w2 = w2
    Job = {js, jr}
    Worker = {w1, w2}
    Gen = {g1, g2, g3}
    NULL = NULL
    Kind <- MCKind
    MaxAttempts <- MCMaxAttempts
    Priority <- MCPriority
    DeadlineAfter <- MCDeadlineAfter
    SlotKinds <- MCSlotKinds
    LeaseS = 2
    RetryDelays = {0, 1}
SPECIFICATION Spec
SYMMETRY GenSymmetry
INVARIANTS RowChecks OnlyTheHolderWrites
PROPERTIES NoStrandedRetry KeepsContract
