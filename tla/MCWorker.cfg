\* Two processes of one loop each.
CONSTANTS
    j1 = j1
    w1 = w1
    w2 = w2
    l1 = l1
    l2 = l2
    Job = {j1}
    Worker = {w1, w2}
    Loop = {l1, l2}
    WorkerOf <- MCOwnProcess
    Gen = {g1, g2}
    NULL = NULL
    Kind <- MCKind
    MaxAttempts <- MCMaxAttempts
    Priority <- MCPriority
    DeadlineAfter <- MCDeadlineAfter
    SlotKinds <- MCSlotKinds
    LeaseS = 1
    RetryDelays = {0}
SPECIFICATION FairWSpec
INVARIANTS ExitReturnsLeases AlertIsTrue
PROPERTIES UsesQueue LostHandlerStops StopEnds AbandonedIsReaped
