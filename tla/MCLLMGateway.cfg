\* Two tasks, two calls of one key, one invalidation.
CONSTANTS
    NULL = NULL
    task1 = task1
    task2 = task2
    key1 = key1
    hash1 = hash1
    CallId <- MCCallId
    Key = {key1}
    Slot = {}
    Est = {1}
    Charge = {0}
    Cap = {2}
    Task = {task1, task2}
    Hash = {hash1}
    MaxEpoch = 1
SPECIFICATION FairGSpec
INVARIANTS ClosedExactlyOnce UncertainIsNotFree
PROPERTIES ReuseIsCurrent CallEnds
CHECK_DEADLOCK FALSE
