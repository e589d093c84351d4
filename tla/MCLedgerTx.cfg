\* One key, two workers of different images, one sweeper, two calls.
CONSTANTS
    NULL = NULL
    worker1 = worker1
    worker2 = worker2
    sweep = sweep
    slot1 = slot1
    CallId <- MCCallId
    Key <- MCKey
    Slot = {slot1}
    Est <- MCEst
    Charge <- MCCharge
    Session = {worker1, worker2, sweep}
    Sweeper = {sweep}
    CapOf <- MCCapOf
SPECIFICATION FairSpec
INVARIANTS BudgetsAgree NoWaitCycle
PROPERTIES KeepsPromise NoLeak
CHECK_DEADLOCK FALSE
