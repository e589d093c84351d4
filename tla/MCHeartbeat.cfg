\* The defaults of core/config.py, in seconds, and claims answered until an
\* interval after the lease is over.
CONSTANTS
    Interval = 5
    Lease = 15
    MaxLate = 20
SPECIFICATION BeatSpec
INVARIANTS AnsweredBeatsRenew OverrunIsBounded
CHECK_DEADLOCK FALSE
