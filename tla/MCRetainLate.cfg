CONSTANTS
    e1 = e1
    e2 = e2
    v1 = v1
    v2 = v2
    r = r
    p1 = p1
    u = u
    h1 = h1
    h2 = h2
    NULL = NULL
    Event = {e1, e2}
    Empty = {}
    Fact = {v1, v2, r}
    Own <- MCOwn
    Hits <- MCHits
    Scope = {p1, u}
    ScopesOf <- MCScopesOf
    Handler = {h1, h2}
    Tries = 2
    MaxEpoch = 1
SPECIFICATION Spec
SYMMETRY Symmetry
INVARIANTS NoLateRevival
CHECK_DEADLOCK FALSE
