CONSTANTS
    own = own
    shared = shared
    old = old
    r1 = r1
    r2 = r2
    mild = mild
    hell = hell
    h1 = h1
    h2 = h2
    d1 = d1
    d2 = d2
    NULL = NULL
    Handler = {h1, h2}
    Id = {d1, d2}
    Source = {own, shared, old}
    Own = own
    Covered = {own, shared}
    Room = {r1, r2}
    Intensity = {mild, hell}
    Versions = 3
    Runs = 3
    RefCounts = {3}
    Rooms <- MCRooms
    Targets <- MCTargets
    Scope <- MCScope
    Offers <- MCOffers
SPECIFICATION Spec
SYMMETRY Symmetry
INVARIANTS ServedBanterFits NoWithdrawnServed WorksOnItsRow
PROPERTIES CompleteIsFinal
CHECK_DEADLOCK FALSE
