SPECIFICATION Spec
CONSTANTS
    r1 = r1
    r2 = r2
    k1 = k1
    Rows = {r1, r2}
    Keys = {k1}
    NoKey = NoKey
    KeyOf <- SharedKey
    BasePrio <- FlatPrio
    Handled = {r1, r2}
    EarlyRows <- NoRows
    Loops = {d1, d2}
    Presses = {b1, b2}
    NoRow = NoRow
    MaxPrio = 1
    MaxCrashes = 2
    DbMayFail = FALSE
SYMMETRY AllSym
INVARIANTS OneTurnAtATime RunAtMostOnce HeldRowIsRunning ShutLetsOneThrough
PROPERTIES PausedLaneStaysShut LaneIsImplemented
