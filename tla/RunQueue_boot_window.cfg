SPECIFICATION Spec
CONSTANTS
    r1 = r1
    r2 = r2
    k1 = k1
    Rows = {r1, r2}
    Keys = {k1}
    NoKey = NoKey
    KeyOf <- SharedKey
    BasePrio <- FlatPrio
    Handled = {r1}
    EarlyRows <- Early
    Loops = {d1, d2}
    Presses = {b1}
    NoRow = NoRow
    MaxPrio = 2
    MaxCrashes = 0
    DbMayFail = FALSE
SYMMETRY LoopSym
INVARIANT HeldRowIsRunning
