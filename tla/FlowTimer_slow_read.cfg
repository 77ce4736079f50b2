\* Deadlock: the flow is deleted and nothing of it is armed.
SPECIFICATION FairSpec
CONSTANTS
    Arms = {a1}
    Ticks = {t1, t2}
    Intervals = {short, long}
    NoTimer = NoTimer
    MaxFailures = 1
    MaxEdits = 0
    MaxMishaps = 1
INVARIANT TicksNeverOverlap
CHECK_DEADLOCK FALSE
