\* Deadlock: the flow is deleted and nothing of it is armed.
SPECIFICATION FairSpec
CONSTANTS
    Arms = {a1}
    Ticks = {t1, t2}
    Intervals = {short, long}
    NoTimer = NoTimer
    MaxFailures = 1
    MaxEdits = 2
    MaxMishaps = 1
INVARIANTS OneTimedRun SoleTimer FlagMatchesTimer
PROPERTIES SuspendedFallsSilent RestartResumes
CHECK_DEADLOCK FALSE
