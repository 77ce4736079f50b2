SPECIFICATION FairSpec
CONSTANTS
    Chats = {c1, c2}
    Ticks = {q1, q2}
    MaxErrors = 2
    MaxStarts = 2
    MaxCrashes = 1
    MaxRefused = 1
INVARIANTS LockBalanced FailingLoopIsParked
PROPERTIES DoneStaysDone LoopGoesOn
