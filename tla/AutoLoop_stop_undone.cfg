SPECIFICATION Spec
CONSTANTS
    Chats = {c1, c2}
    Ticks = {q1, q2}
    MaxErrors = 2
    MaxStarts = 1
    MaxCrashes = 0
    MaxRefused = 0
PROPERTY StopIsTerminal
