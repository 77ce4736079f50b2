SPECIFICATION FairSpec
CONSTANTS
    Ticks = {k1, k2}
    Plan <- OnlyTodos
    MaxWakes = 1
    Page = 1
    TodoPage = 2
    PipePage = 1
    SeenCap = 5
    MaxTodos = 2
    MaxEvents = 0
    MaxPipes = 0
    MaxSends = 0
    MaxOrders = 0
    MaxMishaps = 1
INVARIANTS NothingPassedOver BaselineWakesNobody
PROPERTIES AcknowledgedStaysQuiet EveryAssignmentIsServed
