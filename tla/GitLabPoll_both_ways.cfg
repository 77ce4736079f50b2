SPECIFICATION Spec
CONSTANTS
    Ticks = {k1}
    Plan <- OnlyTodos
    MaxWakes = 1
    Page = 1
    TodoPage = 2
    PipePage = 1
    SeenCap = 3
    MaxTodos = 1
    MaxEvents = 0
    MaxPipes = 0
    MaxSends = 1
    MaxOrders = 0
    MaxMishaps = 0
INVARIANT BothWaysWakeOnce
