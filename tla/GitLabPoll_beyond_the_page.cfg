SPECIFICATION Spec
CONSTANTS
    Ticks = {k1}
    Plan <- OnlyTodos
    MaxWakes = 1
    Page = 1
    TodoPage = 1
    PipePage = 1
    SeenCap = 5
    MaxTodos = 2
    MaxEvents = 0
    MaxPipes = 0
    MaxSends = 0
    MaxOrders = 0
    MaxMishaps = 0
INVARIANT ContiguousTail
