SPECIFICATION Spec
CONSTANTS
    Ticks = {k1}
    Plan <- AllSources
    MaxWakes = 1
    Page = 1
    TodoPage = 2
    PipePage = 1
    SeenCap = 3
    MaxTodos = 1
    MaxEvents = 1
    MaxPipes = 1
    MaxSends = 2
    MaxOrders = 1
    MaxMishaps = 0
INVARIANT OneTurnPerDelivery
