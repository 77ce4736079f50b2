SPECIFICATION Spec
CONSTANTS
    p1 = p1  p2 = p2  m1 = m1  m2 = m2  m3 = m3  m4 = m4  a = a  b = b  child = child  hub = hub
    Lane = lane
    None = None
    Other = Other
    AgentOf <- Targets
    ThreadOf <- OnChild
    Windowed = TRUE
    Mentions = {m1, m2, m3}
    Threads = {child, hub}
    Agents = {a, b}
    Posts = {p1, p2}
    Wakes <- TwoAndOne
    HubOf <- InProject
    Hands = {}
    PerThread = 1
    PerProject = 1
    Limit <- HubLimit
PROPERTY OperatorWasTold
