SPECIFICATION Spec
CONSTANTS
    p1 = p1  p2 = p2  m1 = m1  m2 = m2  m3 = m3  m4 = m4  a = a  b = b  child = child  hub = hub
    Lane = lane
    None = None
    Other = Other
    AgentOf <- Targets
    ThreadOf <- OnChild
    Windowed = TRUE
    Mentions = {m1, m3}
    Threads = {child}
    Agents = {a}
    Posts = {p1, p2}
    Wakes <- TwoAsk
    HubOf <- Alone
    Hands = {h1}
    PerThread = 2
    PerProject = 2
    Limit <- OtherLimit
INVARIANT AnswerIsItsOwn
