SPECIFICATION FairSpec
CONSTANTS
    p1 = p1  p2 = p2  m1 = m1  m2 = m2  m3 = m3  m4 = m4  a = a  b = b  child = child  hub = hub
    Lane = lane
    None = None
    Other = Other
    AgentOf <- Targets
    ThreadOf <- OnChild
    Windowed = TRUE
    Mentions = {m1}
    Threads = {child}
    Agents = {a}
    Posts = {p1}
    Wakes <- OneAsk
    HubOf <- Alone
    Hands = {h1, h2}
    PerThread = 2
    PerProject = 2
    Limit <- RunsLimit
INVARIANTS SoleRun AnsweredIsNotRunAgain
PROPERTIES RunReleases
CHECK_DEADLOCK FALSE
