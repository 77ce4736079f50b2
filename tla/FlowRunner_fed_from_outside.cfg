SPECIFICATION FairSpec
CONSTANTS
    Nodes <- AllNodes
    Flows <- Crossing
    NoNode = NoNode
    MaxItems = 1
    BranchConcurrency = 2
    MaxRefused = 0
INVARIANT EveryWireSettled
CHECK_DEADLOCK FALSE
