SPECIFICATION FairSpec
CONSTANTS
    Nodes <- AllNodes
    Flows <- Quoting
    NoNode = NoNode
    MaxItems = 2
    BranchConcurrency = 2
    MaxRefused = 0
PROPERTY QuotesOnlyDelay
CHECK_DEADLOCK FALSE
