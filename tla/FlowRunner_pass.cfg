SPECIFICATION FairSpec
CONSTANTS
    Nodes <- AllNodes
    Flows <- Sound
    NoNode = NoNode
    MaxItems = 2
    BranchConcurrency = 2
    MaxRefused = 1
INVARIANTS RunsExactlyTheTaken SuccessLeavesNothing ReadsSettled
PROPERTIES StoppedStartsNothing RunSettles
CHECK_DEADLOCK FALSE
