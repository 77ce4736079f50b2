SPECIFICATION FairSpec
CONSTANTS
    Nodes <- AllNodes
    Flows <- Joined
    NoNode = NoNode
    MaxItems = 1
    BranchConcurrency = 2
    MaxRefused = 0
INVARIANT RunsExactlyTheTaken
CHECK_DEADLOCK FALSE
