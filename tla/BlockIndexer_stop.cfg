SPECIFICATION Spec
CONSTANTS
    Block <- Tree
    Parent <- TreeParent
    Number <- TreeNumber
    TotalDifficulty <- TreeDifficulty
    Genesis = "a0"
    InitialBlock = "a0"
    NoBlock = NoBlock
    MaxRounds = 2
    ReorgDuringSync = FALSE
    Budgets <- Stopping
CHECK_DEADLOCK FALSE
PROPERTY KeepsFeedContract
