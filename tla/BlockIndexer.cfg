SPECIFICATION Spec
CONSTANTS
    Block <- Tree
    Parent <- TreeParent
    Number <- TreeNumber
    TotalDifficulty <- TreeDifficulty
    Genesis = "a0"
    InitialBlock = "a0"
    NoBlock = NoBlock
    MaxRounds = 2
    ReorgDuringSync = FALSE
    Budgets <- MCBudgets
CHECK_DEADLOCK FALSE
INVARIANTS
    StoreConnected
    ConsumerFollowsStore
PROPERTIES
    KeepsFeedUntilStopped
    HeadsAreFollowed
