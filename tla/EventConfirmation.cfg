SPECIFICATION Spec
CONSTANTS
    Block <- Forks
    Parent <- ForkParent
    Number <- ForkNumber
    TotalDifficulty <- ForkNumber
    Genesis = "a1"
    Event = {"x", "y"}
    EventsIn <- ForkEvents
    Required = 3
    MaxReorg = 5
    MaxSent = 5
    MaxCrashes = 1
    MaxLost = 1
    LogsFirst = FALSE
    EarlierStagesMayFail = FALSE
CHECK_DEADLOCK FALSE
INVARIANTS
    ViewIsSuffix
    NoPanic
PROPERTY
    ConfirmedDepth
