SPECIFICATION Spec
CONSTANTS
    MaxU64 <- MCMaxU64
    MaxU128 <- MCMaxU128
    MaxU256 <- MCMaxU256
    Times <- MCTimes
    Bound <- MCBound
    PegoutId <- MCPegoutId
    Lists <- MCLists
    Fetched <- MCFetched
    Requests <- MCRequests
    RunBudgets <- MCRunBudgets
CHECK_DEADLOCK FALSE
INVARIANTS
    ForksAreJudged
    SqrtIsLeast
    MemberIsFunded
    CallContract
    
    
    
 
