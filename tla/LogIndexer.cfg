SPECIFICATION Spec
CHECK_DEADLOCK FALSE
CONSTANTS
    g = g
    a1 = a1
    a2 = a2
    a3 = a3
    b2 = b2
    b3 = b3
    k1 = k1
    k2 = k2
    k3 = k3
    A = A
    B = B
    Block <- MCBlock
    Genesis = g
    Number <- MCNumber
    Parent <- MCParent
    TotalDifficulty <- MCNumber
    Key <- MCKey
    Contract <- MCContract
    ContractOf <- MCContractOf
    LogsIn <- MCLogsIn
    InitialHash = g
    BatchSize = 1
    Finality = 2
    MaxAttempts = 2
    Budgets <- MCBudgets
 
INVARIANT NothingSkipped
PROPERTY KeepsFeed
PROPERTY LogsArrive
