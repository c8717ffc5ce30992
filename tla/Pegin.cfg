SPECIFICATION Spec
CONSTANTS
    p1 = p1
    p2 = p2
    NoPeg = NoPeg
    Peg <- MCPeg
    BlockOf <- MCBlockOf
    Required = 2
    Delay = 2
    Budgets <- MCBudgets
INVARIANT NonceAfterTakeTxids
INVARIANT BufferedIsReplayed
INVARIANT DispatchComesFirst
INVARIANT RequestIsRetried
PROPERTY Finishes
