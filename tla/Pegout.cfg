SPECIFICATION Spec
CONSTANTS
    p1 = p1
    p2 = p2
    Peg <- MCOne
    Required = 2
    Delay = 2
    Timeout = 5
    Budgets <- MCBudgets
INVARIANT OneOutcome
 
INVARIANT ViewsKeepUp
PROPERTY Finishes
