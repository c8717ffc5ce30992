SPECIFICATION Spec
CONSTANTS
    p1 = p1
    p2 = p2
    Peg <- MCTwo
    Required = 2
    Delay = 2
    Timeout = 5
    Budgets <- FailingBudgets
INVARIANT NoPanic
