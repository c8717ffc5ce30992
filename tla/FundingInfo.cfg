SPECIFICATION Spec
CONSTANTS
    r1 = r1
    r2 = r2
    r3 = r3
    None = None
    Req = {r1, r2, r3}
    Budgets <- MCBudgets
CHECK_DEADLOCK FALSE
INVARIANTS
    SingleLoader
    OneReply
 
