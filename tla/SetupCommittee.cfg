SPECIFICATION Spec
CONSTANTS
    f1 = f1
    f2 = f2
    s1 = s1
    c1 = c1
    c2 = c2
    None = None
    Flow = {f1, f2}
    Stream = {s1}
    Committee = {c1, c2}
    OfFlow <- MCOfFlow
    Of <- MCOf
    Roles <- MCRoles
    Budgets <- MCBudgets
CHECK_DEADLOCK FALSE
INVARIANTS
    OneFlowPerCommittee
    KeysAgree
    AllSetUp
PROPERTIES
    Finishes
