SPECIFICATION Spec
CONSTANTS
    ours = ours
    theirs = theirs
    Flow <- MCFlow
    Selected <- MCOurs
    Delay = 2
    Budgets <- MCBudgets
INVARIANT DoneStaysDone
INVARIANT FlowBehindChain
INVARIANT ParkedIsScheduled
PROPERTY Finishes
CHECK_DEADLOCK FALSE
