SPECIFICATION Spec
CONSTANTS
    connected = connected
    captured = captured
    Types = {connected, captured}
    Unlimited = Unlimited
    Budgets <- AllBudgets
    MaxHandlers = 3
    MaxDepth = 3
SYMMETRY Symmetry
INVARIANTS
    IteratorsValid
    NobodySkipped
    BudgetIsExact
    NoneExpiredAtRest
