SPECIFICATION Spec
CONSTANTS
    CN = {"a", "b"}
    Login <- MCLogin
    User <- MCUser
    Lists <- MCLists
    Budgets <- MCBudgets
    None = None
INVARIANTS RemovedAreGone WithinLimit NeverOverbilled
CHECK_DEADLOCK FALSE
