SPECIFICATION FairSpec
CONSTANTS
    None = None
    Large = 1
    Name = {"a", "b"}
    Nodes <- MCNodes
    Address = {1, 2}
    User <- MCUser
    Lists <- MCLists
    Streams <- MCStreams
    Budgets <- MCBudgets
INVARIANTS AckedIsApplied RevokedStaysOut NeverOverbilled NotUndercut
PROPERTY Converges
CHECK_DEADLOCK FALSE
