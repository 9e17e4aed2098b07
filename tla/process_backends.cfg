SPECIFICATION FairSpec
CONSTANTS
    Caller = {c}
    User <- MCUser
    Lists <- MCLists
    MaxStarts = 3
    Slow = FALSE
    None = None
INVARIANTS NoPanic ServesUsers
PROPERTY RestartEnds
CHECK_DEADLOCK FALSE
