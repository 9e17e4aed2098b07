SPECIFICATION FairSpec
CONSTANTS
    Email = {a, b}
    PubKey = {k1, k2, k3}
    IP = {i1, i2}
    OverLimit = {a}
    Strikes = 2
    Op = {"full", "partial", "partialRestart", "restart", "shutdown"}
    Resync = FALSE
    MayFail = TRUE
    Overlap = FALSE
    None = None
INVARIANTS OneToOne KernelMatchesStore
PROPERTIES UntouchedKeepTheirPeer KickedReturns
CHECK_DEADLOCK FALSE
