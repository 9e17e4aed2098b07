SPECIFICATION StatsSpec
CONSTANTS
    Key = {k1}
    MaxCount = 2
    MaxPeers = 3
    Atomic = TRUE
    NoEntry = NoEntry
INVARIANTS NeverOverbilled Exact
PROPERTY PendingKept
