SPECIFICATION Spec
CONSTANTS
    Req = {r1, r2, r3, r4}
    Client = {p, q}
    Key = {k, l, m}
    LimitedKey = {k}
    DisabledKey = {m}
    KeepAlive = {0}
    Kind = {"start", "stop", "call", "exit"}
    MaxIdle = 0
    Concurrency = 1
    None = None
SYMMETRY Symmetry
INVARIANTS NoOrphanCore OwnedAndAttended SameClientAdds
CHECK_DEADLOCK FALSE
