SPECIFICATION FairSpec
CONSTANTS
    Req = {r1, r2}
    Client = {p}
    Key = {k}
    LimitedKey = {}
    DisabledKey = {}
    KeepAlive = {0, 1}
    Kind = {"start", "stop"}
    MaxIdle = 1
    Concurrency = 2
    None = None
INVARIANTS DeadCoreIsLeaving ClientIsAttended
PROPERTIES TakenGoesDown SilenceDisconnects
CHECK_DEADLOCK FALSE
