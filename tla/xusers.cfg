SPECIFICATION FairSpec
CONSTANTS
    User = {u1}
    Inbound = {i1, i2}
    Limits = TRUE
    Health = TRUE
    Partial = TRUE
    Serial = TRUE
    None = None
INVARIANTS LiveIsConfigured KickedStaysOut ConfigIsAsked
PROPERTY KicksEnd
