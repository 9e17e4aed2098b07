SPECIFICATION LimiterSpec
CONSTANTS
    Addr = {a, b, c}
    Ipv6 = {}
    Limit = {1, 2}
    Egress = eth0
    Tunnel = {tun}
    maxClients = 2
    MayFail = TRUE
    NoMark = NoMark
SYMMETRY Symmetry
INVARIANTS MarksAreExclusive AppliedIsInstalled
