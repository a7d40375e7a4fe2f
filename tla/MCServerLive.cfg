SPECIFICATION MCFairSpec
CONSTANTS
    None = None
    a1 = a1
    a2 = a2
    Keys = {k1, k2}
    Streams = {c1, c2}
    Admin = Admin
    Nil = Nil
    MaxPending = 2
    MaxOps = 1
    MaxMisses = 1
    Hosts = {h1}
    NAddrs = 2
    MaxTokens = 3
    MaxCerts = 2
    MaxFaults = 1
    Ports = {p1}
    Listeners = {l1, l2}
    Conns = {c1}
    Limit = 2
    MaxGen = 1
    s1 = s1
    s2 = s2
    r1 = r1
PROPERTIES HubGoesOn  RelayCloses
CHECK_DEADLOCK FALSE
