SPECIFICATION MCFairSpec
CONSTANTS
    None = None
    r1 = r1
    r2 = r2
    h = h
    k = k
    Ports = {p}
    MaxUnconverged = 2
    MaxPubs = 2
    MaxFaults = 1
    MaxFlows = 2
    NTcp = 2
    NUdp = 1
    MaxCandidates = 1
    MaxProbes = 2
    MaxChanges = 3
    Failed = Failed
    Flows = {f1, f2}
    Listeners = {l1, l2}
    Sources = {x}
    MaxTx = 2
    Cap = 2
    PoolCap = 2
    Slots = 1
    a = a
    b = b
PROPERTIES RelaysSettle FailoverIsSound
CHECK_DEADLOCK FALSE
