SPECIFICATION MCSpec
CONSTANTS
    r1 = r1  r2 = r2  g1 = g1  g2 = g2  k1 = k1  k2 = k2  s1 = s1  s2 = s2
    Rules = {r1}
    Values <- MCValues
    Agents = {g1, g2}
    Addrs = {2, 3}
    Keys = {k1, k2}
    Listens = {1}
    Sources = {s1, s2}
    None = None
    Excluded = Excluded
    Unknown = Unknown
    MaxChanges = 2
    MaxAgentChanges = 1
    MaxFaults = 1
    MaxDrifts = 1
    MaxCrashes = 1
    MaxBinds = 1
    MaxEvents = 3
    DriftAt = {"idle"}
    DeleteMayFail = FALSE
    ReadMayFail = TRUE
INVARIANTS StatusTruthful  FlowsConverged DispatchKeepsPeer
CHECK_DEADLOCK FALSE
