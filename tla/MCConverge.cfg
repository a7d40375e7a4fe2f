SPECIFICATION MCFairSpec
CONSTANTS
    None = None
    g1 = g1
    g2 = g2
    k1 = k1
    k2 = k2
    Agents = {g1, g2}
    Keys = {k1, k2}
    Vals <- MCVals
    MaxId = 1
    MaxOps = 2
    MaxFails = 2
    MaxCrashes = 1
    r1 = r1
    Listens = {1}
    Excluded = Excluded
    Unknown = Unknown
    MaxChanges = 1
    MaxFaults = 1
    MaxDrifts = 1
    MaxBinds = 1
    MaxEvents = 2
    DriftAt = {"idle", "begin", "prepare", "flush"}
    Modes = {FALSE, TRUE}
    wBad = wBad
    w1 = w1
    w2 = w2
    b1 = b1
    b2 = b2
    NoRules = NoRules
    MaxGen = 2
    MaxKey = 2
    MaxChan = 1
INVARIANTS DisabledStaysOff PendingIsTruthful EveryoneTold
PROPERTIES DeclarationArrives
CHECK_DEADLOCK FALSE
