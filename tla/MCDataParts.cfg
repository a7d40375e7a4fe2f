SPECIFICATION MCSpec
CONSTANTS
    None = None
    Procs = {p1, p2, p3}
    Hooks = {k1, k2}
    Entries = {e1, e2, e3}
    NoEntry = NoEntry
    Listeners = {x1, x2, x3}
    Rules = {r1, r2, r3}
    Regs = {g1, g2, g3}
    Total = 5
    FlowFloor = 1
    Keys = {x1, x2, x3}
    Payloads = {x}
    ECNs = {"notect", "ce"}
    FragEntries = 2
    Fragments = 3
    Bytes = 5
    Lifetime = 1
    MaxLength = 4
    MaxOffset = 2
    MaxNow = 1
SYMMETRY MCSymmetry
INVARIANTS PoolHolds FragTableHolds
PROPERTIES LockTableIsMutex PoolNarrowsOnlyForRules
CHECK_DEADLOCK FALSE
