SPECIFICATION MCSpec
CONSTANTS
    None = None
    Procs = {s1, t1}
    Servers = {s1}
    Teardowns = {t1}
    Inodes = {x1, x2, x3}
    NoFile = NoFile
    Attempts = 2
    Ifaces = {wg0}
    DefaultIface = wg0
    WGKeys = {y1, y2}
    MayBeBlind = TRUE
    Agents = {y1, y2}
    MaxGen = 2
    MaxTime = 3
    Streams = {x1, x2, x3}
    Keys = {y1, y2}
    Admin = Admin
    Nil = Nil
    MaxPending = 1
    MaxOps = 2
    MaxMisses = 1
    Hosts = {y1, y2}
    Absent = Absent
    Names = {y1, y2}
    NAddrs = 2
    MaxTokens = 3
    MaxCerts = 2
    MaxFaults = 1
SYMMETRY MCSymmetry
INVARIANTS TeardownIsAlone   InstalledIsPublished HubTruthful JoinStringsHold
PROPERTIES FileLockIsMutex WorkingTokenIsKept
CHECK_DEADLOCK FALSE
