SPECIFICATION Spec
CONSTANTS
    Flows = {f1, f2}
    Listeners = {l1, l2}
    r1 = r1
    r2 = r2
    a = a
    b = b
    x = x
    Plans <- MCPlans
    MaxTx = 4
    Rules = {r1, r2}
    Targets = {a, b}
    Sources = {x}
    Cap = 2
    PoolCap = 2
    Slots = 1
    None = None
SYMMETRY RelaySymmetry
INVARIANTS RefusedConnectionsAreCut
CHECK_DEADLOCK FALSE
