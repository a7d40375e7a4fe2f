SPECIFICATION MCSpec
CONSTANTS
    None = None
    Slots = {x1, x2}
    Tuples = {y1, y2}
    Listeners = {l1}
    SynRows = 4
    TwRows = 1
    AcceptQ = 4
    MaxGen = 2
    Flows = {x1, x2}
    PortListeners = {y1, y2}
    r1 = r1
    r2 = r2
    a = a
    b = b
    x = x
    Targets = {a, b}
    Sources = {x}
    MaxTx = 3
    Cap = 2
    PoolCap = 2
    ReplySlots = 1
    h = h
    k = k
    Ports = {p}
    MaxUnconverged = 2
    MaxPubs = 3
    MaxFaults = 2
    MaxFlows = 2
SYMMETRY MCSymmetry
INVARIANTS TablesHold FlowsAreDeclared FlowsAccounted KernelFlowsHold
PROPERTIES FlowsSurvive
CHECK_DEADLOCK FALSE
