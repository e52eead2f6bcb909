CONSTANTS
    g = g
    a1 = a1
    a2 = a2
    b1 = b1
    b2 = b2
    b3 = b3
    c2 = c2
    Block = {g, a1, b1}
    Genesis = g
    Null = Null
    Parent <- MCParent
    Headers = {g, a1, b1}
    BadBlock = {}
    BadScripts = {}
    AddrOrders <- BothAddrOrders
    Interleave = FALSE
    AnyTarget = FALSE
    WriteFailedTip = FALSE
    DemoteTip = TRUE
    MaxRpc = 3
    MaxCrashes = 0

SPECIFICATION Spec

INVARIANT CandidatesExact
