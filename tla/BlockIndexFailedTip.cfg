CONSTANTS
    g = g
    a1 = a1
    a2 = a2
    b1 = b1
    b2 = b2
    b3 = b3
    c2 = c2
    Block = {g, a1, a2, b1, b2, b3}
    Genesis = g
    Null = Null
    Parent <- MCParent
    Headers = {g, a1, a2, b1, b2}
    BadBlock = {}
    BadScripts = {b3}
    AddrOrders <- OneAddrOrder
    Interleave = FALSE
    AnyTarget = FALSE
    WriteFailedTip = TRUE
    DemoteTip = FALSE
    MaxRpc = 1
    MaxCrashes = 1

SPECIFICATION Spec

INVARIANT NoAssertFails
