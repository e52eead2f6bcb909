CONSTANTS
    g = g
    a1 = a1
    a2 = a2
    b1 = b1
    b2 = b2
    b3 = b3
    c2 = c2
    Block = {g, a1, a2, b1, b2, b3}
    Genesis = g
    Null = Null
    Parent <- MCParent
    Headers = {g, a1, a2, b1, b2}
    BadBlock = {}
    BadScripts = {}
    AddrOrders <- OneAddrOrder
    Interleave = TRUE
    AnyTarget = FALSE
    WriteFailedTip = FALSE
    DemoteTip = FALSE
    MaxRpc = 1
    MaxCrashes = 0

SPECIFICATION Spec

INVARIANT ActiveChainValid
