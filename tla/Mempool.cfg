CONSTANTS
    a = a  b = b  d = d  w = w  r = r  y = y  z = z  k = k  s = s
    Tx = {a, b, d, w, r, y, z, k, s}
    Ins <- MCIns
    Outs <- MCOuts
    Coinbase = {k}
    ZerocoinSpend = {y, z}
    Serials <- MCSerials
    Replaceable = {a}
    LockHeight <- MCLockHeight
    Fee <- MCFee
    Funds = {"c0"}
    Blocks <- MCBlocks
    Prioritised = {b}
    Delta = 2
    IncrementalFee = 1
    AncestorLimit = 3
    DescendantLimit = 3
    Maturity = 2
    MaxPool = 4
    MaxDisconnected = 3
    MaxHeight = 3

SPECIFICATION Spec

INVARIANTS
    TypeOK
    PoolConsistent
    TotalsFollowLinks
    QueueUnconfirmed
    SerialsHeld
