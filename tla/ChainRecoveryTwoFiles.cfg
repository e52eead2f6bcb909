CONSTANTS
    g = g  a1 = a1  a2 = a2  b2 = b2  b3 = b3
    o1 = o1  o2 = o2  o3 = o3
    Block = {g, a1, a2, b2, b3}
    Genesis = g
    Parent <- MCParent
    Txs <- MCTxs
    Stored = {g, a1, a2}
    Outpoint = {o1, o2, o3}
    Coin = {1, 2, 3}
    Spent = Spent
    NoEntry = NoEntry
    Null = Null
    MaxFile = 1
    MaxCrashes = 0
SPECIFICATION Spec
INVARIANT IndexedUndoIsSynced
