SPECIFICATION Spec
CONSTANTS
    Outpoint = {o1, o2}
    Coin = {c1, c2}
    Spent = Spent
    NoEntry = NoEntry
    Block = {b1, b2}
    Null = Null
INVARIANTS
    TypeOK
    FlagsSound
    PrunedNeedsFlush
    NoLogicError
PROPERTY
    ImplementsLayers
