CONSTANTS
    p1 = p1
    p2 = p2
    g = g
    b1 = b1
    b2 = b2
    b3 = b3
    Peer <- MCPeer
    Nobody = Nobody
    Block <- MCBlock
    Genesis = g
    Null = Null
    Parent <- MCParent
    BadBlock = {b3}
    Announces <- MCAnnounces
    Outbound = {p2}
    Whitelisted = {p1}
    Witness = {p1, p2}
    Prompt = {p1}
    Faulty = {p2}
    Pushy = {p2}
    Compact = {p1, p2}
    Submitted = {b1}
    ClaimedHeights = {2}
    RecentHeight = 2
    DirectHeight = 1
    Window = 1
    MaxInTransit = 2
    StallTimeout = 0
    TimeoutBase = 0
    TimeoutPerPeer = 1
    HeadersTimeout = 0
SPECIFICATION Spec
INVARIANTS TypeOK InFlightExact StallerHoldsBlock CommonIsFull
PROPERTY CaughtUp
