CONSTANTS
    g = g  f = f  i = i  o = o
    Vote <- MCVote
    OwnMasternode = 1
    NoVote = NoVote
    VoteAhead = 1
    VoteWindow = 2
    HashDepth = 2
    StorageLimit = 0
    AverageVotes = 1
    Peer = {g, f, i, o}
    Stable = g
    Ignored = {i}
    Outdated = {o}
    PeerHeight <- MCPeerHeight
    SavedFlags <- MCSavedFlags
    Timeout = 1
    Cooldown = 1
    Hour = 2
    StartHeight = 3
    SyncedHeight = 3
    MasternodeInitialize = 3
    CheckpointHeight = 4
    RecentHeight = 4
    MaxHeight = 5
    MaxAttempt = 2
    Disturbances = 1

SPECIFICATION Spec

INVARIANTS
    
    VotesBackPayees
PROPERTIES
    SyncCompletes
