SPECIFICATION FairSpec
CONSTANTS
    t1 = t1
    p1 = p1
    p2 = p2
    h1 = h1
    h2 = h2
    Cleaner = Cleaner
    Free = Free
    NoRequest = NoRequest
    Torrents <- OneTorrent
    Peers <- OnePeer
    Threads <- TwoThreads
    PeerTimeout = 2
    MaxDelay = 1
    LoggerFails = FALSE
INVARIANTS
    LastSeenNearlyRight
PROPERTIES
    EvictionGrace
    SilentPeersGo
    EveryAnnounceAnswered
