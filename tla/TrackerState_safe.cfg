SPECIFICATION Spec
CONSTANTS
    t1 = t1
    p1 = p1
    p2 = p2
    h1 = h1
    h2 = h2
    Cleaner = Cleaner
    Free = Free
    NoRequest = NoRequest
    Torrents <- OneTorrent
    Peers <- TwoPeers
    Threads <- TwoThreads
    PeerTimeout = 1
    MaxDelay = 0
    LoggerFails = TRUE
SYMMETRY Symmetric
PROPERTIES
    ImplementsRegistry
