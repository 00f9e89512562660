SPECIFICATION Spec
CONSTANTS
    t1 = t1
    s = s
    a = a
    NoRequest = NoRequest
    Torrent = t1
    Torrents <- OneTorrent
    Peers <- TwoWorkers
    PieceCount = 1
    Seeders <- Seeder
    Lingering <- Nobody
    Endless <- Nobody
    MaxCycles = 2
    Rotting <- Leecher
    Faults <- AllFaults
INVARIANTS
    TypeOK
    NoResurrection
    MutualDiscovery
PROPERTIES
    SeedsAreComplete
