SPECIFICATION FairSpec
CONSTANTS
    t1 = t1
    s = s
    a = a
    NoRequest = NoRequest
    Torrent = t1
    Torrents <- OneTorrent
    Peers <- TwoWorkers
    PieceCount = 2
    Seeders <- Seeder
    Lingering <- Seeder
    Endless <- TwoWorkers
    MaxCycles = 1
    Rotting <- Nobody
    Faults <- NoFaults
INVARIANTS
    CompletedIsAnnounced
    FinishedGone
PROPERTIES
    StopIsHonoured
    PatientPeersComplete
