SPECIFICATION FairSpec
CONSTANTS
    c1 = c1
    c2 = c2
    p1 = p1
    NoConn = NoConn
    Conns <- TwoConns
    Peers <- OnePeer
    Pieces <- OnePiece
    Faults <- AllFaults
INVARIANTS
    StoppedMeansAccounted
    CountedWereSent
    UnchokeIsKept
PROPERTIES
    EveryConnectionEnds
    StopTerminates
