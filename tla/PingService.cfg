SPECIFICATION FairSpec
CONSTANTS
    main = main
    other = other
    t1 = t1
    t2 = t2
    q1 = q1
    q2 = q2
    NoPinger = NoPinger
    NoFrame = NoFrame
    Callers <- TwoCallers
    Stoppers <- OneStopper
    Pingers <- TwoThreads
    Peers <- TwoPeers
    MaxWorkers = 1
    Frames <- SomeAnswers
    HeaderSize = 2
    MaxSize = 2
    Faults <- AllFaults
CHECK_DEADLOCK FALSE
INVARIANTS
    SuccessIsGenuine
    PingersAccounted
PROPERTIES
    PingersEnd
