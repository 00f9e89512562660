SPECIFICATION FairSpec
CONSTANTS
    main = main
    other = other
    j1 = j1
    j2 = j2
    j3 = j3
    Callers <- OneCaller
    Jobs <- TwoJobs
    Endless <- OneJob
    MaxInterrupts = 1
    Faults <- Nothing
PROPERTIES
    InterruptIsGraceful
