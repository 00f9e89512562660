SPECIFICATION Spec
CONSTANTS
    w1 = w1
    w2 = w2
    Free = Free
    Layout <- CrossingLayout
    Threads <- TwoThreads
    CreateMissing = TRUE
    Slack = 1
SYMMETRY Symmetric
INVARIANTS
    BitfieldSound
    CompleteMeansContent
PROPERTIES
    NothingLost
    ScanFindsAll
    SetOnlyWhenValid
