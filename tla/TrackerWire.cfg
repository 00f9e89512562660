SPECIFICATION WireSpec
CONSTANTS
    Symbols <- TheSymbols
    IdLength = 2
    MaxPort = 10
    MaxEdits = 1
    SentRequests <- SomeRequests
    SentResponses <- SomeResponses
    Alphabet <- DamagedSymbols
INVARIANTS
    RequestArrives
    ReplyArrives
    DecoderIsCanonical
CHECK_DEADLOCK FALSE
