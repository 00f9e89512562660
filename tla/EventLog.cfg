SPECIFICATION FairSpec
CONSTANTS
    t1 = t1
    t2 = t2
    hello = hello
    Threads <- TwoThreads
    Texts <- OneText
    Free = Free
    Missing = Missing
    Partial = Partial
    NoEntry = NoEntry
    MaxDelay = 1
    MaxTime = 2
    MaxLines = 2
INVARIANTS
    TimesNearlyOrdered
PROPERTIES
    ImplementsAppendLog
    EveryCallReturns
