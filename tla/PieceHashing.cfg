SPECIFICATION GeneratorSpec
CONSTANTS
    MaxLength = 3
    MaxPiece = 4
    ReadSize = 2
    Odd = Odd
    Absent = Absent
    Unsafe = Unsafe
    NoDocument = NoDocument
    Layouts <- SmallLayouts
INVARIANTS
    GeneratedIsLoaded
    HashesMatchReader
    WriteInvertsRead
    LeftIsZeroWhenComplete
CHECK_DEADLOCK FALSE
