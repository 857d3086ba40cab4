CHECK_DEADLOCK FALSE
SPECIFICATION FairSpec
CONSTANTS
    a = a
    b = b
    Ids = {1, 2}
    Titles = {a}
    PageSize = 1
    Window = 0
    MaxTime = 2
    MaxWrites = 3
    MaxFaults = 1
    None = None
INVARIANTS
    AckedIsServed
    SkipsAreAccounted
PROPERTIES
    TombstonesAreKept
    DeviceCatchesUp
