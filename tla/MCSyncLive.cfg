SPECIFICATION FairSpec
CONSTANTS
    p1 = p1
    ink = ink
    Rows = {p1}
    Pages = {p1}
    Cols = {ink}
    PageOf <- MCPageOf
    Devices = {1, 3}
    UB = 2
    Missing = Missing
    Mistyped = Mistyped
    NoRow = NoRow
    NoTx = NoTx
    BatchLimit = 1
    Times = {1}
    MaxWrites <- OneEach
    MaxAuthored = 1
    MaxFaults = 1
    Idle = Idle
    Payloads <- MostlyGood
PROPERTIES
    Converges
