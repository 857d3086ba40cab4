SPECIFICATION BridgeFairSpec
CONSTANTS
    p1 = p1
    p2 = p2
    n1 = n1
    n2 = n2
    PageIds = {p1, p2}
    Notebooks = {n1, n2}
    QueueCap = 1
    Legacy <- OldPage
    MaxEvents = 3
    NoPage = NoPage
    NoEntry = NoEntry
    Waiting = Waiting
INVARIANTS
    BridgeTypeOK
    StaleIsAccounted
CHECK_DEADLOCK FALSE
PROPERTIES
    PagesSettle
