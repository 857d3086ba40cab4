CONSTANTS
    w1 = w1
    w2 = w2
    u1 = u1
    x1 = x1
    n1 = n1
    None = None
    Words <- MCWords
    Urls <- MCUrls
    Extras = {x1}
    Sources = {n1}
    Days <- MCDays
    Modes = {"preserve", "date_only"}
    Bodies <- MCBodies
    MaxTime = 2
    MaxWrites = 3
    MaxCalls = 2
    MaxFaults = 1
SPECIFICATION Spec
INVARIANTS
    ServedAsMeant
    ShownAsMeant
    UnchangedIsCurrent
CHECK_DEADLOCK FALSE
