CONSTANTS
    name = name
    due = due
    user = user
    hash = hash
    sync = sync
    mode = mode
    oss = oss
    file = file
    a = a
    b = b
    Blank = Blank
    Unset = Unset
    On = b
    NameKey = name
    UserKey = user
    HashKey = hash
    SyncKey = sync
    ModeKey = mode
    OssKey = oss
    Server = a
    Secret = b
    HashFile = file
    Keys <- MCKeys
    Flagged <- MCFlagged
    Values = {a, b}
    Names = {b}
    defaultValues <- MCDefaults
    Bodies <- MCBodies
    Forms <- MCForms
    Logins <- MCLogins
    Environments <- MCEnvironments
    Types = {"forestnote", "boox"}
    MaxRows = 1
    MaxRequests = 3
    MaxSaves = 2
    MaxBoots = 1
    MaxFaults = 1
SPECIFICATION Spec
INVARIANTS
    RestartIsReported
    SavesWhatWasAsked
CHECK_DEADLOCK FALSE
