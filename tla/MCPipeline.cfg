SPECIFICATION FairSpec
CONSTANTS
    a = a
    b = b
    s1 = s1
    s2 = s2
    Paths = {a, b}
    Slots = {s1, s2}
    MaxUploads = 2
    MaxEvents = 3
    None = None
    Partial = Partial
    Blank = Blank
INVARIANTS
    DoneIsIndexed
    TodosAreTasks
    DerivedHasNote
PROPERTIES
    UploadsSettle
CHECK_DEADLOCK FALSE
