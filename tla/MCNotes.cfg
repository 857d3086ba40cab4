CHECK_DEADLOCK FALSE
SPECIFICATION MCNotesSpec
CONSTANTS
    a = a
    b = b
    NotePaths = {a, b}
    MaxEdits = 2
    MaxEvents = 2
    Inject = TRUE
    None = None
    Blank = Blank
INVARIANTS
    NotesTypeOK
    DoneIsIndexed
PROPERTIES
    
    RemovedLeave
