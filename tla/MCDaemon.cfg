SPECIFICATION FairSpec
CONSTANTS
    top = top
    sub = sub
    note = note
    Paths = {top, sub}
    Names = {note}
    NameOf <- BothNotes
    RootPath <- TopOf
    Slots = {1, 2}
    MaxRetries = 1
    MaxUploads = 2
    MaxEvents = 2
    None = None
INVARIANTS
    NoNoteIsForgotten
    DocsOnce
PROPERTIES
    NotesSettle
CHECK_DEADLOCK FALSE
