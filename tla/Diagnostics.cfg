SPECIFICATION FairSpec
CONSTANTS
    a = a
    b = b
    Writers = {a, b}
    e1 = e1
    e2 = e2
    e3 = e3
    note = note
    Entries = {e1, e2, e3}
    Note = note
    Reportable = {e1, e3, note}
    Long = {e3}
    Kind <- MCKind
    MaxBytes = 4
    KeptBytes = 3
    MaxPerFlush = 1
    Bounds <- MCBounds
INVARIANTS
    NothingSkipped
PROPERTIES
    ToldOnce
    EverythingIsDealtWith
CHECK_DEADLOCK FALSE
