CONSTANTS
    Threads = {t}
    Apis = {a}
    NumDbs = 2
    MaxBackups = 3
    Bounds <- MCBounds
    t = t
    a = a
SPECIFICATION Spec
INVARIANT NothingIsLost
PROPERTY DeletionIsUndoable
PROPERTY UndoneMeansBack
PROPERTY NewerRowsStay
PROPERTY SweepIsSafe
CHECK_DEADLOCK FALSE
