CONSTANTS
    p = p
    q = q
    o = o
    x = x
    y = y
    Procs = {p, q, o}
    Threads = {t1}
    Providers = {x, y}
    None = None
    Exclusive = TRUE
    MaxLines = 1
    MaxSwitches = 1
    MaxTrouble = 1
SPECIFICATION Spec
INVARIANT LinesKept
PROPERTIES
    SyncedIsWhole
    CompletedIsServed
SYMMETRY Interchangeable
CHECK_DEADLOCK FALSE
