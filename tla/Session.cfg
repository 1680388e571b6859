SPECIFICATION Spec
CONSTANTS
    h1 = h1
    h2 = h2
    Handlers = {h1, h2}
    NoHandler = none
    Ops = {"refresh", "login", "logout", "snapshot", "gateway"}
    StoreFaults = TRUE
    ConfigFaults = TRUE
    MaxEpoch = 3
    MaxToken = 3
SYMMETRY Symmetry
INVARIANTS
    TypeOK
    SignOutIsFinal
    CacheBelongsToToken
