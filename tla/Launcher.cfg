SPECIFICATION Spec
CONSTANTS
    Launchers = {l1, l2}
    NoOne = NoOne
    Old = Old
    Reserved = Reserved
    RecoverAfter = 2
    HealthThreshold = 2
    EmptyPolls = 2
INVARIANTS
    BackendHoldsLock
    ServedByLive
    ProxyPortKept
    StatusOfPrimary
PROPERTIES
    LaunchSettles
