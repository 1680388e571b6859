SPECIFICATION FairSpec
CONSTANTS
    c1 = c1
    Commands = {c1}
    Faults = {"settings", "runtime", "backend", "bridge", "restart"}
    MaxGen = 2
    MaxRecords = 2
CHECK_DEADLOCK FALSE
INVARIANTS
    TypeOK
    PanelFollowsFlow
    NoForgottenPrompt
PROPERTY
    PanelSettles
