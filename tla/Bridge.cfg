SPECIFICATION FairSpec
CONSTANTS
    q1 = q1
    q2 = q2
    Requests = {q1, q2}
    NoAnswer = NoAnswer
    Reconnected = Reconnected
    MaxInstalling = 2
    MaxInstalls = 3
    MaxFaults = 1
    MaxReloads = 1
CHECK_DEADLOCK FALSE
INVARIANTS
    TypeOK
    AnswersStayApart
    NoRequestLost
PROPERTIES
    NewestServes
    ImplementsPort
    EveryRequestSettles
