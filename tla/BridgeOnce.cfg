SPECIFICATION Spec
CONSTANTS
    q1 = q1
    Requests = {q1}
    NoAnswer = NoAnswer
    Reconnected = Reconnected
    MaxInstalling = 1
    MaxInstalls = 2
    MaxFaults = 0
    MaxReloads = 0
CHECK_DEADLOCK FALSE
INVARIANT
    OneSessionPerRequest
