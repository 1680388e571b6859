CONSTANTS
    Gateways = {"g1"}
    Providers = {"p1"}
    MaxSessions = 1
    MaxSignIns = 0
    MaxIncidents = 0
SPECIFICATION Spec
PROPERTY OursIsRemoved
