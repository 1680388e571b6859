CONSTANTS
    Gateways = {"g1", "g2"}
    Providers = {"p1", "p2"}
    MaxSessions = 2
    MaxSignIns = 2
    MaxIncidents = 2
SPECIFICATION Spec
INVARIANTS
    UsersOwnIsKept
    OfficialStaysOfficial
PROPERTIES
    ReturnRestores
    SignOutRestores
