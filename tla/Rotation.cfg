SPECIFICATION Spec
CONSTANTS
    r1 = r1
    r2 = r2
    Requests = {r1, r2}
    Conversations = {talk}
    NoConversation = none
    a = a
    b = b
    c = c
    Relays = {a, b, c}
    NoRelay = none
    NoSelector = NoSelector
    Chosen = {"single", "failover", "conversation", "request", "weighted", "broken"}
    AllSettings <- MCAllSettings
    FirstSettings <- MCFirstSettings
    Down = {a}
    Flaky = {b}
    MaxRequests = 4
INVARIANTS
    CandidatesCoverMembers
    FairShare
PROPERTY
    SettledConversationKeepsMember
