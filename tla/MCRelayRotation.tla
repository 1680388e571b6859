--------------------------- MODULE MCRelayRotation ---------------------------
(* RelayRotation for TLC: three relays and one aggregate per strategy. *)
EXTENDS RelayRotation, TLC

CONSTANTS a, b, c, Chosen

Setting(strategy, members, complete) ==
    [strategy |-> strategy, members |-> members, complete |-> complete]

M(relay, weight) == [relay |-> relay, weight |-> weight]

SettingsNamed ==
    [single |-> Setting("single", <<M(c, 1)>>, TRUE),
     failover |-> Setting("failover", <<M(a, 1), M(b, 1)>>, TRUE),
     conversation |-> Setting("conversation", <<M(a, 1), M(b, 1)>>, TRUE),
     request |-> Setting("request", <<M(b, 1), M(a, 1), M(c, 1)>>, TRUE),
     weighted |-> Setting("weighted", <<M(a, 2), M(b, 0)>>, TRUE),
     broken |-> Setting("weighted", <<M(a, 2), M(b, 0)>>, FALSE)]

MCAllSettings == {SettingsNamed[n] : n \in Chosen}
MCFirstSettings == SettingsNamed["single"]
MCFirstFailover == SettingsNamed["failover"]
=============================================================================
