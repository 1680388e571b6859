---------------------------- MODULE RelayRotation ----------------------------
(***************************************************************************)
(* The aggregate provider: the process-wide RelayRotationSelector          *)
(* (crates/codex-plus-core/src/relay_rotation.rs) and the request loop of  *)
(* the local protocol proxy that drives it                                 *)
(* (crates/codex-plus-core/src/protocol_proxy.rs).                         *)
(*                                                                         *)
(* Each request reads the settings file once, selects under the mutex of   *)
(* GLOBAL_SELECTOR, and then sends to one relay after another without any  *)
(* lock, reporting every answer to the selector that is current by then.   *)
(* The user may save other settings at any moment.                         *)
(*                                                                         *)
(* A settings value is a record:                                           *)
(*   strategy  "single" for an ordinary provider, else the aggregate's     *)
(*   members   its members in order, each [relay, weight]; an ordinary     *)
(*             provider is its own only member                             *)
(*   complete  every member still exists and has an address and a key      *)
(***************************************************************************)
EXTENDS Naturals, Sequences, FiniteSets, Functions

CONSTANTS
    Requests,       \* requests that can be under way at once
    Conversations,  \* conversation ids found in request bodies
    Relays,         \* relay profiles
    NoConversation, \* a request whose body names no conversation
    NoRelay,        \* a conversation without an assignment
    NoSelector,     \* GLOBAL_SELECTOR holding None
    AllSettings,    \* the settings the user switches between
    FirstSettings,  \* the settings at the start
    Down,           \* relays that never answer with a success
    Flaky,          \* relays that may fail as well as succeed
    MaxRequests     \* bound: requests ever received

Strategies == {"single", "failover", "conversation", "request", "weighted"}

Member == [relay : Relays, weight : Nat]

\* Members are chosen from the list of providers, each at most once.
DistinctMembers(ms) ==
    \A i, j \in DOMAIN ms : ms[i].relay = ms[j].relay => i = j

Selector ==
    [agg : AllSettings, failover : Nat, round : Nat, weighted : Nat,
     assigned : [Conversations -> Relays \cup {NoRelay}]]

\* The settings file lists finitely many relays.
ASSUME RotationAssumption ==
    /\ IsFiniteSet(Relays)
    /\ NoRelay \notin Relays
    /\ NoSelector \notin Selector
    /\ NoConversation \notin Conversations
    /\ FirstSettings \in AllSettings
    /\ Down \subseteq Relays /\ Flaky \subseteq Relays
    /\ MaxRequests \in Nat
    /\ \A s \in AllSettings :
        /\ s \in [strategy : Strategies, members : Seq(Member), complete : BOOLEAN]
        /\ s.members # << >>
        /\ DistinctMembers(s.members)
        /\ s.strategy = "single" => Len(s.members) = 1 /\ s.complete

VARIABLES
    settings,  \* the settings file
    selector,  \* GLOBAL_SELECTOR
    pc,        \* each request: "idle", "loaded" or "trying"
    cfg,       \* the settings each request read
    conv,      \* the conversation each request belongs to
    todo,      \* the relays each request has still to try
    tried,     \* the relays each request has had a failure from
    received,  \* requests received
    picked,    \* history: selections per relay since the selector was built
    failed     \* history: a failure was recorded since the selector was built

proxy == <<settings, selector, received>>
request == <<pc, cfg, conv, todo, tried>>
history == <<picked, failed>>
vars == <<proxy, request, history>>

-----------------------------------------------------------------------------
(* The selector's arithmetic.  Indices are the code's, from 0. *)

MemberAt(ms, index) == ms[(index % Len(ms)) + 1].relay

Weight(m) == IF m.weight = 0 THEN 1 ELSE m.weight

\* Mutant: a member of weight 0 is dropped from the schedule.
ScheduleDropsZero(ms) ==
    LET spread[i \in 0..Len(ms)] ==
            IF i = 0 THEN << >>
            ELSE spread[i - 1] \o [k \in 1..ms[i].weight |-> ms[i].relay]
    IN  spread[Len(ms)]

\* weighted_schedule: each member repeated by its weight, at least once.
Schedule(ms) ==
    LET spread[i \in 0..Len(ms)] ==
            IF i = 0 THEN << >>
            ELSE spread[i - 1] \o [k \in 1..Weight(ms[i]) |-> ms[i].relay]
    IN  spread[Len(ms)]

\* Mutant: the fallbacks start at the relay that was just tried.
FallbacksFromSelf(ms, relay) ==
    LET at == CHOOSE i \in DOMAIN ms : ms[i].relay = relay
    IN  [k \in 1..(Len(ms) - 1) |-> MemberAt(ms, at - 1 + k - 1)]

\* fallback_relays_after: the other members, in order from the one after relay,
\* wrapping round; from the first member if relay is not one of them.
Fallbacks(ms, relay) ==
    LET start == IF \E i \in DOMAIN ms : ms[i].relay = relay
                 THEN CHOOSE i \in DOMAIN ms : ms[i].relay = relay
                 ELSE 0
    IN  [k \in 1..(Len(ms) - 1) |-> MemberAt(ms, start + k - 1)]

IsAggregate(s) == s.strategy # "single"

NewSelector(s) ==
    [agg |-> s, failover |-> 0, round |-> 0, weighted |-> 0,
     assigned |-> [c \in Conversations |-> NoRelay]]

\* The selector compares its aggregate with the one now active.
Fits(sel, s) ==
    /\ sel # NoSelector
    /\ sel.agg.strategy = s.strategy
    /\ sel.agg.members = s.members

\* The selector a request or a probe works on once it holds the mutex.
Current(s) == IF Fits(selector, s) THEN selector ELSE NewSelector(s)

NextInRound(sel) ==
    [relay |-> MemberAt(sel.agg.members, sel.round),
     after |-> [sel EXCEPT !.round = (@ + 1) % Len(sel.agg.members)]]

NextWeighted(sel) ==
    LET schedule == Schedule(sel.agg.members)
    IN  [relay |-> schedule[(sel.weighted % Len(schedule)) + 1],
         after |-> [sel EXCEPT !.weighted = (@ + 1) % Len(schedule)]]

\* Mutant: the member a conversation already has is not looked up.
NextForConversationAnew(sel, c) ==
    IF c = NoConversation
    THEN NextInRound(sel)
    ELSE LET next == NextInRound(sel)
         IN  [next EXCEPT !.after.assigned[c] = next.relay]

\* select_for_conversation
NextForConversation(sel, c) ==
    IF c = NoConversation
    THEN NextInRound(sel)
    ELSE IF sel.assigned[c] # NoRelay
    THEN [relay |-> sel.assigned[c], after |-> sel]
    ELSE LET next == NextInRound(sel)
         IN  [next EXCEPT !.after.assigned[c] = next.relay]

\* RelayRotationSelector::select: the relay, and the selector afterwards.
SelectFrom(sel, c) ==
    CASE sel.agg.strategy = "failover" ->
            [relay |-> MemberAt(sel.agg.members, sel.failover), after |-> sel]
      [] sel.agg.strategy = "conversation" -> NextForConversation(sel, c)
      [] sel.agg.strategy = "request" -> NextInRound(sel)
      [] sel.agg.strategy = "weighted" -> NextWeighted(sel)

\* record_relay_request_event for a failure: whichever selector there is now
\* moves on, and settings without an aggregate drop it.
Reported(s) ==
    IF ~IsAggregate(s) THEN NoSelector
    ELSE IF selector = NoSelector \/ selector.agg.strategy # "failover" THEN selector
    ELSE [selector EXCEPT !.failover = (@ + 1) % Len(selector.agg.members)]

-----------------------------------------------------------------------------
Init ==
    /\ settings = FirstSettings
    /\ selector = NoSelector
    /\ received = 0
    /\ pc = [r \in Requests |-> "idle"]
    /\ cfg = [r \in Requests |-> FirstSettings]
    /\ conv = [r \in Requests |-> NoConversation]
    /\ todo = [r \in Requests |-> << >>]
    /\ tried = [r \in Requests |-> << >>]
    /\ picked = [m \in Relays |-> 0]
    /\ failed = FALSE

\* The history starts again with another selector.
Forget ==
    /\ picked' = [m \in Relays |-> 0]
    /\ failed' = FALSE

\* The request has its answer; what it carried is dropped.
Return(r) ==
    /\ pc' = [pc EXCEPT ![r] = "idle"]
    /\ cfg' = [cfg EXCEPT ![r] = FirstSettings]
    /\ conv' = [conv EXCEPT ![r] = NoConversation]
    /\ todo' = [todo EXCEPT ![r] = << >>]
    /\ tried' = [tried EXCEPT ![r] = << >>]

Try(r, relays) ==
    /\ pc' = [pc EXCEPT ![r] = "trying"]
    /\ todo' = [todo EXCEPT ![r] = relays]
    /\ UNCHANGED <<cfg, conv, tried>>

\* SettingsStore::save, by the manager or the panel.
Save(s) ==
    /\ s # settings
    /\ settings' = s
    /\ UNCHANGED <<selector, received, request, history>>

Receive(r) ==
    /\ pc[r] = "idle"
    /\ received < MaxRequests
    /\ received' = received + 1
    /\ pc' = [pc EXCEPT ![r] = "loaded"]
    /\ cfg' = [cfg EXCEPT ![r] = settings]
    /\ \E c \in Conversations \cup {NoConversation} : conv' = [conv EXCEPT ![r] = c]
    /\ UNCHANGED <<settings, selector, todo, tried, history>>

\* select_relay_for_request without an aggregate drops the selector.
SelectSingle(r) ==
    /\ pc[r] = "loaded"
    /\ ~IsAggregate(cfg[r])
    /\ selector' = NoSelector
    /\ Forget
    /\ Try(r, <<MemberAt(cfg[r].members, 0)>>)
    /\ UNCHANGED <<settings, received>>

\* A model route of an ordinary provider names the one relay to use, and the
\* selector is not asked.
SelectRouted(r) ==
    /\ pc[r] = "loaded"
    /\ ~IsAggregate(cfg[r])
    /\ \E relay \in Relays : Try(r, <<relay>>)
    /\ UNCHANGED <<proxy, history>>

\* A member is gone or has no address: an error, and the selector as it was.
SelectRefused(r) ==
    /\ pc[r] = "loaded"
    /\ ~cfg[r].complete
    /\ Return(r)
    /\ UNCHANGED <<proxy, history>>

SelectMember(r) ==
    /\ pc[r] = "loaded"
    /\ IsAggregate(cfg[r])
    /\ cfg[r].complete
    /\ LET chosen == SelectFrom(Current(cfg[r]), conv[r])
           before == IF Fits(selector, cfg[r]) THEN picked ELSE [m \in Relays |-> 0]
       IN  /\ selector' = chosen.after
           /\ Try(r, <<chosen.relay>> \o Fallbacks(cfg[r].members, chosen.relay))
           /\ picked' = [before EXCEPT ![chosen.relay] = @ + 1]
    /\ failed' = (Fits(selector, cfg[r]) /\ failed)
    /\ UNCHANGED <<settings, received>>

\* select_relay_for_probe builds or drops the selector and does not advance it.
Probe ==
    /\ settings.complete
    /\ selector' = IF IsAggregate(settings) THEN Current(settings) ELSE NoSelector
    /\ IF Fits(selector, settings) THEN UNCHANGED history ELSE Forget
    /\ UNCHANGED <<settings, received, request>>

\* The relay answers with a success; settings without an aggregate drop the
\* selector here too.
Succeed(r) ==
    /\ pc[r] = "trying"
    /\ Head(todo[r]) \notin Down
    /\ IF IsAggregate(cfg[r])
       THEN UNCHANGED <<selector, history>>
       ELSE selector' = NoSelector /\ Forget
    /\ Return(r)
    /\ UNCHANGED <<settings, received>>

\* No answer, or one that is not a success: the next relay, if there is one.
Fail(r) ==
    /\ pc[r] = "trying"
    /\ Head(todo[r]) \in Down \cup Flaky
    /\ selector' = Reported(cfg[r])
    /\ IF IsAggregate(cfg[r])
       THEN failed' = (selector # NoSelector) /\ UNCHANGED picked
       ELSE Forget
    /\ IF Len(todo[r]) > 1
       THEN /\ todo' = [todo EXCEPT ![r] = Tail(@)]
            /\ tried' = [tried EXCEPT ![r] = Append(@, Head(todo[r]))]
            /\ UNCHANGED <<pc, cfg, conv>>
       ELSE Return(r)
    /\ UNCHANGED <<settings, received>>

\* The body cannot be converted for this relay, or Codex hung up: the request
\* ends and nothing is reported.
Abort(r) ==
    /\ pc[r] = "trying"
    /\ Return(r)
    /\ UNCHANGED <<proxy, history>>

Next ==
    \/ \E s \in AllSettings : Save(s)
    \/ Probe
    \/ \E r \in Requests :
        \/ Receive(r) \/ SelectSingle(r) \/ SelectRouted(r) \/ SelectRefused(r)
        \/ SelectMember(r) \/ Succeed(r) \/ Fail(r) \/ Abort(r)

Spec == Init /\ [][Next]_vars

-----------------------------------------------------------------------------
\* Every variable has its type, and each index of the selector is a position of
\* its aggregate's members or schedule.
TypeOK ==
    /\ settings \in AllSettings
    /\ received \in Nat
    /\ selector = NoSelector \/
        /\ selector \in Selector
        /\ selector.failover < Len(selector.agg.members)
        /\ selector.round < Len(selector.agg.members)
        /\ selector.weighted < Len(Schedule(selector.agg.members))
    /\ pc \in [Requests -> {"idle", "loaded", "trying"}]
    /\ cfg \in [Requests -> AllSettings]
    /\ conv \in [Requests -> Conversations \cup {NoConversation}]
    /\ todo \in [Requests -> Seq(Relays)]
    /\ tried \in [Requests -> Seq(Relays)]
    /\ picked \in [Relays -> Nat]
    /\ failed \in BOOLEAN

MemberRelays(s) == {s.members[i].relay : i \in DOMAIN s.members}

\* One failing member does not keep a request from the others, and no request
\* goes to a relay outside its aggregate: what was tried and what is left are
\* the members of the settings the request read, each exactly once, whatever
\* was saved or selected in between.
CandidatesCoverMembers ==
    TypeOK /\ \A r \in Requests :
        pc[r] = "trying" /\ IsAggregate(cfg[r]) =>
            LET all == tried[r] \o todo[r]
            IN  /\ Len(all) = Len(cfg[r].members)
                /\ Range(all) = MemberRelays(cfg[r])

Weights(s) == Len(Schedule(s.members))
Picks == LET sum[S \in SUBSET Relays] ==
                IF S = {} THEN 0
                ELSE LET m == CHOOSE x \in S : TRUE IN picked[m] + sum[S \ {m}]
         IN  sum[Relays]

\* Rotation by request and by weight is fair however requests interleave: after
\* every full turn of the selector each member had exactly its weight of them.
FairShare ==
    selector # NoSelector /\ selector.agg.strategy \in {"request", "weighted"} =>
        \A i \in DOMAIN selector.agg.members :
            LET m == selector.agg.members[i]
                w == IF selector.agg.strategy = "weighted" THEN Weight(m) ELSE 1
                turn == IF selector.agg.strategy = "weighted"
                        THEN Weights(selector.agg) ELSE Len(selector.agg.members)
            IN  /\ picked[m.relay] >= w * (Picks \div turn)
                /\ picked[m.relay] <= w * ((Picks \div turn) + 1)

Settled(r) == pc[r] = "idle" \/ cfg[r] = settings

KeepsMembers ==
    \A c \in Conversations :
        Fits(selector, settings) /\ settings' = settings /\ selector.assigned[c] # NoRelay =>
            /\ Fits(selector', settings)
            /\ selector'.assigned[c] = selector.assigned[c]

\* Once every request under way has read the present settings, a conversation
\* keeps the member it was given.
SettledConversationKeepsMember ==
    [][(\A r \in Requests : Settled(r)) => KeepsMembers]_vars

\* docs/plan, strategy 2, "the same conversation keeps a fixed member": it does
\* as long as the settings stay the same.
ConversationKeepsMember == [][KeepsMembers]_vars

\* docs/plan, strategy 1, "after a failure, switch to the next member": with
\* no request under way, a selector that has recorded failures does not point
\* at a relay that is down while another member is up.
FailoverLeavesFailed ==
    /\ \A r \in Requests : pc[r] = "idle"
    /\ selector # NoSelector
    /\ selector.agg.strategy = "failover"
    /\ failed
    /\ ~(MemberRelays(selector.agg) \subseteq Down)
    => MemberAt(selector.agg.members, selector.failover) \notin Down
=============================================================================
