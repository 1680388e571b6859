-------------------------- MODULE RelayRotationProofs --------------------------
(*****************************************************************************)
(* Proofs about RelayRotation, for any number of requests, conversations,    *)
(* relays and settings: a conversation keeps its member once every request   *)
(* works with the present settings; the indices of the selector stay inside; *)
(* what a request tries is its aggregate's members, each once; and the       *)
(* rotation by request and by weight gives each member its share.            *)
(*                                                                           *)
(* There are three inductive invariants, one on top of the other: IInv (the  *)
(* shape of the selector), CandidatesInv (the lists of relays under way) and *)
(* ShareInv (how the history of selections divides into full turns).         *)
(*                                                                           *)
(* And, from "Text: ..." on, about the other half of the relay's work, the   *)
(* conversion of its streamed answers (StreamConversion), for any number of  *)
(* tool calls and any chunks: indices, arguments, complete answers, and what *)
(* is shown of a content that is cut into pieces.                            *)
(*****************************************************************************)
EXTENDS RelayRotation, StreamConversion, SequenceTheorems, FiniteSetTheorems, WellFoundedInduction, TLAPS

(* The requests and what they read.                                          *)
RequestsTyped ==
    /\ settings \in AllSettings
    /\ cfg \in [Requests -> AllSettings]
    /\ pc \in [Requests -> {"idle", "loaded", "trying"}]
    /\ conv \in [Requests -> Conversations \cup {NoConversation}]

(* A selector as the code builds it: one strategy uses the weighted index,   *)
(* one the assignments.                                                      *)
IsSelector(sel) ==
    /\ sel = [agg |-> sel.agg, failover |-> sel.failover, round |-> sel.round,
              weighted |-> sel.weighted, assigned |-> sel.assigned]
    /\ sel.agg \in AllSettings /\ IsAggregate(sel.agg)
    /\ sel.assigned \in [Conversations -> Relays \cup {NoRelay}]
    /\ sel.agg.strategy # "weighted" => sel.weighted = 0
    /\ sel.agg.strategy # "conversation" => \A c \in Conversations : sel.assigned[c] = NoRelay

(* Both indices into the members name one of them.                           *)
IndexesInside(sel) ==
    /\ sel.failover \in Nat /\ sel.failover < Len(sel.agg.members)
    /\ sel.round \in Nat /\ sel.round < Len(sel.agg.members)

(* The inductive invariant.                                                  *)
IInv ==
    /\ RequestsTyped
    /\ selector # NoSelector => IsSelector(selector) /\ IndexesInside(selector)

(* In every selector the next for a failover and the next in the round are   *)
(* members.                                                                  *)
IndexesStayInside == selector # NoSelector => IndexesInside(selector)

(* What the assumption says of one value of the settings.                    *)
LEMMA SettingsTyped ==
    ASSUME NEW s \in AllSettings
    PROVE  /\ s.strategy \in Strategies /\ s.members \in Seq(Member)
           /\ Len(s.members) \in Nat \ {0}
  <1>1. /\ s \in [strategy : Strategies, members : Seq(Member), complete : BOOLEAN]
        /\ s.members # << >>
    BY RotationAssumption
  <1> QED BY <1>1

(* An index that moves on by one and wraps round stays inside.               *)
LEMMA WrapStaysInside ==
    ASSUME NEW n \in Nat \ {0}, NEW i \in Nat
    PROVE  (i + 1) % n \in Nat /\ (i + 1) % n < n
  OBVIOUS

(* A new selector is one.                                                    *)
LEMMA NewIsSelector ==
    ASSUME NEW s \in AllSettings, IsAggregate(s)
    PROVE  IsSelector(NewSelector(s)) /\ IndexesInside(NewSelector(s)) /\ NewSelector(s).agg = s
  <1>1. IsSelector(NewSelector(s)) /\ NewSelector(s).agg = s
    BY DEF IsSelector, NewSelector
  <1>2. IndexesInside(NewSelector(s))
    BY SettingsTyped DEF IndexesInside, NewSelector
  <1> QED BY <1>1, <1>2

(* A selection leaves the aggregate and every member a conversation has.     *)
LEMMA SelectionKeeps ==
    ASSUME NEW sel, IsSelector(sel), IndexesInside(sel),
           NEW c \in Conversations \cup {NoConversation}
    PROVE  LET after == SelectFrom(sel, c).after
           IN  /\ IsSelector(after) /\ IndexesInside(after)
               /\ after.agg = sel.agg
               /\ \A d \in Conversations :
                     sel.assigned[d] # NoRelay => after.assigned[d] = sel.assigned[d]
  <1> DEFINE Kept(after) ==
               /\ IsSelector(after) /\ IndexesInside(after)
               /\ after.agg = sel.agg
               /\ \A d \in Conversations :
                     sel.assigned[d] # NoRelay => after.assigned[d] = sel.assigned[d]
  <1>1. sel.agg.strategy \in {"failover", "conversation", "request", "weighted"}
    BY SettingsTyped DEF IsSelector, Strategies, IsAggregate
  <1>2. Kept(sel)
    OBVIOUS
  <1>3. Kept(NextInRound(sel).after) /\ NextInRound(sel).after.assigned = sel.assigned
    <2> DEFINE next == [sel EXCEPT !.round = (@ + 1) % Len(sel.agg.members)]
    <2>1. NextInRound(sel).after = next
      BY DEF NextInRound
    <2>2. (sel.round + 1) % Len(sel.agg.members) \in Nat
          /\ (sel.round + 1) % Len(sel.agg.members) < Len(sel.agg.members)
      BY SettingsTyped, WrapStaysInside DEF IsSelector, IndexesInside
    <2>3. IsSelector(next) /\ next.agg = sel.agg /\ next.assigned = sel.assigned
      BY DEF IsSelector
    <2>4. IndexesInside(next)
      BY <2>2 DEF IsSelector, IndexesInside
    <2> QED BY <2>1, <2>3, <2>4
  <1>4. CASE sel.agg.strategy = "weighted"
    <2>1. Kept(NextWeighted(sel).after)
      BY <1>4 DEF NextWeighted, IsSelector, IndexesInside
    <2> QED BY <1>4, <2>1 DEF SelectFrom
  <1>5. CASE sel.agg.strategy = "conversation"
    <2>1. CASE c = NoConversation
      BY <2>1, <1>3, <1>5 DEF SelectFrom, NextForConversation
    <2>2. CASE c # NoConversation /\ sel.assigned[c] # NoRelay
      BY <2>2, <1>2, <1>5 DEF SelectFrom, NextForConversation
    <2>3. CASE c # NoConversation /\ sel.assigned[c] = NoRelay
      <3> DEFINE in == NextInRound(sel)
                 out == [in.after EXCEPT !.assigned[c] = in.relay]
      <3>1. SelectFrom(sel, c).after = out
        BY <1>5, <2>3 DEF SelectFrom, NextForConversation, NextInRound
      <3>2. in.relay \in Relays
        <4>1. /\ (sel.round % Len(sel.agg.members)) + 1 \in DOMAIN sel.agg.members
              /\ sel.agg.members \in Seq(Member)
          BY SettingsTyped DEF IsSelector, IndexesInside
        <4>2. sel.agg.members[(sel.round % Len(sel.agg.members)) + 1] \in Member
          BY <4>1
        <4> QED BY <4>2 DEF NextInRound, MemberAt, Member
      <3>3. IsSelector(out) /\ out.agg = sel.agg /\ IndexesInside(out)
        BY <1>3, <1>5, <2>3, <3>2 DEF IsSelector, IndexesInside
      <3>4. \A d \in Conversations : sel.assigned[d] # NoRelay => out.assigned[d] = sel.assigned[d]
        BY <1>3, <2>3 DEF IsSelector
      <3> QED BY <3>1, <3>3, <3>4
    <2> QED BY <2>1, <2>2, <2>3
  <1> QED BY <1>1, <1>2, <1>3, <1>4, <1>5 DEF SelectFrom

(* What a request or a probe works on is a selector of the settings it read. *)
LEMMA CurrentIsSelector ==
    ASSUME IInv, NEW s \in AllSettings, IsAggregate(s)
    PROVE  /\ IsSelector(Current(s)) /\ IndexesInside(Current(s))
           /\ Fits(selector, s) => Current(s) = selector
  BY NewIsSelector DEF Current, Fits, IInv

(* The first state.                                                          *)
LEMMA InitIInv == Init => IInv
  BY RotationAssumption DEF Init, IInv, RequestsTyped

(* A reported failure moves the failover index on, inside the members.       *)
LEMMA ReportKeeps ==
    ASSUME IInv, NEW s
    PROVE  /\ Reported(s) # NoSelector => IsSelector(Reported(s)) /\ IndexesInside(Reported(s))
           /\ IsAggregate(s) /\ selector # NoSelector =>
                 Reported(s).agg = selector.agg /\ Reported(s).assigned = selector.assigned
  <1> DEFINE moved == [selector EXCEPT !.failover = (@ + 1) % Len(selector.agg.members)]
  <1>1. ASSUME selector # NoSelector
        PROVE  IsSelector(moved) /\ IndexesInside(moved) /\ moved.agg = selector.agg
               /\ moved.assigned = selector.assigned
    <2>1. (selector.failover + 1) % Len(selector.agg.members) \in Nat
          /\ (selector.failover + 1) % Len(selector.agg.members) < Len(selector.agg.members)
      BY <1>1, SettingsTyped, WrapStaysInside DEF IInv, IsSelector, IndexesInside
    <2>2. IsSelector(moved) /\ moved.agg = selector.agg /\ moved.assigned = selector.assigned
      BY <1>1 DEF IInv, IsSelector
    <2>3. IndexesInside(moved)
      BY <1>1, <2>1 DEF IInv, IsSelector, IndexesInside
    <2> QED BY <2>2, <2>3
  <1> QED BY <1>1 DEF Reported, IInv

(* The invariant is inductive.                                               *)
LEMMA StepKeepsIInv == IInv /\ [Next]_vars => IInv'
  <1> SUFFICES ASSUME IInv, [Next]_vars PROVE IInv'
    OBVIOUS
  <1>1. RequestsTyped'
    <2>1. CASE UNCHANGED vars
      BY <2>1 DEF vars, proxy, request, IInv, RequestsTyped
    <2>2. ASSUME NEW s \in AllSettings, Save(s) PROVE RequestsTyped'
      BY <2>2 DEF Save, request, IInv, RequestsTyped
    <2>3. CASE Probe
      BY <2>3 DEF Probe, request, IInv, RequestsTyped
    <2>4. ASSUME NEW r \in Requests, Receive(r) PROVE RequestsTyped'
      BY <2>4 DEF Receive, IInv, RequestsTyped
    <2>5. ASSUME NEW r \in Requests, NEW relays, Try(r, relays), settings' = settings
          PROVE  RequestsTyped'
      BY <2>5 DEF Try, IInv, RequestsTyped
    <2>6. ASSUME NEW r \in Requests, Return(r), settings' = settings PROVE RequestsTyped'
      BY <2>6, RotationAssumption DEF Return, IInv, RequestsTyped
    <2>7. ASSUME NEW r \in Requests, SelectSingle(r) \/ SelectRouted(r) \/ SelectMember(r)
          PROVE  RequestsTyped'
      BY <2>5, <2>7 DEF SelectSingle, SelectRouted, SelectMember, proxy
    <2>8. ASSUME NEW r \in Requests, SelectRefused(r) \/ Succeed(r) \/ Abort(r) PROVE RequestsTyped'
      BY <2>6, <2>8 DEF SelectRefused, Succeed, Abort, proxy
    <2>9. ASSUME NEW r \in Requests, Fail(r) PROVE RequestsTyped'
      BY <2>6, <2>9 DEF Fail, IInv, RequestsTyped
    <2> QED BY <2>1, <2>2, <2>3, <2>4, <2>7, <2>8, <2>9 DEF Next
  <1>2. selector' # NoSelector => IsSelector(selector') /\ IndexesInside(selector')
    <2>1. CASE selector' \in {selector, NoSelector}
      BY <2>1 DEF IInv
    <2>2. CASE Probe
      BY <2>2, CurrentIsSelector DEF Probe, IInv, RequestsTyped
    <2>3. ASSUME NEW r \in Requests, SelectMember(r)
          PROVE  IsSelector(selector') /\ IndexesInside(selector')
      <3>1. /\ cfg[r] \in AllSettings /\ IsAggregate(cfg[r])
            /\ conv[r] \in Conversations \cup {NoConversation}
        BY <2>3 DEF SelectMember, IInv, RequestsTyped
      <3>2. selector' = SelectFrom(Current(cfg[r]), conv[r]).after
        BY <2>3 DEF SelectMember
      <3> QED BY <3>1, <3>2, CurrentIsSelector, SelectionKeeps
    <2>4. ASSUME NEW r \in Requests, Fail(r)
          PROVE  selector' # NoSelector => IsSelector(selector') /\ IndexesInside(selector')
      BY <2>4, ReportKeeps DEF Fail
    <2>5. ASSUME NEW r \in Requests, Succeed(r) PROVE selector' \in {selector, NoSelector}
      BY <2>5 DEF Succeed
    <2>6. ASSUME NEW r \in Requests, Receive(r) \/ SelectSingle(r) \/ SelectRouted(r)
                                    \/ SelectRefused(r) \/ Abort(r)
          PROVE selector' \in {selector, NoSelector}
      BY <2>6 DEF Receive, SelectSingle, SelectRouted, SelectRefused, Abort, proxy
    <2>7. ASSUME NEW s \in AllSettings, Save(s) PROVE selector' = selector
      BY <2>7 DEF Save
    <2>8. CASE UNCHANGED vars
      BY <2>1, <2>8 DEF vars, proxy
    <2> QED BY <2>1, <2>2, <2>3, <2>4, <2>5, <2>6, <2>7, <2>8 DEF Next
  <1> QED BY <1>1, <1>2 DEF IInv

(* It holds in every reachable state.                                        *)
THEOREM IInvHolds == Spec => []IInv
  <1> QED BY InitIInv, StepKeepsIInv, PTL DEF Spec

(* Whatever is saved, probed and reported meanwhile, the failover and the    *)
(* round index of the selector (relay_rotation.rs) name members of its       *)
(* aggregate.                                                                *)
THEOREM IndexesNameMembers == Spec => []IndexesStayInside
  <1>1. IInv => IndexesStayInside
    BY DEF IInv, IndexesStayInside
  <1> QED BY <1>1, IInvHolds, PTL

(* Once every request under way has read the present settings, a             *)
(* conversation keeps the member it was given: no selection, probe, report   *)
(* or answer takes it away.                                                  *)
THEOREM ConversationStays == Spec => SettledConversationKeepsMember
  <1>1. ASSUME IInv, [Next]_vars, \A r \in Requests : Settled(r), NEW c \in Conversations,
               Fits(selector, settings), settings' = settings, selector.assigned[c] # NoRelay
        PROVE  Fits(selector', settings) /\ selector'.assigned[c] = selector.assigned[c]
    <2>1. selector # NoSelector /\ IsSelector(selector) /\ selector.agg.strategy = "conversation"
      BY <1>1 DEF Fits, IInv, IsSelector
    <2>2. IsAggregate(settings)
      BY <1>1, <2>1 DEF Fits, IsAggregate
    <2>3. ASSUME NEW r \in Requests, pc[r] # "idle" PROVE cfg[r] = settings
      BY <1>1, <2>3 DEF Settled
    <2>4. CASE selector' = selector
      BY <1>1, <2>4
    <2>5. CASE Probe
      BY <1>1, <2>2, <2>4, <2>5, CurrentIsSelector DEF Probe, IInv, RequestsTyped
    <2>6. ASSUME NEW sel, IsSelector(sel), IndexesInside(sel), sel.agg = selector.agg,
                 sel.assigned[c] = selector.assigned[c], selector' = sel
          PROVE  Fits(selector', settings) /\ selector'.assigned[c] = selector.assigned[c]
      <3>1. sel \in Selector
        BY <2>1, <2>6 DEF IsSelector, IndexesInside, Selector
      <3> QED BY <1>1, <2>6, <3>1, RotationAssumption DEF Fits
    <2>7. ASSUME NEW r \in Requests, SelectMember(r)
          PROVE  Fits(selector', settings) /\ selector'.assigned[c] = selector.assigned[c]
      <3>1. cfg[r] = settings /\ conv[r] \in Conversations \cup {NoConversation}
        BY <2>3, <2>7, <1>1 DEF SelectMember, IInv, RequestsTyped
      <3>2. selector' = SelectFrom(selector, conv[r]).after
        BY <1>1, <2>7, <3>1 DEF SelectMember, Current
      <3> QED BY <1>1, <2>1, <2>6, <3>1, <3>2, SelectionKeeps DEF IInv
    <2>8. ASSUME NEW r \in Requests, Fail(r)
          PROVE  Fits(selector', settings) /\ selector'.assigned[c] = selector.assigned[c]
      <3>1. selector' = selector
        BY <2>1, <2>2, <2>3, <2>8 DEF Fail, Reported
      <3> QED BY <2>4, <3>1
    <2>9. ASSUME NEW r \in Requests, SelectSingle(r) \/ Succeed(r) PROVE selector' = selector
      BY <2>2, <2>3, <2>9 DEF SelectSingle, Succeed
    <2>10. ASSUME NEW r \in Requests, Receive(r) \/ SelectRouted(r) \/ SelectRefused(r) \/ Abort(r)
           PROVE  selector' = selector
      BY <2>10 DEF Receive, SelectRouted, SelectRefused, Abort, proxy
    <2>11. ASSUME NEW s \in AllSettings, Save(s) PROVE selector' = selector
      BY <2>11 DEF Save
    <2>12. CASE UNCHANGED vars
      BY <2>4, <2>12 DEF vars, proxy
    <2> QED BY <1>1, <2>4, <2>5, <2>7, <2>8, <2>9, <2>10, <2>11, <2>12 DEF Next
  <1>2. IInv /\ [Next]_vars => [(\A r \in Requests : Settled(r)) => KeepsMembers]_vars
    BY <1>1 DEF KeepsMembers
  <1> QED BY <1>2, IInvHolds, PTL DEF Spec, SettledConversationKeepsMember

(*****************************************************************************)
(* The turns of a selector.  What a recursive function computes is shown by   *)
(* induction over the numbers, which is a fact about sets of them here.       *)
(*****************************************************************************)
LEMMA NaturalInduction ==
    ASSUME NEW S \in SUBSET Nat, 0 \in S, \A n \in S : n + 1 \in S
    PROVE  S = Nat
  <1> DEFINE R == OpToRel(<, Nat)
             rest == Nat \ S
  <1> SUFFICES ASSUME rest # {} PROVE FALSE
    OBVIOUS
  <1>1. IsWellFoundedOn(R, Nat)
    BY NatLessThanWellFounded
  <1>2. \A x, y \in Nat : y < x => <<y, x>> \in R
    BY DEF OpToRel
  <1> HIDE DEF R
  <1>3. \E x \in rest : \A y \in rest : ~ (<<y, x>> \in R)
    BY <1>1, WFMin
  <1>4. PICK x \in rest : \A y \in rest : ~ (<<y, x>> \in R)
    BY <1>3
  <1>5. x \in Nat /\ x # 0
    OBVIOUS
  <1>6. x - 1 \in Nat /\ x - 1 < x /\ (x - 1) + 1 = x
    BY <1>5
  <1>7. x - 1 \in S
    BY <1>2, <1>4, <1>5, <1>6
  <1> QED BY <1>4, <1>6, <1>7

(* The turns of one member in a row, and the schedule up to a member.         *)
Turns(m) == [k \in 1..Weight(m) |-> m.relay]
IsSpread(f, ms, n) == f = [i \in 0..n |-> IF i = 0 THEN << >> ELSE f[i - 1] \o Turns(ms[i])]

(* There is such a function.                                                  *)
LEMMA SpreadExists == ASSUME NEW ms, NEW n \in Nat PROVE \E f : IsSpread(f, ms, n)
  <1> DEFINE S == {k \in Nat : \E f : IsSpread(f, ms, k)}
  <1>1. 0 \in S
    <2>1. IsSpread([i \in 0..0 |-> << >>], ms, 0)
      BY DEF IsSpread
    <2> QED BY <2>1
  <1>2. ASSUME NEW k \in S PROVE k + 1 \in S
    <2>0. k \in Nat
      OBVIOUS
    <2>1. PICK f : IsSpread(f, ms, k)
      OBVIOUS
    <2> HIDE DEF S
    <2> DEFINE g == [i \in 0..(k + 1) |-> IF i = 0 THEN << >> ELSE f[i - 1] \o Turns(ms[i])]
    <2>2. \A i \in 0..k : f[i] = IF i = 0 THEN << >> ELSE f[i - 1] \o Turns(ms[i])
      BY <2>1 DEF IsSpread
    <2>3. \A i \in 0..k : i \in 0..(k + 1) /\ g[i] = f[i]
      BY <2>0, <2>2
    <2>4. \A i \in 0..(k + 1) : i # 0 => i - 1 \in 0..k
      BY <2>0
    <2>5. \A i \in 0..(k + 1) :
             (IF i = 0 THEN << >> ELSE f[i - 1] \o Turns(ms[i]))
                 = (IF i = 0 THEN << >> ELSE g[i - 1] \o Turns(ms[i]))
      <3> HIDE DEF g
      <3> QED BY <2>3, <2>4
    <2>6. g = [i \in 0..(k + 1) |-> IF i = 0 THEN << >> ELSE g[i - 1] \o Turns(ms[i])]
      BY <2>5, Zenon
    <2> HIDE DEF g
    <2>7. IsSpread(g, ms, k + 1)
      BY <2>6 DEF IsSpread
    <2> QED BY <2>0, <2>7 DEF S
  <1> HIDE DEF S
  <1>3. S = Nat
    <2>1. S \in SUBSET Nat
      BY DEF S
    <2> QED BY <1>1, <1>2, <2>1, NaturalInduction
  <1> QED BY <1>3 DEF S

(* weighted_schedule is what has been spread when all members are through.     *)
LEMMA ScheduleIsSpread ==
    ASSUME NEW ms \in Seq(Member)
    PROVE  \E f : IsSpread(f, ms, Len(ms)) /\ Schedule(ms) = f[Len(ms)]
  <1>1. Schedule(ms) = (CHOOSE f : IsSpread(f, ms, Len(ms)))[Len(ms)]
    BY DEF Schedule, IsSpread, Turns
  <1>2. Len(ms) \in Nat
    OBVIOUS
  <1>3. \E f : IsSpread(f, ms, Len(ms))
    BY <1>2, SpreadExists
  <1> QED BY <1>1, <1>3

(* How often a relay is among the first of a sequence of turns.               *)
TurnsOf(q, m, k) == {i \in 1..k : q[i] = m}
Share(q, m, k) == Cardinality(TurnsOf(q, m, k))

(* The turns that are counted are finitely many.                              *)
LEMMA TurnsAreFinite ==
    ASSUME NEW q, NEW m, NEW k \in Nat
    PROVE  IsFiniteSet(TurnsOf(q, m, k))
  <1>1. IsFiniteSet(1..k) /\ TurnsOf(q, m, k) \subseteq 1..k
    BY FS_Interval DEF TurnsOf
  <1> QED BY <1>1, FS_Subset

(* A share is a number, and of no turns it is nothing.                        *)
LEMMA ShareIsNat ==
    ASSUME NEW q, NEW m, NEW k \in Nat
    PROVE  Share(q, m, 0) = 0 /\ Share(q, m, k) \in Nat
  <1>1. TurnsOf(q, m, 0) = {}
    BY DEF TurnsOf
  <1>2. IsFiniteSet(TurnsOf(q, m, k))
    BY TurnsAreFinite
  <1> QED BY <1>1, <1>2, FS_EmptySet, FS_CardinalityType DEF Share

(* One more turn is one more for its relay and for no other.                  *)
LEMMA ShareGrows ==
    ASSUME NEW q, NEW m, NEW k \in Nat
    PROVE  /\ Share(q, q[k + 1], k + 1) = Share(q, q[k + 1], k) + 1
           /\ m # q[k + 1] => Share(q, m, k + 1) = Share(q, m, k)
  <1>1. ASSUME NEW y PROVE IsFiniteSet(TurnsOf(q, y, k))
    BY TurnsAreFinite
  <1>2. PICK x : x = q[k + 1]
    OBVIOUS
  <1>3. TurnsOf(q, x, k + 1) = TurnsOf(q, x, k) \cup {k + 1} /\ k + 1 \notin TurnsOf(q, x, k)
    BY <1>2 DEF TurnsOf
  <1>4. Share(q, x, k + 1) = Share(q, x, k) + 1
    BY <1>1, <1>3, FS_AddElement DEF Share
  <1>5. m # x => TurnsOf(q, m, k + 1) = TurnsOf(q, m, k)
    BY <1>2 DEF TurnsOf
  <1> QED BY <1>2, <1>4, <1>5 DEF Share

(* A part of the turns has no more than all.                                  *)
LEMMA ShareIsMonotonic ==
    ASSUME NEW q, NEW m, NEW k \in Nat, NEW n \in Nat, k <= n
    PROVE  Share(q, m, k) <= Share(q, m, n)
  <1>1. /\ IsFiniteSet(1..n) /\ TurnsOf(q, m, n) \subseteq 1..n
        /\ TurnsOf(q, m, k) \subseteq TurnsOf(q, m, n)
    BY FS_Interval DEF TurnsOf
  <1> QED BY <1>1, FS_Subset DEF Share

(* The first l turns are the same; the w turns after the first l are x's.     *)
SameUpTo(q, r, l) == \A i \in 1..l : r[i] = q[i]
AllFrom(r, l, w, x) == \A n \in Nat : n < w => r[(l + n) + 1] = x

(* What follows with turns of one relay adds to its share and to no other.     *)
LEMMA ShareOfMore ==
    ASSUME NEW q, NEW r, NEW m, NEW x, NEW l \in Nat, NEW w \in Nat,
           SameUpTo(q, r, l), AllFrom(r, l, w, x)
    PROVE  /\ Share(r, x, l + w) = Share(q, x, l) + w
           /\ x # m => Share(r, m, l + w) = Share(q, m, l)
  <1>1. Share(q, x, l) \in Nat
    BY ShareIsNat
  <1>2. ASSUME NEW y PROVE Share(r, y, l) = Share(q, y, l)
    <2>1. TurnsOf(r, y, l) = TurnsOf(q, y, l)
      BY DEF TurnsOf, SameUpTo
    <2> QED BY <2>1 DEF Share
  <1>3. ASSUME NEW n \in Nat, n < w
        PROVE  /\ Share(r, x, (l + n) + 1) = Share(r, x, l + n) + 1
               /\ x # m => Share(r, m, (l + n) + 1) = Share(r, m, l + n)
    <2>1. l + n \in Nat /\ r[(l + n) + 1] = x
      BY <1>3 DEF AllFrom
    <2>2. /\ Share(r, r[(l + n) + 1], (l + n) + 1) = Share(r, r[(l + n) + 1], l + n) + 1
          /\ m # r[(l + n) + 1] => Share(r, m, (l + n) + 1) = Share(r, m, l + n)
      BY <2>1, ShareGrows
    <2> QED BY <2>1, <2>2
  <1> DEFINE Mine(n) == Share(r, x, l + n) = Share(q, x, l) + n
             Other(n) == x # m => Share(r, m, l + n) = Share(q, m, l)
             S == {n \in Nat : n <= w => Mine(n) /\ Other(n)}
  <1>4. 0 \in S
    BY <1>1, <1>2
  <1>5. ASSUME NEW n \in S PROVE n + 1 \in S
    <2>1. SUFFICES ASSUME n + 1 <= w PROVE Mine(n + 1) /\ Other(n + 1)
      OBVIOUS
    <2>2. n \in Nat /\ n < w /\ n <= w /\ l + (n + 1) = (l + n) + 1
      BY <2>1
    <2>3. Mine(n) /\ Other(n)
      BY <2>2
    <2> QED BY <1>1, <1>3, <2>2, <2>3
  <1>6. w \in S
    <2>1. S \in SUBSET Nat
      OBVIOUS
    <2> HIDE DEF S
    <2>2. S = Nat
      BY <1>4, <1>5, <2>1, NaturalInduction
    <2> QED BY <2>2
  <1> QED BY <1>6

(* The turns that are appended for a member are its own and nobody else's.     *)
LEMMA ShareOfTurns ==
    ASSUME NEW q \in Seq(Relays), NEW x \in Relays, NEW w \in Nat, NEW m \in Relays
    PROVE  LET all == Share(q \o [k \in 1..w |-> x], m, Len(q) + w)
           IN  /\ x = m => all = Share(q, m, Len(q)) + w
               /\ x # m => all = Share(q, m, Len(q))
  <1>1. PICK t : t = [k \in 1..w |-> x]
    OBVIOUS
  <1>2. PICK r : r = q \o t
    OBVIOUS
  <1>3. Len(q) \in Nat /\ t \in Seq(Relays) /\ Len(t) = w /\ \A i \in 1..w : t[i] = x
    BY <1>1
  <1>4. \A i \in 1..(Len(q) + w) : r[i] = IF i <= Len(q) THEN q[i] ELSE t[i - Len(q)]
    BY <1>2, <1>3, ConcatProperties
  <1>5. SameUpTo(q, r, Len(q))
    BY <1>3, <1>4 DEF SameUpTo
  <1>6. AllFrom(r, Len(q), w, x)
    <2> SUFFICES ASSUME NEW n \in Nat, n < w PROVE r[(Len(q) + n) + 1] = x
      BY DEF AllFrom
    <2>1. /\ (Len(q) + n) + 1 \in 1..(Len(q) + w) /\ ~((Len(q) + n) + 1 <= Len(q))
          /\ ((Len(q) + n) + 1) - Len(q) \in 1..w
      BY <1>3
    <2> QED BY <1>3, <1>4, <2>1
  <1>7. PICK l \in Nat : l = Len(q)
    BY <1>3
  <1>8. /\ Share(r, x, l + w) = Share(q, x, l) + w
        /\ x # m => Share(r, m, l + w) = Share(q, m, l)
    BY <1>5, <1>6, <1>7, ShareOfMore
  <1> QED BY <1>1, <1>2, <1>7, <1>8

(* weighted_schedule: turns of members only, at least one, and each member's   *)
(* share of them is its weight.                                               *)
LEMMA ScheduleIsFair ==
    ASSUME NEW ms \in Seq(Member), ms # << >>, DistinctMembers(ms)
    PROVE  /\ Schedule(ms) \in Seq(Relays)
           /\ Len(Schedule(ms)) \in Nat \ {0}
           /\ \A i \in 1..Len(Schedule(ms)) : \E j \in 1..Len(ms) : Schedule(ms)[i] = ms[j].relay
           /\ \A j \in 1..Len(ms) :
                 Share(Schedule(ms), ms[j].relay, Len(Schedule(ms))) = Weight(ms[j])
  <1>1. PICK f : IsSpread(f, ms, Len(ms)) /\ Schedule(ms) = f[Len(ms)]
    BY ScheduleIsSpread
  <1>2. /\ Len(ms) \in Nat \ {0} /\ DOMAIN ms = 1..Len(ms)
        /\ \A j \in 1..Len(ms) : ms[j].relay \in Relays /\ Weight(ms[j]) \in Nat \ {0}
    <2>1. Len(ms) \in Nat \ {0} /\ DOMAIN ms = 1..Len(ms)
      BY EmptySeq
    <2>2. \A j \in 1..Len(ms) : ms[j] \in Member
      BY ElementOfSeq
    <2>3. \A x \in Member : x.relay \in Relays /\ Weight(x) \in Nat \ {0}
      BY DEF Member, Weight
    <2> QED BY <2>1, <2>2, <2>3
  <1>3. f[0] = << >> /\ \A i \in 1..Len(ms) : f[i] = f[i - 1] \o Turns(ms[i])
    BY <1>1, <1>2 DEF IsSpread
  <1> DEFINE Good(n) ==
               /\ f[n] \in Seq(Relays) /\ Len(f[n]) >= n
               /\ \A i \in 1..Len(f[n]) : \E j \in 1..Len(ms) : f[n][i] = ms[j].relay
               /\ \A j \in 1..Len(ms) :
                     Share(f[n], ms[j].relay, Len(f[n])) = IF j <= n THEN Weight(ms[j]) ELSE 0
             S == {n \in Nat : n <= Len(ms) => Good(n)}
  <1>4. 0 \in S
    <2>1. f[0] \in Seq(Relays) /\ Len(f[0]) = 0
      BY <1>3
    <2>2. \A j \in 1..Len(ms) : Share(f[0], ms[j].relay, 0) = 0 /\ ~(j <= 0)
      BY <1>2, ShareIsNat
    <2> QED BY <2>1, <2>2
  <1>5. ASSUME NEW n \in S PROVE n + 1 \in S
    <2>1. SUFFICES ASSUME n + 1 <= Len(ms) PROVE Good(n + 1)
      OBVIOUS
    <2>2. n \in Nat /\ n + 1 \in 1..Len(ms) /\ (n + 1) - 1 = n /\ Good(n)
      BY <1>2, <2>1
    <2> DEFINE t == Turns(ms[n + 1])
               w == Weight(ms[n + 1])
               x == ms[n + 1].relay
    <2>3. f[n + 1] = f[n] \o t
      BY <1>3, <2>2
    <2>4. w \in Nat \ {0} /\ x \in Relays /\ t = [k \in 1..w |-> x]
      BY <1>2, <2>2 DEF Turns
    <2>5. t \in Seq(Relays) /\ Len(t) = w /\ \A i \in 1..w : t[i] = x
      BY <2>4
    <2> HIDE DEF t, w, x
    <2>6. /\ f[n] \in Seq(Relays) /\ Len(f[n]) \in Nat /\ Len(f[n]) >= n
          /\ f[n + 1] \in Seq(Relays) /\ Len(f[n + 1]) = Len(f[n]) + w
          /\ \A i \in 1..(Len(f[n]) + w) :
                f[n + 1][i] = IF i <= Len(f[n]) THEN f[n][i] ELSE t[i - Len(f[n])]
      BY <2>2, <2>3, <2>4, <2>5, ConcatProperties
    <2>7. Len(f[n + 1]) >= n + 1
      BY <2>2, <2>4, <2>6
    <2>8. \A i \in 1..Len(f[n + 1]) : \E j \in 1..Len(ms) : f[n + 1][i] = ms[j].relay
      <3> SUFFICES ASSUME NEW i \in 1..Len(f[n + 1])
                   PROVE  \E j \in 1..Len(ms) : f[n + 1][i] = ms[j].relay
        OBVIOUS
      <3>1. CASE i <= Len(f[n])
        <4>1. i \in 1..Len(f[n]) /\ f[n + 1][i] = f[n][i]
          BY <2>6, <3>1
        <4> QED BY <2>2, <4>1
      <3>2. CASE ~(i <= Len(f[n]))
        <4>0. Len(f[n]) \in Nat /\ w \in Nat /\ i \in 1..(Len(f[n]) + w)
          BY <2>2, <2>4, <2>6
        <4>1. i - Len(f[n]) \in 1..w /\ f[n + 1][i] = t[i - Len(f[n])]
          BY <4>0, <2>6, <3>2
        <4>2. f[n + 1][i] = x
          BY <2>5, <4>1
        <4> QED BY <2>2, <4>2 DEF x
      <3> QED BY <3>1, <3>2
    <2>9. \A j \in 1..Len(ms) :
             Share(f[n + 1], ms[j].relay, Len(f[n + 1])) = IF j <= n + 1 THEN Weight(ms[j]) ELSE 0
      <3> SUFFICES ASSUME NEW j \in 1..Len(ms)
                   PROVE  Share(f[n + 1], ms[j].relay, Len(f[n + 1]))
                              = IF j <= n + 1 THEN Weight(ms[j]) ELSE 0
        OBVIOUS
      <3>1. LET all == Share(f[n + 1], ms[j].relay, Len(f[n + 1]))
            IN  /\ x = ms[j].relay => all = Share(f[n], ms[j].relay, Len(f[n])) + w
                /\ x # ms[j].relay => all = Share(f[n], ms[j].relay, Len(f[n]))
        <4>1. w \in Nat /\ ms[j].relay \in Relays /\ f[n + 1] = f[n] \o [k \in 1..w |-> x]
          BY <1>2, <2>3, <2>4
        <4>2. LET all == Share(f[n] \o [k \in 1..w |-> x], ms[j].relay, Len(f[n]) + w)
              IN  /\ x = ms[j].relay => all = Share(f[n], ms[j].relay, Len(f[n])) + w
                  /\ x # ms[j].relay => all = Share(f[n], ms[j].relay, Len(f[n]))
          <5>1. \A q \in Seq(Relays) : \A y \in Relays :
                   LET all == Share(q \o [k \in 1..w |-> x], y, Len(q) + w)
                   IN  /\ x = y => all = Share(q, y, Len(q)) + w
                       /\ x # y => all = Share(q, y, Len(q))
            BY <2>4, <4>1, ShareOfTurns
          <5> QED BY <2>6, <4>1, <5>1
        <4> QED BY <2>6, <4>1, <4>2
      <3>2. x = ms[j].relay <=> j = n + 1
        BY <1>2, <2>2 DEF DistinctMembers, x
      <3>3. Share(f[n], ms[j].relay, Len(f[n])) = IF j <= n THEN Weight(ms[j]) ELSE 0
        BY <2>2
      <3> QED BY <1>2, <2>2, <3>1, <3>2, <3>3 DEF w
    <2> QED BY <2>6, <2>7, <2>8, <2>9
  <1> HIDE DEF S
  <1>6. S = Nat
    <2>1. S \in SUBSET Nat
      BY DEF S
    <2> QED BY <1>4, <1>5, <2>1, NaturalInduction
  <1>7. Good(Len(ms))
    <2>1. Len(ms) \in S
      BY <1>2, <1>6
    <2> QED BY <2>1 DEF S
  <1> QED BY <1>1, <1>2, <1>7

(*****************************************************************************)
(* Candidates: what a request has tried and has still to try.                *)
(*****************************************************************************)

(* The selector's place in its schedule exists, and a conversation's relay    *)
(* is a member of the aggregate.                                              *)
SelectsMembers(sel) ==
    /\ sel.weighted \in Nat /\ sel.weighted < Len(Schedule(sel.agg.members))
    /\ \A c \in Conversations : sel.assigned[c] \in MemberRelays(sel.agg) \cup {NoRelay}

(* The relays are the members of the settings, each exactly once.             *)
Covers(relays, s) == Len(relays) = Len(s.members) /\ Range(relays) = MemberRelays(s)

(* The second inductive invariant.                                            *)
CandidatesInv ==
    /\ selector # NoSelector => SelectsMembers(selector)
    /\ received \in Nat /\ picked \in [Relays -> Nat] /\ failed \in BOOLEAN
    /\ todo \in [Requests -> Seq(Relays)] /\ tried \in [Requests -> Seq(Relays)]
    /\ \A r \in Requests :
        /\ pc[r] # "trying" => tried[r] = << >>
        /\ pc[r] = "trying" => todo[r] # << >>
        /\ pc[r] = "trying" /\ IsAggregate(cfg[r]) => Covers(tried[r] \o todo[r], cfg[r])

(* What the assumption says of the members in one value of the settings.      *)
LEMMA MembersTyped ==
    ASSUME NEW s \in AllSettings
    PROVE  /\ s.members \in Seq(Member) /\ s.members # << >> /\ DistinctMembers(s.members)
           /\ Len(s.members) \in Nat \ {0} /\ DOMAIN s.members = 1..Len(s.members)
           /\ \A i \in 1..Len(s.members) : s.members[i].relay \in Relays
           /\ MemberRelays(s) \subseteq Relays
  <1>1. /\ s.members \in Seq(Member) /\ s.members # << >> /\ DistinctMembers(s.members)
        /\ Len(s.members) \in Nat \ {0} /\ DOMAIN s.members = 1..Len(s.members)
    BY RotationAssumption, SettingsTyped, LenProperties
  <1>2. \A i \in 1..Len(s.members) : s.members[i] \in Member
    BY <1>1, ElementOfSeq
  <1>3. \A i \in 1..Len(s.members) : s.members[i].relay \in Relays
    BY <1>2 DEF Member
  <1> QED BY <1>1, <1>3 DEF MemberRelays

(* Any index names a member.                                                  *)
LEMMA MemberAtNames ==
    ASSUME NEW s \in AllSettings, NEW i \in Nat
    PROVE  MemberAt(s.members, i) \in MemberRelays(s)
  <1>1. PICK n \in Nat \ {0} : n = Len(s.members)
    BY MembersTyped
  <1>2. (i % n) + 1 \in 1..n
    OBVIOUS
  <1> QED BY <1>1, <1>2, MembersTyped DEF MemberAt, MemberRelays

(* A remainder that is reached with and without a turn of the wheel.          *)
LEMMA Wrapping ==
    ASSUME NEW n \in Nat \ {0}, NEW i \in Nat, i < n
    PROVE  i % n = i /\ (i + n) % n = i
  OBVIOUS

(* The relay that was chosen and its fallbacks are all the members.           *)
LEMMA FallbacksCover ==
    ASSUME NEW s \in AllSettings, NEW x \in MemberRelays(s)
    PROVE  LET all == <<x>> \o Fallbacks(s.members, x)
           IN  all \in Seq(Relays) /\ all # << >> /\ Covers(all, s)
  <1>1. PICK ms : ms = s.members
    OBVIOUS
  <1>2. PICK n \in Nat \ {0} : n = Len(ms) /\ DOMAIN ms = 1..n
    BY <1>1, MembersTyped
  <1>3. DistinctMembers(ms) /\ \A i \in 1..n : ms[i].relay \in Relays
    BY <1>1, <1>2, MembersTyped
  <1>4. MemberRelays(s) = {ms[i].relay : i \in 1..n}
    BY <1>1, <1>2 DEF MemberRelays
  <1>5. PICK at \in 1..n : ms[at].relay = x
    BY <1>4
  <1>6. (CHOOSE i \in DOMAIN ms : ms[i].relay = x) = at
    BY <1>2, <1>3, <1>5 DEF DistinctMembers
  <1>7. PICK f : f = Fallbacks(ms, x)
    OBVIOUS
  <1>8. f = [k \in 1..(n - 1) |-> ms[((at + k - 1) % n) + 1].relay]
    BY <1>2, <1>5, <1>6, <1>7 DEF Fallbacks, MemberAt
  <1>9. \A k \in 1..(n - 1) : ((at + k - 1) % n) + 1 \in 1..n
    <2> SUFFICES ASSUME NEW k \in 1..(n - 1) PROVE ((at + k - 1) % n) + 1 \in 1..n
      OBVIOUS
    <2>1. at + k - 1 \in Nat
      OBVIOUS
    <2> QED BY <2>1
  <1>10. \A k \in 1..(n - 1) : f[k] \in {ms[i].relay : i \in 1..n}
    BY <1>8, <1>9
  <1>11. n - 1 \in Nat /\ f \in Seq(Relays) /\ Len(f) = n - 1
    BY <1>3, <1>8, <1>9
  <1>12. x \in Relays
    BY <1>3, <1>5
  <1>13. PICK all : all = <<x>> \o f
    OBVIOUS
  <1>14. /\ all \in Seq(Relays) /\ Len(all) = n /\ all[1] = x
         /\ \A i \in 2..n : all[i] = f[i - 1]
    BY <1>11, <1>12, <1>13
  <1>15. DOMAIN all = 1..n
    BY <1>14, LenProperties
  <1>16. Range(all) \subseteq {ms[i].relay : i \in 1..n}
    <2> SUFFICES ASSUME NEW i \in 1..n PROVE all[i] \in {ms[j].relay : j \in 1..n}
      BY <1>15 DEF Range
    <2>1. CASE i = 1
      BY <1>5, <1>14, <2>1
    <2>2. CASE i # 1
      <3>1. i \in 2..n /\ i - 1 \in 1..(n - 1)
        BY <2>2
      <3> QED BY <1>10, <1>14, <3>1
    <2> QED BY <2>1, <2>2
  <1>17. ASSUME NEW i \in 1..n PROVE ms[i].relay \in Range(all)
    <2>1. CASE i = at
      <3>1. 1 \in 1..n
        OBVIOUS
      <3> QED BY <1>5, <1>14, <1>15, <2>1, <3>1 DEF Range
    <2>2. ASSUME NEW k \in 1..(n - 1), (at + k - 1) % n = i - 1 PROVE ms[i].relay \in Range(all)
      <3>1. f[k] = ms[i].relay
        <4>1. f[k] = ms[((at + k - 1) % n) + 1].relay
          BY <1>8
        <4>2. (i - 1) + 1 = i
          OBVIOUS
        <4> QED BY <2>2, <4>1, <4>2
      <3>2. k + 1 \in 2..n /\ k + 1 \in 1..n /\ (k + 1) - 1 = k
        OBVIOUS
      <3>3. all[k + 1] = ms[i].relay
        BY <1>14, <3>1, <3>2
      <3> QED BY <1>15, <3>2, <3>3 DEF Range
    <2>3. CASE i > at
      <3>1. i - at \in 1..(n - 1) /\ at + (i - at) - 1 = i - 1 /\ i - 1 \in Nat /\ i - 1 < n
        BY <2>3
      <3> QED BY <2>2, <3>1, Wrapping
    <2>4. CASE i < at
      <3>1. /\ (i - at) + n \in 1..(n - 1) /\ at + ((i - at) + n) - 1 = (i - 1) + n
            /\ i - 1 \in Nat /\ i - 1 < n
        BY <2>4
      <3> QED BY <2>2, <3>1, Wrapping
    <2> QED BY <2>1, <2>3, <2>4
  <1>18. Range(all) = MemberRelays(s)
    BY <1>4, <1>16, <1>17
  <1>19. all # << >>
    BY <1>14
  <1> QED BY <1>1, <1>2, <1>7, <1>13, <1>14, <1>18, <1>19 DEF Covers

(* A selection names a member, and its selector goes on naming members.       *)
LEMMA SelectionNames ==
    ASSUME NEW sel, IsSelector(sel), IndexesInside(sel), SelectsMembers(sel),
           NEW c \in Conversations \cup {NoConversation}
    PROVE  /\ SelectFrom(sel, c).relay \in MemberRelays(sel.agg)
           /\ SelectsMembers(SelectFrom(sel, c).after)
  <1>1. sel.agg \in AllSettings
        /\ sel.agg.strategy \in {"failover", "conversation", "request", "weighted"}
    BY SettingsTyped DEF IsSelector, Strategies, IsAggregate
  <1>2. /\ MemberAt(sel.agg.members, sel.failover) \in MemberRelays(sel.agg)
        /\ NextInRound(sel).relay \in MemberRelays(sel.agg)
    BY <1>1, MemberAtNames DEF IndexesInside, NextInRound
  <1>3. SelectsMembers(NextInRound(sel).after)
    BY DEF NextInRound, SelectsMembers, IsSelector
  <1>4. CASE sel.agg.strategy = "failover"
    BY <1>2, <1>4 DEF SelectFrom
  <1>5. CASE sel.agg.strategy = "request"
    BY <1>2, <1>3, <1>5 DEF SelectFrom
  <1>6. CASE sel.agg.strategy = "weighted"
    <2>1. PICK q : q = Schedule(sel.agg.members)
      OBVIOUS
    <2>2. /\ q \in Seq(Relays) /\ Len(q) \in Nat \ {0}
          /\ \A i \in 1..Len(q) : \E j \in 1..Len(sel.agg.members) : q[i] = sel.agg.members[j].relay
      BY <1>1, <2>1, MembersTyped, ScheduleIsFair
    <2>3. PICK n \in Nat \ {0} : n = Len(q)
      BY <2>2
    <2>4. PICK w \in Nat : w = sel.weighted
      BY DEF SelectsMembers
    <2>5. (w % n) + 1 \in 1..n /\ (w + 1) % n \in Nat /\ (w + 1) % n < n
      BY WrapStaysInside
    <2>6. q[(w % n) + 1] \in MemberRelays(sel.agg)
      BY <1>1, <2>2, <2>3, <2>5, MembersTyped DEF MemberRelays
    <2>7. NextWeighted(sel) = [relay |-> q[(w % n) + 1],
                               after |-> [sel EXCEPT !.weighted = (w + 1) % n]]
      BY <2>1, <2>3, <2>4 DEF NextWeighted
    <2>8. SelectsMembers([sel EXCEPT !.weighted = (w + 1) % n])
      BY <2>1, <2>3, <2>5 DEF SelectsMembers, IsSelector
    <2> QED BY <1>6, <2>6, <2>7, <2>8 DEF SelectFrom
  <1>7. CASE sel.agg.strategy = "conversation"
    <2>1. CASE c = NoConversation
      BY <1>2, <1>3, <1>7, <2>1 DEF SelectFrom, NextForConversation
    <2>2. CASE c # NoConversation /\ sel.assigned[c] # NoRelay
      <3>1. sel.assigned[c] \in MemberRelays(sel.agg)
        BY <2>2 DEF SelectsMembers
      <3> QED BY <1>7, <2>2, <3>1 DEF SelectFrom, NextForConversation
    <2>3. CASE c # NoConversation /\ sel.assigned[c] = NoRelay
      <3> DEFINE in == NextInRound(sel)
                 out == [in.after EXCEPT !.assigned[c] = in.relay]
      <3>1. SelectFrom(sel, c).after = out /\ SelectFrom(sel, c).relay = in.relay
        BY <1>7, <2>3 DEF SelectFrom, NextForConversation, NextInRound
      <3>2. SelectsMembers(out)
        BY <1>2, <2>3 DEF NextInRound, SelectsMembers, IsSelector
      <3> QED BY <1>2, <3>1, <3>2
    <2> QED BY <2>1, <2>2, <2>3
  <1> QED BY <1>1, <1>4, <1>5, <1>6, <1>7

(* What a request or a probe works on names members of what it read.          *)
LEMMA CurrentNames ==
    ASSUME IInv, CandidatesInv, NEW s \in AllSettings, IsAggregate(s)
    PROVE  /\ SelectsMembers(Current(s))
           /\ MemberRelays(Current(s).agg) = MemberRelays(s)
           /\ Current(s) # NoSelector
  <1>1. SelectsMembers(NewSelector(s)) /\ NewSelector(s).agg = s
    <2>1. Len(Schedule(s.members)) \in Nat \ {0}
      BY MembersTyped, ScheduleIsFair
    <2> QED BY <2>1 DEF SelectsMembers, NewSelector
  <1>2. Current(s) \in Selector
    <2>1. IsSelector(Current(s)) /\ IndexesInside(Current(s))
      BY CurrentIsSelector
    <2>2. Current(s).weighted \in Nat
      BY <1>1 DEF Current, Fits, CandidatesInv, SelectsMembers
    <2> QED BY <2>1, <2>2 DEF IsSelector, IndexesInside, Selector
  <1>3. Current(s) # NoSelector
    BY <1>2, RotationAssumption
  <1> QED BY <1>1, <1>3 DEF Current, Fits, CandidatesInv, MemberRelays

(* A report moves the failover index alone.                                   *)
LEMMA ReportNames ==
    ASSUME IInv, CandidatesInv, NEW s
    PROVE  Reported(s) # NoSelector =>
               /\ SelectsMembers(Reported(s))
               /\ selector # NoSelector /\ Reported(s).agg = selector.agg
               /\ Reported(s).round = selector.round
               /\ Reported(s).weighted = selector.weighted
  <1> DEFINE moved == [selector EXCEPT !.failover = (@ + 1) % Len(selector.agg.members)]
  <1>1. ASSUME selector # NoSelector
        PROVE  /\ SelectsMembers(moved) /\ moved.agg = selector.agg
               /\ moved.round = selector.round /\ moved.weighted = selector.weighted
    BY <1>1 DEF IInv, IsSelector, CandidatesInv, SelectsMembers
  <1> QED BY <1>1 DEF Reported, CandidatesInv

(* The first state.                                                           *)
LEMMA InitCandidates == Init => CandidatesInv
  <1> SUFFICES ASSUME Init PROVE CandidatesInv
    OBVIOUS
  <1>1. << >> \in Seq(Relays)
    OBVIOUS
  <1>2. /\ selector = NoSelector /\ received \in Nat /\ failed \in BOOLEAN
        /\ picked \in [Relays -> Nat]
        /\ todo \in [Requests -> Seq(Relays)] /\ tried \in [Requests -> Seq(Relays)]
        /\ \A r \in Requests : pc[r] # "trying" /\ tried[r] = << >>
    BY <1>1 DEF Init
  <1> QED BY <1>2 DEF CandidatesInv

(* Nothing changes for the requests.                                          *)
LEMMA RequestsStand ==
    ASSUME CandidatesInv, UNCHANGED request,
           selector' # NoSelector => SelectsMembers(selector'),
           received' \in Nat, picked' \in [Relays -> Nat], failed' \in BOOLEAN
    PROVE  CandidatesInv'
  BY DEF CandidatesInv, request, SelectsMembers, Covers, IsAggregate

(* A request that has its answer.                                             *)
LEMMA ReturnedStands ==
    ASSUME IInv, CandidatesInv, NEW r \in Requests, Return(r),
           selector' # NoSelector => SelectsMembers(selector'),
           received' \in Nat, picked' \in [Relays -> Nat], failed' \in BOOLEAN
    PROVE  CandidatesInv'
  <1>1. todo' \in [Requests -> Seq(Relays)] /\ tried' \in [Requests -> Seq(Relays)]
    BY DEF CandidatesInv, Return
  <1>2. /\ pc'[r] = "idle" /\ tried'[r] = << >>
        /\ \A q \in Requests : q # r => pc'[q] = pc[q] /\ cfg'[q] = cfg[q] /\ tried'[q] = tried[q]
                                        /\ todo'[q] = todo[q]
    BY DEF IInv, RequestsTyped, CandidatesInv, Return
  <1> QED BY <1>1, <1>2 DEF CandidatesInv, SelectsMembers, Covers, IsAggregate

(* A request that starts with a list of relays.                               *)
LEMMA StartedStands ==
    ASSUME IInv, CandidatesInv, NEW r \in Requests, pc[r] = "loaded",
           NEW relays \in Seq(Relays), relays # << >>,
           IsAggregate(cfg[r]) => Covers(relays, cfg[r]),
           Try(r, relays),
           selector' # NoSelector => SelectsMembers(selector'),
           received' \in Nat, picked' \in [Relays -> Nat], failed' \in BOOLEAN
    PROVE  CandidatesInv'
  <1>1. todo' \in [Requests -> Seq(Relays)] /\ tried' \in [Requests -> Seq(Relays)]
    BY DEF CandidatesInv, Try
  <1>2. /\ pc'[r] = "trying" /\ tried'[r] = << >> /\ todo'[r] = relays /\ cfg'[r] = cfg[r]
        /\ \A q \in Requests : q # r => pc'[q] = pc[q] /\ cfg'[q] = cfg[q] /\ tried'[q] = tried[q]
                                        /\ todo'[q] = todo[q]
    BY DEF IInv, RequestsTyped, CandidatesInv, Try
  <1>3. tried'[r] \o todo'[r] = relays
    BY <1>2
  <1> QED BY <1>1, <1>2, <1>3 DEF CandidatesInv, SelectsMembers, Covers, IsAggregate

(* What is tried moves over from what is left to try.                         *)
LEMMA MovedOver ==
    ASSUME NEW t \in Seq(Relays), NEW u \in Seq(Relays), u # << >>
    PROVE  /\ Append(t, Head(u)) \o Tail(u) = t \o u
           /\ Append(t, Head(u)) \in Seq(Relays) /\ Tail(u) \in Seq(Relays)
           /\ Len(u) > 1 => Tail(u) # << >>
  <1>1. Append(t, Head(u)) \o Tail(u) = t \o u
    OBVIOUS
  <1>2. Head(u) \in Relays /\ Tail(u) \in Seq(Relays) /\ Len(Tail(u)) = Len(u) - 1
    BY HeadTailProperties
  <1>3. Append(t, Head(u)) \in Seq(Relays)
    BY <1>2
  <1>4. ASSUME Len(u) > 1 PROVE Tail(u) # << >>
    <2>1. Len(u) \in Nat /\ Len(Tail(u)) # 0
      BY <1>2, <1>4
    <2>2. Len(<< >>) = 0
      OBVIOUS
    <2> QED BY <2>1, <2>2
  <1> QED BY <1>1, <1>2, <1>3, <1>4

(* The invariant is inductive.                                                *)
LEMMA StepKeepsCandidates == IInv /\ CandidatesInv /\ [Next]_vars => CandidatesInv'
  <1> SUFFICES ASSUME IInv, CandidatesInv, [Next]_vars PROVE CandidatesInv'
    OBVIOUS
  <1>1. /\ received \in Nat /\ picked \in [Relays -> Nat] /\ failed \in BOOLEAN
        /\ selector # NoSelector => SelectsMembers(selector)
        /\ [m \in Relays |-> 0] \in [Relays -> Nat]
    BY DEF CandidatesInv
  <1>2. Forget => picked' \in [Relays -> Nat] /\ failed' \in BOOLEAN
    BY <1>1 DEF Forget
  <1>3. selector' = selector => (selector' # NoSelector => SelectsMembers(selector'))
    BY <1>1
  <1>4. CASE UNCHANGED vars
    BY <1>1, <1>3, <1>4, RequestsStand DEF vars, proxy, history
  <1>5. ASSUME NEW s \in AllSettings, Save(s) PROVE CandidatesInv'
    BY <1>1, <1>3, <1>5, RequestsStand DEF Save, history
  <1>6. CASE Probe
    <2>1. selector' # NoSelector => SelectsMembers(selector')
      BY <1>6, CurrentNames DEF Probe, IInv, RequestsTyped
    <2>2. picked' \in [Relays -> Nat] /\ failed' \in BOOLEAN
      BY <1>1, <1>2, <1>6 DEF Probe, history
    <2> QED BY <1>1, <1>6, <2>1, <2>2, RequestsStand DEF Probe
  <1>7. ASSUME NEW r \in Requests, Receive(r) PROVE CandidatesInv'
    <2>1. /\ pc[r] = "idle" /\ pc'[r] = "loaded" /\ UNCHANGED <<todo, tried, selector, history>>
          /\ received' = received + 1
          /\ \A q \in Requests : q # r => pc'[q] = pc[q] /\ cfg'[q] = cfg[q]
      BY <1>7 DEF Receive, IInv, RequestsTyped
    <2>2. received' \in Nat /\ picked' \in [Relays -> Nat] /\ failed' \in BOOLEAN
      BY <1>1, <2>1 DEF history
    <2>3. selector' # NoSelector => SelectsMembers(selector')
      BY <1>1, <2>1
    <2>4. \A q \in Requests :
             /\ pc'[q] # "trying" => tried'[q] = << >>
             /\ pc'[q] = "trying" => todo'[q] # << >> /\ q # r
      BY <2>1 DEF CandidatesInv
    <2>5. ASSUME NEW q \in Requests, pc'[q] = "trying", IsAggregate(cfg'[q])
          PROVE  Covers(tried'[q] \o todo'[q], cfg'[q])
      BY <2>1, <2>4, <2>5 DEF CandidatesInv
    <2>6. todo' \in [Requests -> Seq(Relays)] /\ tried' \in [Requests -> Seq(Relays)]
      BY <2>1 DEF CandidatesInv
    <2> QED BY <2>2, <2>3, <2>4, <2>5, <2>6 DEF CandidatesInv, SelectsMembers, Covers, IsAggregate
  <1>8. ASSUME NEW r \in Requests, SelectSingle(r) PROVE CandidatesInv'
    <2>1. cfg[r] \in AllSettings
      BY DEF IInv, RequestsTyped
    <2>2. PICK x \in Relays : x = MemberAt(cfg[r].members, 0)
      BY <2>1, MemberAtNames, MembersTyped
    <2>3. <<x>> \in Seq(Relays) /\ <<x>> # << >>
      OBVIOUS
    <2>4. /\ Try(r, <<x>>) /\ pc[r] = "loaded" /\ ~IsAggregate(cfg[r]) /\ selector' = NoSelector
          /\ received' = received /\ Forget
      BY <1>8, <2>2 DEF SelectSingle
    <2> QED BY <1>1, <1>2, <2>3, <2>4, StartedStands
  <1>9. ASSUME NEW r \in Requests, SelectRouted(r) PROVE CandidatesInv'
    <2>1. PICK x \in Relays : Try(r, <<x>>)
      BY <1>9 DEF SelectRouted
    <2>2. <<x>> \in Seq(Relays) /\ <<x>> # << >>
      OBVIOUS
    <2>3. /\ pc[r] = "loaded" /\ ~IsAggregate(cfg[r])
          /\ UNCHANGED <<selector, received, picked, failed>>
      BY <1>9 DEF SelectRouted, proxy, history
    <2> QED BY <1>1, <1>3, <2>1, <2>2, <2>3, StartedStands
  <1>10. ASSUME NEW r \in Requests, SelectMember(r) PROVE CandidatesInv'
    <2>1. /\ cfg[r] \in AllSettings /\ IsAggregate(cfg[r]) /\ pc[r] = "loaded"
          /\ conv[r] \in Conversations \cup {NoConversation}
      BY <1>10 DEF SelectMember, IInv, RequestsTyped
    <2>2. PICK chosen : chosen = SelectFrom(Current(cfg[r]), conv[r])
      OBVIOUS
    <2>3. chosen.relay \in MemberRelays(cfg[r]) /\ SelectsMembers(chosen.after)
      BY <2>1, <2>2, CurrentIsSelector, CurrentNames, SelectionNames
    <2>4. PICK before \in [Relays -> Nat] :
             before = IF Fits(selector, cfg[r]) THEN picked ELSE [m \in Relays |-> 0]
      BY <1>1
    <2>5. /\ selector' = chosen.after
          /\ Try(r, <<chosen.relay>> \o Fallbacks(cfg[r].members, chosen.relay))
          /\ picked' = [before EXCEPT ![chosen.relay] = @ + 1]
          /\ failed' = (Fits(selector, cfg[r]) /\ failed)
          /\ received' = received
      BY <1>10, <2>2, <2>4 DEF SelectMember
    <2>6. PICK relays : relays = <<chosen.relay>> \o Fallbacks(cfg[r].members, chosen.relay)
      OBVIOUS
    <2>7. relays \in Seq(Relays) /\ relays # << >> /\ Covers(relays, cfg[r])
      BY <2>1, <2>3, <2>6, FallbacksCover
    <2>8. picked' \in [Relays -> Nat] /\ failed' \in BOOLEAN
      BY <2>1, <2>3, <2>5, MembersTyped
    <2> QED BY <1>1, <2>1, <2>3, <2>5, <2>6, <2>7, <2>8, StartedStands
  <1>11. ASSUME NEW r \in Requests, SelectRefused(r) \/ Abort(r) PROVE CandidatesInv'
    BY <1>1, <1>3, <1>11, ReturnedStands DEF SelectRefused, Abort, proxy, history
  <1>12. ASSUME NEW r \in Requests, Succeed(r) PROVE CandidatesInv'
    <2>1. /\ selector' = selector \/ selector' = NoSelector
          /\ picked' \in [Relays -> Nat] /\ failed' \in BOOLEAN
      BY <1>1, <1>2, <1>12 DEF Succeed, history
    <2> QED BY <1>1, <1>12, <2>1, ReturnedStands DEF Succeed
  <1>13. ASSUME NEW r \in Requests, Fail(r) PROVE CandidatesInv'
    <2>1. selector' # NoSelector => SelectsMembers(selector')
      BY <1>13, ReportNames DEF Fail
    <2>2. picked' \in [Relays -> Nat] /\ failed' \in BOOLEAN
      BY <1>1, <1>2, <1>13 DEF Fail
    <2>3. received' = received /\ pc[r] = "trying"
      BY <1>13 DEF Fail
    <2>4. CASE Len(todo[r]) > 1
      <3>1. /\ todo' = [todo EXCEPT ![r] = Tail(@)]
            /\ tried' = [tried EXCEPT ![r] = Append(@, Head(todo[r]))]
            /\ UNCHANGED <<pc, cfg, conv>>
        BY <1>13, <2>4 DEF Fail
      <3>2. todo[r] \in Seq(Relays) /\ tried[r] \in Seq(Relays) /\ todo[r] # << >>
        BY <2>3 DEF CandidatesInv
      <3>3. /\ Append(tried[r], Head(todo[r])) \o Tail(todo[r]) = tried[r] \o todo[r]
            /\ Append(tried[r], Head(todo[r])) \in Seq(Relays) /\ Tail(todo[r]) \in Seq(Relays)
            /\ Tail(todo[r]) # << >>
        BY <2>4, <3>2, MovedOver
      <3>4. /\ todo' \in [Requests -> Seq(Relays)] /\ tried' \in [Requests -> Seq(Relays)]
            /\ todo'[r] # << >> /\ tried'[r] \o todo'[r] = tried[r] \o todo[r]
            /\ \A q \in Requests : q # r => tried'[q] = tried[q] /\ todo'[q] = todo[q]
        BY <3>1, <3>3 DEF CandidatesInv
      <3> QED BY <1>1, <2>1, <2>2, <2>3, <3>1, <3>4
              DEF CandidatesInv, SelectsMembers, Covers, IsAggregate
    <2>5. CASE ~(Len(todo[r]) > 1)
      BY <1>1, <1>13, <2>1, <2>2, <2>3, <2>5, ReturnedStands DEF Fail
    <2> QED BY <2>4, <2>5
  <1> QED BY <1>4, <1>5, <1>6, <1>7, <1>8, <1>9, <1>10, <1>11, <1>12, <1>13 DEF Next

(* It holds in every reachable state.                                         *)
THEOREM CandidatesInvHolds == Spec => []CandidatesInv
  <1> QED BY IInvHolds, InitCandidates, StepKeepsCandidates, PTL DEF Spec

(* One failing member does not keep a request from the others, and no request *)
(* goes outside its aggregate: what a request has tried and has still to try  *)
(* are the members of the settings it read, each exactly once, whatever is    *)
(* saved, selected and reported meanwhile (protocol_proxy.rs, the candidates  *)
(* of a request; relay_rotation.rs, fallback_relays_after).                   *)
THEOREM CandidatesAreTheMembers == Spec => []CandidatesCoverMembers
  <1>1. IInv /\ CandidatesInv => TypeOK
    BY DEF IInv, CandidatesInv, RequestsTyped, TypeOK, IsSelector, IndexesInside,
           SelectsMembers, Selector
  <1>2. IInv /\ CandidatesInv => CandidatesCoverMembers
    BY <1>1 DEF CandidatesInv, Covers, CandidatesCoverMembers
  <1> QED BY <1>2, IInvHolds, CandidatesInvHolds, PTL

(*****************************************************************************)
(* Fair shares: what each member had of the selections.                      *)
(*****************************************************************************)

(* The selections of all relays, added up one relay at a time.                *)
One(S) == CHOOSE x \in S : TRUE
Total(p) == LET sum[S \in SUBSET Relays] ==
                    IF S = {} THEN 0
                    ELSE LET m == CHOOSE x \in S : TRUE IN p[m] + sum[S \ {m}]
            IN  sum[Relays]

(* A function that adds them up for the sets of a family.                     *)
Small(n) == {S \in SUBSET Relays : Cardinality(S) <= n}
IsSum(f, p, family) == f = [S \in family |-> IF S = {} THEN 0 ELSE p[One(S)] + f[S \ {One(S)}]]

(* A set without one of its elements is smaller.                              *)
LEMMA OneLess ==
    ASSUME NEW n \in Nat, NEW S \in Small(n + 1), S # {}
    PROVE  One(S) \in S /\ One(S) \in Relays /\ S \ {One(S)} \in Small(n)
  <1>1. One(S) \in S
    BY DEF One
  <1>2. IsFiniteSet(S) /\ S \subseteq Relays /\ Cardinality(S) <= n + 1
    BY RotationAssumption, FS_Subset DEF Small
  <1>3. Cardinality(S) \in Nat /\ Cardinality(S \ {One(S)}) = Cardinality(S) - 1
    BY <1>1, <1>2, FS_CardinalityType, FS_RemoveElement
  <1> QED BY <1>1, <1>2, <1>3 DEF Small

(* The smallest family and the largest.                                       *)
LEMMA SmallestAndLargest ==
    /\ Small(0) = {{}}
    /\ Cardinality(Relays) \in Nat /\ Small(Cardinality(Relays)) = SUBSET Relays
  <1>1. \A S \in SUBSET Relays : IsFiniteSet(S) /\ Cardinality(S) \in Nat
                                /\ Cardinality(S) <= Cardinality(Relays)
    BY RotationAssumption, FS_Subset, FS_CardinalityType
  <1>2. \A S \in SUBSET Relays : Cardinality(S) <= 0 <=> S = {}
    BY <1>1, FS_EmptySet
  <1>3. Cardinality(Relays) \in Nat
    BY RotationAssumption, FS_CardinalityType
  <1> QED BY <1>1, <1>2, <1>3 DEF Small

(* There is such a function.                                                  *)
LEMMA SumExists == ASSUME NEW p, NEW n \in Nat PROVE \E f : IsSum(f, p, Small(n))
  <1> DEFINE N == {k \in Nat : \E f : IsSum(f, p, Small(k))}
  <1>1. 0 \in N
    <2>1. IsSum([S \in Small(0) |-> 0], p, Small(0))
      BY SmallestAndLargest DEF IsSum
    <2> QED BY <2>1
  <1>2. ASSUME NEW k \in N PROVE k + 1 \in N
    <2>0. k \in Nat
      OBVIOUS
    <2>1. PICK f : IsSum(f, p, Small(k))
      OBVIOUS
    <2> HIDE DEF N
    <2> DEFINE g == [S \in Small(k + 1) |-> IF S = {} THEN 0 ELSE p[One(S)] + f[S \ {One(S)}]]
    <2>2. \A S \in Small(k) : f[S] = IF S = {} THEN 0 ELSE p[One(S)] + f[S \ {One(S)}]
      BY <2>1 DEF IsSum
    <2>3. \A S \in Small(k) : S \in Small(k + 1)
      <3>1. \A S \in SUBSET Relays : Cardinality(S) \in Nat
        BY RotationAssumption, FS_Subset, FS_CardinalityType
      <3> QED BY <2>0, <3>1 DEF Small
    <2>4. \A S \in Small(k) : g[S] = f[S]
      BY <2>2, <2>3
    <2>5. \A S \in Small(k + 1) : S # {} => S \ {One(S)} \in Small(k)
      BY <2>0, OneLess
    <2>6. \A S \in Small(k + 1) :
             (IF S = {} THEN 0 ELSE p[One(S)] + f[S \ {One(S)}])
                 = (IF S = {} THEN 0 ELSE p[One(S)] + g[S \ {One(S)}])
      <3> HIDE DEF g
      <3> QED BY <2>4, <2>5
    <2>7. g = [S \in Small(k + 1) |-> IF S = {} THEN 0 ELSE p[One(S)] + g[S \ {One(S)}]]
      BY <2>6, Zenon
    <2> HIDE DEF g
    <2>8. IsSum(g, p, Small(k + 1))
      BY <2>7 DEF IsSum
    <2> QED BY <2>0, <2>8 DEF N
  <1> HIDE DEF N
  <1>3. N = Nat
    <2>1. N \in SUBSET Nat
      BY DEF N
    <2> QED BY <1>1, <1>2, <2>1, NaturalInduction
  <1> QED BY <1>3 DEF N

(* The total is what such a function adds up for all relays.                  *)
LEMMA TotalIsSum ==
    ASSUME NEW p
    PROVE  \E f : IsSum(f, p, SUBSET Relays) /\ Total(p) = f[Relays]
  <1>1. Total(p) = (CHOOSE f : IsSum(f, p, SUBSET Relays))[Relays]
    BY DEF Total, IsSum, One
  <1>2. \E f : IsSum(f, p, SUBSET Relays)
    <2>1. PICK n \in Nat : Small(n) = SUBSET Relays
      BY SmallestAndLargest
    <2>2. \E f : IsSum(f, p, Small(n))
      BY SumExists
    <2> QED BY <2>1, <2>2, Zenon
  <1> QED BY <1>1, <1>2

(* What such a function adds up for no relay and for some.                    *)
LEMMA SumOfNone ==
    ASSUME NEW p, NEW f, IsSum(f, p, SUBSET Relays)
    PROVE  f[{}] = 0
  BY DEF IsSum

LEMMA SumOfSome ==
    ASSUME NEW p, NEW f, NEW family, IsSum(f, p, family), NEW S \in family, NEW y \in S
    PROVE  f[S] = p[One(S)] + f[S \ {One(S)}]
  BY DEF IsSum

(* One more selection is one more in total; no selection is none.             *)
LEMMA TotalGrows ==
    ASSUME NEW p \in [Relays -> Nat], NEW y \in Relays
    PROVE  Total(p) \in Nat /\ Total([p EXCEPT ![y] = @ + 1]) = Total(p) + 1
  <1>1. PICK f : IsSum(f, p, SUBSET Relays) /\ Total(p) = f[Relays]
    BY TotalIsSum
  <1>2. PICK more : more = [p EXCEPT ![y] = @ + 1]
    OBVIOUS
  <1>3. PICK g : IsSum(g, more, SUBSET Relays) /\ Total(more) = g[Relays]
    BY TotalIsSum
  <1> DEFINE Grows(S) == /\ f[S] \in Nat
                         /\ y \in S => g[S] = f[S] + 1
                         /\ y \notin S => g[S] = f[S]
             N == {n \in Nat : \A S \in Small(n) : Grows(S)}
  <1>4. 0 \in N
    <2>1. f[{}] = 0 /\ g[{}] = 0
      BY <1>1, <1>3, SumOfNone
    <2>2. Grows({})
      BY <2>1
    <2> QED BY <2>2, SmallestAndLargest
  <1>5. ASSUME NEW n \in N PROVE n + 1 \in N
    <2>1. n \in Nat /\ \A S \in Small(n) : Grows(S)
      OBVIOUS
    <2> SUFFICES ASSUME NEW S \in Small(n + 1) PROVE Grows(S)
      BY <2>1
    <2>2. CASE S = {}
      <3>1. f[{}] = 0 /\ g[{}] = 0
        BY <1>1, <1>3, SumOfNone
      <3> QED BY <2>2, <3>1
    <2>3. CASE S # {}
      <3>1. PICK x \in S : x = One(S) /\ x \in Relays /\ S \ {x} \in Small(n)
        BY <2>1, <2>3, OneLess
      <3>2. S \in SUBSET Relays
        BY DEF Small
      <3>3. f[S] = p[x] + f[S \ {x}] /\ g[S] = more[x] + g[S \ {x}]
        <4>1. f[S] = p[One(S)] + f[S \ {One(S)}]
          BY <1>1, <3>1, <3>2, SumOfSome
        <4>2. g[S] = more[One(S)] + g[S \ {One(S)}]
          BY <1>3, <3>1, <3>2, SumOfSome
        <4> QED BY <3>1, <4>1, <4>2
      <3>4. Grows(S \ {x})
        BY <2>1, <3>1
      <3>5. p[x] \in Nat /\ (x = y => more[x] = p[x] + 1) /\ (x # y => more[x] = p[x])
        BY <1>2, <3>1
      <3>6. CASE x = y
        <4>1. y \in S /\ y \notin S \ {x}
          BY <3>6
        <4> QED BY <3>3, <3>4, <3>5, <3>6, <4>1
      <3>7. CASE x # y
        <4>1. y \in S <=> y \in S \ {x}
          BY <3>7
        <4> QED BY <3>3, <3>4, <3>5, <3>7, <4>1
      <3> QED BY <3>6, <3>7
    <2> QED BY <2>2, <2>3
  <1>6. Grows(Relays)
    <2>1. N \in SUBSET Nat
      OBVIOUS
    <2> HIDE DEF N
    <2>2. N = Nat
      BY <1>4, <1>5, <2>1, NaturalInduction
    <2> QED BY <2>2, SmallestAndLargest DEF N
  <1> QED BY <1>1, <1>2, <1>3, <1>6

(* No selection is none in total.                                             *)
LEMMA TotalOfNothing ==
    ASSUME NEW p \in [Relays -> Nat], \A m \in Relays : p[m] = 0
    PROVE  Total(p) = 0
  <1>1. PICK f : IsSum(f, p, SUBSET Relays) /\ Total(p) = f[Relays]
    BY TotalIsSum
  <1> DEFINE N == {n \in Nat : \A S \in Small(n) : f[S] = 0}
  <1>2. f[{}] = 0
    BY <1>1, SumOfNone
  <1>3. 0 \in N
    BY <1>2, SmallestAndLargest
  <1>4. ASSUME NEW n \in N PROVE n + 1 \in N
    <2>1. n \in Nat /\ \A S \in Small(n) : f[S] = 0
      OBVIOUS
    <2> SUFFICES ASSUME NEW S \in Small(n + 1) PROVE f[S] = 0
      BY <2>1
    <2>2. CASE S = {}
      BY <1>2, <2>2
    <2>3. CASE S # {}
      <3>1. PICK x \in S : x = One(S) /\ x \in Relays /\ S \ {x} \in Small(n)
        BY <2>1, <2>3, OneLess
      <3>2. S \in SUBSET Relays
        BY DEF Small
      <3>3. f[S] = p[One(S)] + f[S \ {One(S)}]
        BY <1>1, <3>1, <3>2, SumOfSome
      <3>4. p[x] = 0 /\ f[S \ {x}] = 0
        BY <2>1, <3>1
      <3> QED BY <3>1, <3>3, <3>4
    <2> QED BY <2>2, <2>3
  <1>5. f[Relays] = 0
    <2>1. N \in SUBSET Nat
      OBVIOUS
    <2> HIDE DEF N
    <2>2. N = Nat
      BY <1>3, <1>4, <2>1, NaturalInduction
    <2> QED BY <2>2, SmallestAndLargest DEF N
  <1> QED BY <1>1, <1>5

(* What a selector goes round, and where it stands: its members in order or   *)
(* the schedule.                                                              *)
InTurn(ms) == [i \in 1..Len(ms) |-> ms[i].relay]
Wheel(sel) == IF sel.agg.strategy = "weighted" THEN Schedule(sel.agg.members)
              ELSE InTurn(sel.agg.members)
Place(sel) == IF sel.agg.strategy = "weighted" THEN sel.weighted ELSE sel.round
GoesRound(sel) == sel.agg.strategy \in {"request", "weighted"}

(* After so many full turns and the first k of the next, each relay had its   *)
(* share of each.                                                             *)
Shared(p, q, k, turns) ==
    /\ Total(p) = Len(q) * turns + k
    /\ \A m \in Relays : p[m] = Share(q, m, Len(q)) * turns + Share(q, m, k)

(* The third inductive invariant.                                             *)
ShareInv ==
    selector # NoSelector /\ GoesRound(selector) =>
        \E turns \in Nat : Shared(picked, Wheel(selector), Place(selector), turns)

(* More turns take more selections.                                           *)
LEMMA TimesGrows ==
    ASSUME NEW n \in Nat, NEW a \in Nat, NEW b \in Nat, a <= b
    PROVE  n * a \in Nat /\ n * b \in Nat /\ n * a <= n * b
  <1>1. PICK c \in Nat : b = a + c
    <2>1. b - a \in Nat /\ b = a + (b - a)
      OBVIOUS
    <2> QED BY <2>1
  <1>2. n * b = n * a + n * c
    BY <1>1
  <1>3. n * a \in Nat /\ n * b \in Nat /\ n * c \in Nat
    OBVIOUS
  <1> QED BY <1>2, <1>3

(* The selections tell how many full turns there were.                         *)
LEMMA FullTurns ==
    ASSUME NEW n \in Nat \ {0}, NEW turns \in Nat, NEW k \in Nat, k < n
    PROVE  (n * turns + k) \div n = turns
  <1>1. PICK all \in Nat : all = n * turns + k
    <2>1. n * turns \in Nat
      OBVIOUS
    <2> QED BY <2>1
  <1>2. PICK d \in Nat : d = all \div n /\ n * d <= all /\ all < n * d + n
    OBVIOUS
  <1>3. n * (d + 1) = n * d + n /\ n * (turns + 1) = n * turns + n
    OBVIOUS
  <1>4. ~(d + 1 <= turns)
    <2>1. SUFFICES ASSUME d + 1 <= turns PROVE FALSE
      OBVIOUS
    <2>2. n * (d + 1) <= n * turns /\ n * (d + 1) \in Nat /\ n * turns \in Nat /\ n * d \in Nat
      BY <2>1, TimesGrows
    <2> QED BY <1>1, <1>2, <1>3, <2>2
  <1>5. ~(turns + 1 <= d)
    <2>1. SUFFICES ASSUME turns + 1 <= d PROVE FALSE
      OBVIOUS
    <2>2. n * (turns + 1) <= n * d /\ n * (turns + 1) \in Nat /\ n * turns \in Nat /\ n * d \in Nat
      BY <2>1, TimesGrows
    <2> QED BY <1>1, <1>2, <1>3, <2>2
  <1>6. d = turns
    BY <1>4, <1>5
  <1> QED BY <1>1, <1>2, <1>6

(* A wheel has members only and as many turns of each as its weight.          *)
LEMMA WheelIsFair ==
    ASSUME NEW sel, sel.agg \in AllSettings, GoesRound(sel)
    PROVE  /\ Wheel(sel) \in Seq(Relays)
           /\ Len(Wheel(sel)) \in Nat \ {0}
           /\ \A j \in 1..Len(sel.agg.members) :
                 /\ sel.agg.strategy = "weighted" =>
                       Share(Wheel(sel), sel.agg.members[j].relay, Len(Wheel(sel)))
                           = Weight(sel.agg.members[j])
                 /\ sel.agg.strategy # "weighted" =>
                       Share(Wheel(sel), sel.agg.members[j].relay, Len(Wheel(sel))) = 1
  <1>1. PICK ms : ms = sel.agg.members
    OBVIOUS
  <1>2. PICK n \in Nat \ {0} : n = Len(ms)
    BY <1>1, MembersTyped
  <1>3. /\ ms \in Seq(Member) /\ ms # << >> /\ DistinctMembers(ms) /\ DOMAIN ms = 1..n
        /\ \A i \in 1..n : ms[i].relay \in Relays
    BY <1>1, <1>2, MembersTyped
  <1>4. CASE sel.agg.strategy = "weighted"
    BY <1>1, <1>3, <1>4, ScheduleIsFair DEF Wheel
  <1>5. CASE sel.agg.strategy # "weighted"
    <2>1. PICK q : q = InTurn(ms)
      OBVIOUS
    <2>2. q \in Seq(Relays) /\ Len(q) = n /\ \A i \in 1..n : q[i] = ms[i].relay
      BY <1>2, <1>3, <2>1 DEF InTurn
    <2>3. ASSUME NEW j \in 1..n PROVE Share(q, ms[j].relay, n) = 1
      <3>1. TurnsOf(q, ms[j].relay, n) = {j}
        BY <1>3, <2>2 DEF TurnsOf, DistinctMembers
      <3> QED BY <3>1, FS_Singleton DEF Share
    <2> QED BY <1>1, <1>2, <1>5, <2>1, <2>2, <2>3 DEF Wheel
  <1> QED BY <1>4, <1>5

(* The place on the wheel exists.                                             *)
LEMMA PlaceIsInside ==
    ASSUME NEW sel, IsSelector(sel), IndexesInside(sel), SelectsMembers(sel), GoesRound(sel)
    PROVE  Place(sel) \in Nat /\ Place(sel) < Len(Wheel(sel))
  <1>1. Len(InTurn(sel.agg.members)) = Len(sel.agg.members)
    BY SettingsTyped DEF IsSelector, InTurn
  <1> QED BY <1>1 DEF Place, Wheel, GoesRound, IndexesInside, SelectsMembers

(* A selection takes the relay at its place and moves on by one.              *)
LEMMA SelectionMovesOn ==
    ASSUME NEW sel, IsSelector(sel), IndexesInside(sel), SelectsMembers(sel), GoesRound(sel), NEW c
    PROVE  LET next == SelectFrom(sel, c)
           IN  /\ next.relay = Wheel(sel)[Place(sel) + 1]
               /\ next.after.agg = sel.agg
               /\ Place(next.after) = (Place(sel) + 1) % Len(Wheel(sel))
               /\ Wheel(next.after) = Wheel(sel)
  <1>1. PICK q : q = Wheel(sel)
    OBVIOUS
  <1>2. PICK k \in Nat : k = Place(sel)
    BY PlaceIsInside
  <1>3. PICK n \in Nat \ {0} : n = Len(q)
    BY <1>1, WheelIsFair DEF IsSelector
  <1>4. k < n /\ k % n = k /\ k + 1 \in 1..n
    <2>1. k < n
      BY <1>1, <1>2, <1>3, PlaceIsInside
    <2> QED BY <2>1, Wrapping
  <1>5. CASE sel.agg.strategy = "weighted"
    <2>1. q = Schedule(sel.agg.members) /\ k = sel.weighted
      BY <1>1, <1>2, <1>5 DEF Wheel, Place
    <2>2. SelectFrom(sel, c) = NextWeighted(sel)
      BY <1>5 DEF SelectFrom
    <2>3. NextWeighted(sel) = [relay |-> q[k + 1], after |-> [sel EXCEPT !.weighted = (k + 1) % n]]
      BY <1>3, <1>4, <2>1 DEF NextWeighted
    <2>4. [sel EXCEPT !.weighted = (k + 1) % n].agg = sel.agg
          /\ [sel EXCEPT !.weighted = (k + 1) % n].weighted = (k + 1) % n
      BY DEF IsSelector
    <2>5. PICK after : after = [sel EXCEPT !.weighted = (k + 1) % n]
      OBVIOUS
    <2>6. Place(after) = (k + 1) % n /\ Wheel(after) = q
      BY <1>1, <1>5, <2>4, <2>5 DEF Wheel, Place
    <2>7. SelectFrom(sel, c).relay = q[k + 1] /\ SelectFrom(sel, c).after = after
      BY <2>2, <2>3, <2>5
    <2> QED BY <1>1, <1>2, <1>3, <2>4, <2>5, <2>6, <2>7
  <1>6. CASE sel.agg.strategy = "request"
    <2>1. q = InTurn(sel.agg.members) /\ k = sel.round
      BY <1>1, <1>2, <1>6 DEF Wheel, Place
    <2>2. SelectFrom(sel, c) = NextInRound(sel)
      BY <1>6 DEF SelectFrom
    <2>3. Len(sel.agg.members) = n /\ q[k + 1] = sel.agg.members[k + 1].relay
      BY <1>3, <1>4, <2>1, SettingsTyped DEF IsSelector, InTurn
    <2>4. NextInRound(sel) = [relay |-> q[k + 1], after |-> [sel EXCEPT !.round = (k + 1) % n]]
      BY <1>4, <2>1, <2>3 DEF NextInRound, MemberAt
    <2>5. [sel EXCEPT !.round = (k + 1) % n].agg = sel.agg
          /\ [sel EXCEPT !.round = (k + 1) % n].round = (k + 1) % n
      BY DEF IsSelector
    <2>6. PICK after : after = [sel EXCEPT !.round = (k + 1) % n]
      OBVIOUS
    <2>7. Place(after) = (k + 1) % n /\ Wheel(after) = q
      BY <1>1, <1>6, <2>5, <2>6 DEF Wheel, Place
    <2>8. SelectFrom(sel, c).relay = q[k + 1] /\ SelectFrom(sel, c).after = after
      BY <2>2, <2>4, <2>6
    <2> QED BY <1>1, <1>2, <1>3, <2>5, <2>6, <2>7, <2>8
  <1> QED BY <1>5, <1>6 DEF GoesRound

(* One more selection keeps the shares.                                       *)
LEMMA SharesGoOn ==
    ASSUME NEW p \in [Relays -> Nat], NEW q \in Seq(Relays), NEW k \in Nat, k < Len(q),
           NEW turns \in Nat, Shared(p, q, k, turns)
    PROVE  \E more \in Nat : Shared([p EXCEPT ![q[k + 1]] = @ + 1], q, (k + 1) % Len(q), more)
  <1>1. PICK n \in Nat \ {0} : n = Len(q)
    OBVIOUS
  <1>2. PICK x \in Relays : x = q[k + 1]
    BY ElementOfSeq
  <1>3. PICK r : r = [p EXCEPT ![x] = @ + 1]
    OBVIOUS
  <1>4. \A m \in Relays : /\ p[m] \in Nat
                          /\ m = x => r[m] = p[m] + 1
                          /\ m # x => r[m] = p[m]
    BY <1>3
  <1>5. Total(r) = n * turns + (k + 1)
    <2>1. n * turns \in Nat /\ Total(p) = n * turns + k
      BY <1>1 DEF Shared
    <2>2. Total(r) = Total(p) + 1
      BY <1>3, TotalGrows
    <2> QED BY <2>1, <2>2
  <1>6. ASSUME NEW m \in Relays
        PROVE  /\ Share(q, m, n) \in Nat /\ Share(q, m, k) \in Nat /\ Share(q, m, k + 1) \in Nat
               /\ Share(q, m, n) * turns \in Nat
               /\ r[m] = Share(q, m, n) * turns + Share(q, m, k + 1)
    <2>1. Share(q, m, n) \in Nat /\ Share(q, m, k) \in Nat /\ Share(q, m, k + 1) \in Nat
      <3>1. n \in Nat /\ k + 1 \in Nat
        OBVIOUS
      <3> QED BY <3>1, ShareIsNat
    <2>2. PICK a \in Nat : a = Share(q, m, n)
      BY <2>1
    <2>3. PICK b \in Nat : b = a * turns
      OBVIOUS
    <2>4. p[m] = b + Share(q, m, k)
      BY <1>1, <2>2, <2>3 DEF Shared
    <2>5. r[m] = b + Share(q, m, k + 1)
      <3>1. /\ Share(q, x, k + 1) = Share(q, x, k) + 1
            /\ m # x => Share(q, m, k + 1) = Share(q, m, k)
        BY <1>2, ShareGrows
      <3>2. CASE m = x
        BY <1>4, <2>1, <2>4, <3>1, <3>2
      <3>3. CASE m # x
        BY <1>4, <2>1, <2>4, <3>1, <3>3
      <3> QED BY <3>2, <3>3
    <2> QED BY <2>1, <2>2, <2>3, <2>5
  <1>7. CASE k + 1 < n
    <2>1. (k + 1) % n = k + 1
      <3>1. PICK j \in Nat : j = k + 1 /\ j < n
        BY <1>7
      <3> QED BY <3>1, Wrapping
    <2>2. Shared(r, q, k + 1, turns)
      BY <1>1, <1>5, <1>6 DEF Shared
    <2> QED BY <1>1, <1>2, <1>3, <2>1, <2>2
  <1>8. CASE k + 1 = n
    <2>1. (k + 1) % n = 0
      BY <1>8
    <2>2. Total(r) = n * (turns + 1) + 0
      BY <1>5, <1>8
    <2>3. ASSUME NEW m \in Relays
          PROVE  r[m] = Share(q, m, n) * (turns + 1) + Share(q, m, 0)
      <3>1. PICK a \in Nat : a = Share(q, m, n)
        BY <1>6
      <3>2. r[m] = a * turns + a
        BY <1>6, <1>8, <3>1
      <3>3. a * (turns + 1) = a * turns + a /\ a * turns \in Nat
        OBVIOUS
      <3>4. Share(q, m, 0) = 0
        BY ShareIsNat
      <3> QED BY <3>1, <3>2, <3>3, <3>4
    <2>4. Shared(r, q, 0, turns + 1)
      BY <1>1, <2>2, <2>3 DEF Shared
    <2> QED BY <1>1, <1>2, <1>3, <2>1, <2>4
  <1>9. k + 1 < n \/ k + 1 = n
    BY <1>1
  <1> QED BY <1>7, <1>8, <1>9

(* Before the first selection every share is empty.                           *)
LEMMA SharesBegin ==
    ASSUME NEW q \in Seq(Relays)
    PROVE  Shared([m \in Relays |-> 0], q, 0, 0)
  <1>1. PICK n \in Nat : n = Len(q)
    OBVIOUS
  <1>2. \A m \in Relays : Share(q, m, 0) = 0 /\ Share(q, m, n) \in Nat
    BY ShareIsNat
  <1>3. n * 0 = 0 /\ \A a \in Nat : a * 0 = 0
    OBVIOUS
  <1>4. PICK p \in [Relays -> Nat] : p = [m \in Relays |-> 0]
    OBVIOUS
  <1>5. Total(p) = 0 /\ \A m \in Relays : p[m] = 0
    BY <1>4, TotalOfNothing
  <1> QED BY <1>1, <1>2, <1>3, <1>4, <1>5 DEF Shared

(* What a new selector has shared out, and what a selector keeps.             *)
LEMMA NewShares ==
    ASSUME NEW s \in AllSettings, IsAggregate(s), GoesRound(NewSelector(s))
    PROVE  Shared([m \in Relays |-> 0], Wheel(NewSelector(s)), Place(NewSelector(s)), 0)
  <1>1. NewSelector(s).agg = s /\ Place(NewSelector(s)) = 0
    BY DEF NewSelector, Place
  <1>2. Wheel(NewSelector(s)) \in Seq(Relays)
    BY <1>1, WheelIsFair
  <1> QED BY <1>1, <1>2, SharesBegin

(* The selector and its history stand.                                        *)
LEMMA SharesStand ==
    ASSUME ShareInv, picked' = picked,
           selector' # NoSelector => /\ selector # NoSelector /\ selector'.agg = selector.agg
                                     /\ selector'.round = selector.round
                                     /\ selector'.weighted = selector.weighted
    PROVE  ShareInv'
  BY DEF ShareInv, GoesRound, Wheel, Place, InTurn

(* The invariant is inductive.                                                *)
LEMMA StepKeepsShares == IInv /\ CandidatesInv /\ ShareInv /\ [Next]_vars => ShareInv'
  <1> SUFFICES ASSUME IInv, CandidatesInv, ShareInv, [Next]_vars PROVE ShareInv'
    OBVIOUS
  <1>1. selector' = selector /\ picked' = picked => ShareInv'
    BY SharesStand
  <1>2. selector' = NoSelector => ShareInv'
    BY DEF ShareInv
  <1>3. CASE UNCHANGED vars
    BY <1>1, <1>3 DEF vars, proxy, history
  <1>4. ASSUME NEW s \in AllSettings, Save(s) PROVE ShareInv'
    BY <1>1, <1>4 DEF Save, history
  <1>5. CASE Probe
    <2>1. settings \in AllSettings
      BY DEF IInv, RequestsTyped
    <2>2. CASE ~IsAggregate(settings)
      BY <1>2, <1>5, <2>2 DEF Probe
    <2>3. CASE IsAggregate(settings) /\ Fits(selector, settings)
      BY <1>1, <1>5, <2>3 DEF Probe, Current, history
    <2>4. CASE IsAggregate(settings) /\ ~Fits(selector, settings)
      <3>1. selector' = NewSelector(settings) /\ picked' = [m \in Relays |-> 0]
        BY <1>5, <2>4 DEF Probe, Current, Forget
      <3>2. PICK sel : sel = NewSelector(settings)
        OBVIOUS
      <3>3. GoesRound(sel) => Shared([m \in Relays |-> 0], Wheel(sel), Place(sel), 0)
        BY <2>1, <2>4, <3>2, NewShares
      <3> QED BY <3>1, <3>2, <3>3 DEF ShareInv, GoesRound, Wheel, Place, InTurn
    <2> QED BY <2>2, <2>3, <2>4
  <1>6. ASSUME NEW r \in Requests, Receive(r) \/ SelectRouted(r) \/ SelectRefused(r) \/ Abort(r)
        PROVE  ShareInv'
    BY <1>1, <1>6 DEF Receive, SelectRouted, SelectRefused, Abort, proxy, history
  <1>7. ASSUME NEW r \in Requests, SelectSingle(r) PROVE ShareInv'
    BY <1>2, <1>7 DEF SelectSingle
  <1>8. ASSUME NEW r \in Requests, Succeed(r) PROVE ShareInv'
    BY <1>1, <1>2, <1>8 DEF Succeed, history
  <1>9. ASSUME NEW r \in Requests, Fail(r) PROVE ShareInv'
    <2>1. CASE IsAggregate(cfg[r])
      BY <1>9, <2>1, ReportNames, SharesStand DEF Fail
    <2>2. CASE ~IsAggregate(cfg[r])
      BY <1>2, <1>9, <2>2 DEF Fail, Reported
    <2> QED BY <2>1, <2>2
  <1>10. ASSUME NEW r \in Requests, SelectMember(r) PROVE ShareInv'
    <2>1. cfg[r] \in AllSettings /\ IsAggregate(cfg[r])
      BY <1>10 DEF SelectMember, IInv, RequestsTyped
    <2>2. PICK sel : sel = Current(cfg[r])
      OBVIOUS
    <2>3. IsSelector(sel) /\ IndexesInside(sel) /\ SelectsMembers(sel)
      BY <2>1, <2>2, CurrentIsSelector, CurrentNames
    <2>4. PICK before \in [Relays -> Nat] :
             before = IF Fits(selector, cfg[r]) THEN picked ELSE [m \in Relays |-> 0]
      BY DEF CandidatesInv
    <2>5. PICK next : next = SelectFrom(sel, conv[r])
      OBVIOUS
    <2>6. selector' = next.after /\ picked' = [before EXCEPT ![next.relay] = @ + 1]
      BY <1>10, <2>2, <2>4, <2>5 DEF SelectMember
    <2>7. GoesRound(sel) => \E turns \in Nat : Shared(before, Wheel(sel), Place(sel), turns)
      <3>1. CASE Fits(selector, cfg[r])
        <4>1. sel = selector /\ before = picked /\ selector # NoSelector
          BY <2>2, <2>4, <3>1 DEF Current, Fits
        <4> QED BY <4>1 DEF ShareInv
      <3>2. CASE ~Fits(selector, cfg[r])
        <4>1. sel = NewSelector(cfg[r]) /\ before = [m \in Relays |-> 0]
          BY <2>2, <2>4, <3>2 DEF Current
        <4> QED BY <2>1, <4>1, NewShares
      <3> QED BY <3>1, <3>2
    <2>8. CASE GoesRound(sel)
      <3>1. PICK q \in Seq(Relays) : q = Wheel(sel)
        BY <2>3, <2>8, WheelIsFair DEF IsSelector
      <3>2. PICK k \in Nat : k = Place(sel) /\ k < Len(q)
        BY <2>3, <2>8, <3>1, PlaceIsInside
      <3>3. PICK turns \in Nat : Shared(before, q, k, turns)
        BY <2>7, <2>8, <3>1, <3>2
      <3>4. /\ next.relay = q[k + 1] /\ next.after.agg = sel.agg
            /\ Place(next.after) = (k + 1) % Len(q) /\ Wheel(next.after) = q
        BY <2>3, <2>5, <2>8, <3>1, <3>2, SelectionMovesOn
      <3>5. \E more \in Nat : Shared([before EXCEPT ![q[k + 1]] = @ + 1], q, (k + 1) % Len(q), more)
        BY <3>2, <3>3, SharesGoOn
      <3>6. PICK after : after = next.after
        OBVIOUS
      <3>7. PICK p : p = [before EXCEPT ![q[k + 1]] = @ + 1]
        OBVIOUS
      <3>8. \E more \in Nat : Shared(p, Wheel(after), Place(after), more)
        BY <3>4, <3>5, <3>6, <3>7
      <3>9. selector' = after /\ picked' = p
        BY <2>6, <3>4, <3>6, <3>7
      <3> QED BY <3>8, <3>9 DEF ShareInv, GoesRound, Wheel, Place, InTurn
    <2>9. CASE ~GoesRound(sel)
      <3>1. next.after.agg = sel.agg
        BY <2>3, <2>5, SelectionKeeps DEF IInv, RequestsTyped
      <3> QED BY <2>6, <2>9, <3>1 DEF ShareInv, GoesRound
    <2> QED BY <2>8, <2>9
  <1> QED BY <1>3, <1>4, <1>5, <1>6, <1>7, <1>8, <1>9, <1>10 DEF Next

(* It holds in every reachable state.                                         *)
THEOREM ShareInvHolds == Spec => []ShareInv
  <1>1. Init => ShareInv
    BY DEF Init, ShareInv
  <1> QED BY <1>1, IInvHolds, CandidatesInvHolds, StepKeepsShares, PTL DEF Spec

(* Rotation by request and by weight is fair: however requests interleave and *)
(* whatever is saved, after every full turn of the selector each member had   *)
(* exactly its weight of the selections, and never more than one turn's       *)
(* weight beyond (relay_rotation.rs, select and weighted_schedule).           *)
THEOREM RotationIsFair == Spec => []FairShare
  <1>1. IInv /\ CandidatesInv /\ ShareInv => FairShare
    <2> SUFFICES ASSUME IInv, CandidatesInv, ShareInv, selector # NoSelector, GoesRound(selector)
                 PROVE  FairShare
      BY DEF FairShare, GoesRound
    <2>1. PICK sel : sel = selector
      OBVIOUS
    <2>2. /\ IsSelector(sel) /\ IndexesInside(sel) /\ SelectsMembers(sel) /\ GoesRound(sel)
          /\ sel.agg \in AllSettings
      BY <2>1 DEF IInv, CandidatesInv, IsSelector
    <2>3. PICK q \in Seq(Relays) : q = Wheel(sel)
      BY <2>2, WheelIsFair
    <2>4. PICK n \in Nat \ {0} : n = Len(q)
      BY <2>2, <2>3, WheelIsFair
    <2>5. PICK k \in Nat : k = Place(sel) /\ k < n
      BY <2>2, <2>3, <2>4, PlaceIsInside
    <2>6. PICK turns \in Nat : Shared(picked, q, k, turns)
      BY <2>1, <2>2, <2>3, <2>5 DEF ShareInv
    <2>7. Picks = Total(picked)
      BY DEF Picks, Total
    <2>8. Picks \div n = turns
      <3>1. Picks = n * turns + k
        BY <2>4, <2>6, <2>7 DEF Shared
      <3> QED BY <2>5, <3>1, FullTurns
    <2>9. n = IF sel.agg.strategy = "weighted" THEN Weights(sel.agg) ELSE Len(sel.agg.members)
      BY <2>2, <2>3, <2>4, MembersTyped DEF Wheel, Weights, InTurn
    <2>10. ASSUME NEW i \in DOMAIN sel.agg.members,
                  NEW w, w = IF sel.agg.strategy = "weighted" THEN Weight(sel.agg.members[i]) ELSE 1
           PROVE  /\ picked[sel.agg.members[i].relay] >= w * turns
                  /\ picked[sel.agg.members[i].relay] <= w * (turns + 1)
      <3>1. PICK m \in Relays : m = sel.agg.members[i].relay
        BY <2>2, MembersTyped
      <3>2. Share(q, m, n) = w
        BY <2>2, <2>3, <2>4, <2>10, <3>1, MembersTyped, WheelIsFair
      <3>3. w \in Nat /\ Share(q, m, k) \in Nat /\ Share(q, m, k) <= w
        BY <2>5, <3>2, ShareIsNat, ShareIsMonotonic
      <3>4. picked[m] = w * turns + Share(q, m, k)
        BY <2>4, <2>6, <3>2 DEF Shared
      <3>5. w * turns \in Nat /\ w * (turns + 1) = w * turns + w
        BY <3>3
      <3> QED BY <3>1, <3>3, <3>4, <3>5
    <2> QED BY <2>1, <2>8, <2>9, <2>10 DEF FairShare
  <1> QED BY <1>1, IInvHolds, CandidatesInvHolds, ShareInvHolds, PTL

(*****************************************************************************)
(* Text: what trimming and splitting return.                                 *)
(*****************************************************************************)

(* A set of naturals that holds a number has a least one.                      *)
LEMMA LeastNatural ==
    ASSUME NEW S, S \subseteq Nat, S # {}
    PROVE  Min(S) \in S /\ \A m \in S : Min(S) <= m
  <1> DEFINE R == OpToRel(<, Nat)
  <1>1. IsWellFoundedOn(R, Nat)
    BY NatLessThanWellFounded
  <1>2. \A x, y \in Nat : y < x => <<y, x>> \in R
    BY DEF OpToRel
  <1> HIDE DEF R
  <1>3. \E x \in S : \A y \in S : ~ (<<y, x>> \in R)
    BY <1>1, WFMin
  <1>4. PICK x \in S : \A y \in S : ~ (<<y, x>> \in R)
    BY <1>3
  <1>5. ASSUME NEW y \in S PROVE x <= y
    <2>1. x \in Nat /\ y \in Nat /\ ~ (<<y, x>> \in R)
      BY <1>4
    <2>2. ~ (y < x)
      BY <1>2, <2>1
    <2> QED BY <2>1, <2>2
  <1> QED BY <1>5 DEF Min

(* There is a first token that is not a blank, or none.                       *)
LEMMA BlanksEnd ==
    ASSUME NEW t \in Seq(Tokens)
    PROVE  \E n \in 0 .. Len(t) : /\ AllBlank(SubSeq(t, 1, n))
                                  /\ n < Len(t) => t[n + 1] # "blank"
  <1> DEFINE S == {n \in 0 .. Len(t) : n < Len(t) => t[n + 1] # "blank"}
  <1>1. Len(t) \in S /\ S \subseteq Nat
    OBVIOUS
  <1>2. Min(S) \in S /\ \A m \in S : Min(S) <= m
    <2> HIDE DEF S
    <2> QED BY <1>1, LeastNatural
  <1>3. PICK n : n = Min(S)
    OBVIOUS
  <1>4. n \in S /\ \A m \in S : n <= m
    BY <1>2, <1>3
  <1>5. n \in 0 .. Len(t) /\ (n < Len(t) => t[n + 1] # "blank")
    BY <1>4
  <1> HIDE DEF S
  <1>6. ASSUME NEW i \in 1 .. n PROVE t[i] = "blank"
    <2>1. PICK m : m = i - 1
      OBVIOUS
    <2>2. m \in 0 .. Len(t) /\ m < Len(t) /\ m < n /\ i = m + 1
      BY <1>5, <2>1
    <2>3. m \notin S
      BY <1>4, <1>5, <2>2
    <2>4. ~ (m < Len(t) => t[m + 1] # "blank")
      BY <2>2, <2>3 DEF S
    <2> QED BY <2>2, <2>4
  <1>7. AllBlank(SubSeq(t, 1, n))
    BY <1>5, <1>6 DEF AllBlank
  <1> QED BY <1>5, <1>7

(* What remains when the blanks in front are taken away.                      *)
Blanks(t) == CHOOSE n \in 0 .. Len(t) : /\ AllBlank(SubSeq(t, 1, n))
                                        /\ n < Len(t) => t[n + 1] # "blank"

(* The number of blanks in front, and the text without them.                  *)
LEMMA TrimmedText ==
    ASSUME NEW t \in Seq(Tokens)
    PROVE  /\ Blanks(t) \in 0 .. Len(t)
           /\ AllBlank(SubSeq(t, 1, Blanks(t)))
           /\ Blanks(t) < Len(t) => t[Blanks(t) + 1] # "blank"
           /\ TrimStart(t) = SubSeq(t, Blanks(t) + 1, Len(t))
           /\ TrimStart(t) \in Seq(Tokens)
  <1>1. /\ Blanks(t) \in 0 .. Len(t)
        /\ AllBlank(SubSeq(t, 1, Blanks(t)))
        /\ Blanks(t) < Len(t) => t[Blanks(t) + 1] # "blank"
    BY BlanksEnd DEF Blanks
  <1>2. TrimStart(t) = SubSeq(t, Blanks(t) + 1, Len(t))
    BY DEF TrimStart, Blanks
  <1>3. SubSeq(t, Blanks(t) + 1, Len(t)) \in Seq(Tokens)
    <2>1. PICK n : n = Blanks(t)
      OBVIOUS
    <2>2. SubSeq(t, n + 1, Len(t)) \in Seq(Tokens)
      BY <1>1, <2>1
    <2> QED BY <2>1, <2>2
  <1> QED BY <1>1, <1>2, <1>3

(* Trimming at both ends returns text.                                        *)
LEMMA TrimIsText ==
    ASSUME NEW t \in Seq(Tokens)
    PROVE  Trim(t) \in Seq(Tokens)
  <1>1. \A u \in Seq(Tokens) : Reverse(u) \in Seq(Tokens)
    BY DEF Reverse
  <1> QED BY <1>1, TrimmedText DEF Trim

(* What an inline block and what follows it hold.                             *)
LEMMA PartsAreText ==
    ASSUME NEW t \in Seq(Tokens)
    PROVE  /\ Body(t) \in Seq(Tokens)
           /\ Trim(Body(t)) \in Seq(Tokens)
           /\ HasThink(t) => Thought(t) \in Seq(Tokens) /\ Answer(t) \in Seq(Tokens)
  <1>1. Body(t) \in Seq(Tokens)
    <2>1. Len(Open) = 2
      BY DEF Open
    <2>2. SubSeq(TrimStart(t), 2 + 1, Len(TrimStart(t))) \in Seq(Tokens)
      BY TrimmedText
    <2> QED BY <2>1, <2>2 DEF Body
  <1>2. ASSUME HasThink(t)
        PROVE  Thought(t) \in Seq(Tokens) /\ Answer(t) \in Seq(Tokens)
    <2>1. Min(Closings(t)) \in Closings(t)
      <3>1. Closings(t) # {} /\ Closings(t) \subseteq Nat
        BY <1>1, <1>2 DEF HasThink, Closings
      <3> QED BY <3>1, LeastNatural
    <2>2. PICK i : i = Min(Closings(t))
      OBVIOUS
    <2>3. i \in 1 .. Len(Body(t)) - 1
      BY <2>1, <2>2 DEF Closings
    <2>4. /\ SubSeq(Body(t), 1, i - 1) \in Seq(Tokens)
          /\ SubSeq(Body(t), i + 2, Len(Body(t))) \in Seq(Tokens)
      BY <1>1, <2>3
    <2> QED BY <2>2, <2>4, TrimIsText, TrimmedText DEF Thought, Answer
  <1> QED BY <1>1, <1>2, TrimIsText

(*****************************************************************************)
(* The converter: what holds of its record whatever the stream says.         *)
(*****************************************************************************)
Words     == Tokens \cup {"r", "x"}
ItemState == [index : Nat, added : {0, 1}, done : {0, 1}, said : Seq(Words), streamed : Seq(Words)]
ToolState == [seen : BOOLEAN, known : BOOLEAN, custom : BOOLEAN,
              as : {"nothing", "plain", "custom", "both"}]
Converter ==
    [started : BOOLEAN, completed : BOOLEAN, failed : BOOLEAN, next : Nat,
     mode : {"detecting", "reasoning", "text"}, buffer : Seq(Tokens),
     item : [Kinds -> ItemState],
     tool : [Tools -> ToolState],
     listed : SUBSET Nat, verdicts : Seq({"created", "completed", "failed"}), reported : Seq(Nat)]

(* The items that were added are numbered from 0 on, each once; an item is   *)
(* done only after it was added, and the list has the numbers of these; the  *)
(* item of a tool call belongs to a call that was heard of.                  *)
Numbered(x) ==
    /\ \A k \in Kinds : x.item[k].added = 0 => x.item[k].index = 0 /\ x.item[k].done = 0
    /\ \A k \in Kinds : x.item[k].added = 1 => x.item[k].index < x.next
    /\ \A j, k \in Kinds : x.item[j].added = 1 /\ x.item[k].added = 1
                              /\ x.item[j].index = x.item[k].index => j = k
    /\ \A n \in Nat : n < x.next => \E k \in Kinds : x.item[k].added = 1 /\ x.item[k].index = n
    /\ \A n \in Nat : n \in x.listed <=> \E k \in Kinds : x.item[k].done = 1 /\ x.item[k].index = n
    /\ \A n \in Tools : x.item[Call(n)].added = 1 => x.tool[n].seen

(* While the answer lasts no tool call is done.  It is added as soon as it   *)
(* has an id or a name; the deltas of one that has been a function call have *)
(* carried its arguments, those of one that has been a custom tool nothing.  *)
CallCarried(t, i) ==
    /\ i.done = 0
    /\ i.added = 1 => t.known = TRUE
    /\ i.added = 0 => t.as = "nothing" /\ i.streamed = << >>
    /\ t.as = "nothing" <=> t.known = FALSE
    /\ t.as = "plain" => t.custom = FALSE /\ i.streamed = i.said
    /\ t.as = "custom" => t.custom = TRUE /\ i.streamed = << >>
Carried(x) == \A n \in Tools : CallCarried(x.tool[n], x.item[Call(n)])

(* And once it is done, those of either have carried all of it.              *)
Whole(t, i) == t.as \in {"plain", "custom"} => i.streamed = i.said

(* What the handling of a block leaves alone, and what it keeps.             *)
Continues(x, y) ==
    /\ y \in Converter /\ Numbered(y)
    /\ y.completed = x.completed /\ y.failed = x.failed /\ y.verdicts = x.verdicts
    /\ Carried(x) => Carried(y)

(* A converter continues through one step after the other.                   *)
LEMMA ContinuesOn ==
    ASSUME NEW x, NEW y, NEW z, Continues(x, y), Continues(y, z)
    PROVE  Continues(x, z)
  BY DEF Continues

(* The items differ from each other.                                         *)
LEMMA KindsDiffer ==
    /\ Text \in Kinds /\ Reasoning \in Kinds /\ Text # Reasoning
    /\ \A n \in Tools : Call(n) \in Kinds /\ Call(n) # Text /\ Call(n) # Reasoning
    /\ \A m, n \in Tools : Call(m) = Call(n) => m = n
    /\ \A k \in Kinds : k = Text \/ k = Reasoning \/ \E n \in Tools : k = Call(n)
  BY DEF Kinds, Text, Reasoning, Call

(* Two states of the items with the same marks.                              *)
SameMarks(x, y) ==
    /\ \A k \in Kinds : /\ y.item[k].index = x.item[k].index
                        /\ y.item[k].added = x.item[k].added
                        /\ y.item[k].done = x.item[k].done
    /\ y.next = x.next /\ y.listed = x.listed
    /\ \A n \in Tools : x.tool[n].seen => y.tool[n].seen

(* What is numbered stays so while the marks stay.                           *)
LEMMA MarksKeepNumbers ==
    ASSUME NEW x, NEW y, Numbered(x), SameMarks(x, y)
    PROVE  Numbered(y)
  BY KindsDiffer DEF Numbered, SameMarks

(* A new mode and buffer.                                                    *)
LEMMA BufferContinues ==
    ASSUME NEW x \in Converter, Numbered(x),
           NEW m \in {"detecting", "reasoning", "text"}, NEW b \in Seq(Tokens)
    PROVE  Continues(x, [x EXCEPT !.mode = m, !.buffer = b])
  <1> DEFINE y == [x EXCEPT !.mode = m, !.buffer = b]
  <1>1. y \in Converter
    BY DEF Converter
  <1>2. /\ y.item = x.item /\ y.next = x.next /\ y.listed = x.listed /\ y.tool = x.tool
        /\ y.completed = x.completed /\ y.failed = x.failed /\ y.verdicts = x.verdicts
    BY DEF Converter
  <1> HIDE DEF y
  <1>3. Numbered(y)
    BY <1>2, MarksKeepNumbers DEF SameMarks
  <1>4. Carried(x) => Carried(y)
    BY <1>2 DEF Carried
  <1>5. Continues(x, y)
    BY <1>1, <1>2, <1>3, <1>4 DEF Continues
  <1> QED BY <1>5 DEF y

(* The next index is taken, by an item that has none.                        *)
LEMMA AddingNumbers ==
    ASSUME NEW x \in Converter, Numbered(x), NEW k \in Kinds, x.item[k].added = 0,
           \A n \in Tools : k = Call(n) => x.tool[n].seen
    PROVE  LET y == Adding(x, k)
           IN  /\ y \in Converter /\ Numbered(y)
               /\ y.completed = x.completed /\ y.failed = x.failed /\ y.verdicts = x.verdicts
               /\ y.started = x.started /\ y.mode = x.mode /\ y.buffer = x.buffer
               /\ y.tool = x.tool /\ y.reported = x.reported
               /\ \A j \in Kinds : j # k => y.item[j] = x.item[j]
               /\ y.item[k].added = 1 /\ y.item[k].done = 0
               /\ y.item[k].said = x.item[k].said /\ y.item[k].streamed = x.item[k].streamed
  <1> DEFINE i == [x.item[k] EXCEPT !.index = x.next, !.added = x.item[k].added + 1]
             items == [x.item EXCEPT ![k] = i]
  <1>0. /\ x.item \in [Kinds -> ItemState] /\ x.item[k] \in ItemState /\ x.next \in Nat
        /\ x.next + 1 \in Nat /\ x.item[k].added + 1 = 1
    BY DEF Converter
  <1>1. i \in ItemState
    BY <1>0 DEF ItemState
  <1>2. i.index = x.next /\ i.added = 1 /\ i.done = x.item[k].done
        /\ i.said = x.item[k].said /\ i.streamed = x.item[k].streamed
    BY <1>0 DEF ItemState
  <1>3. x.item[k].done = 0
    BY DEF Numbered
  <1>4. Adding(x, k) = [x EXCEPT !.next = x.next + 1, !.item = items]
    BY <1>0 DEF Adding, Converter, ItemState
  <1> HIDE DEF i
  <1>5. items \in [Kinds -> ItemState] /\ items[k] = i /\ \A j \in Kinds : j # k => items[j] = x.item[j]
    BY <1>0, <1>1
  <1> HIDE DEF items
  <1> DEFINE y == [x EXCEPT !.next = x.next + 1, !.item = items]
  <1>6. y \in Converter
    BY <1>0, <1>5 DEF Converter
  <1>7. /\ y.next = x.next + 1 /\ y.item = items
        /\ y.completed = x.completed /\ y.failed = x.failed /\ y.verdicts = x.verdicts
        /\ y.started = x.started /\ y.mode = x.mode /\ y.buffer = x.buffer
        /\ y.tool = x.tool /\ y.reported = x.reported /\ y.listed = x.listed
    BY DEF Converter
  <1> HIDE DEF y
  <1>8. /\ \A j \in Kinds : j # k => y.item[j] = x.item[j]
        /\ y.item[k].index = x.next /\ y.item[k].added = 1 /\ y.item[k].done = 0
        /\ y.item[k].said = x.item[k].said /\ y.item[k].streamed = x.item[k].streamed
    BY <1>2, <1>3, <1>5, <1>7
  <1>9. Numbered(y)
    <2>1. \A j \in Kinds : y.item[j].added = 0 => y.item[j].index = 0 /\ y.item[j].done = 0
      BY <1>8 DEF Numbered
    <2>2. \A j \in Kinds : y.item[j].added = 1 => y.item[j].index < y.next
      <3>1. ASSUME NEW j \in Kinds, y.item[j].added = 1 PROVE y.item[j].index < y.next
        <4>1. x.item[j] \in ItemState /\ x.item[j].index \in Nat
          BY <1>0 DEF ItemState
        <4> QED BY <3>1, <4>1, <1>0, <1>7, <1>8 DEF Numbered
      <3> QED BY <3>1
    <2>3. \A j, l \in Kinds : y.item[j].added = 1 /\ y.item[l].added = 1
                                 /\ y.item[j].index = y.item[l].index => j = l
      <3>1. \A j \in Kinds : x.item[j].added = 1 => x.item[j].index # x.next
        <4>1. \A j \in Kinds : x.item[j].index \in Nat
          BY <1>0 DEF ItemState
        <4> QED BY <4>1, <1>0 DEF Numbered
      <3> QED BY <3>1, <1>8 DEF Numbered
    <2>4. \A n \in Nat : n < y.next => \E j \in Kinds : y.item[j].added = 1 /\ y.item[j].index = n
      <3>1. ASSUME NEW n \in Nat, n < y.next
            PROVE  \E j \in Kinds : y.item[j].added = 1 /\ y.item[j].index = n
        <4>1. n < x.next \/ n = x.next
          BY <3>1, <1>0, <1>7
        <4>2. CASE n = x.next
          BY <4>2, <1>8
        <4>3. CASE n < x.next
          <5>1. PICK j \in Kinds : x.item[j].added = 1 /\ x.item[j].index = n
            BY <4>3 DEF Numbered
          <5> QED BY <5>1, <1>8
        <4> QED BY <4>1, <4>2, <4>3
      <3> QED BY <3>1
    <2>5. \A n \in Nat : n \in y.listed <=> \E j \in Kinds : y.item[j].done = 1 /\ y.item[j].index = n
      BY <1>3, <1>7, <1>8 DEF Numbered
    <2>6. \A n \in Tools : y.item[Call(n)].added = 1 => y.tool[n].seen
      BY <1>7, <1>8, KindsDiffer DEF Numbered
    <2> QED BY <2>1, <2>2, <2>3, <2>4, <2>5, <2>6 DEF Numbered
  <1>10. Adding(x, k) = y
    BY <1>4 DEF y
  <1> QED BY <1>6, <1>7, <1>8, <1>9, <1>10

(* An item says more, and its deltas carry it; text and reasoning are added  *)
(* for it.                                                                   *)
LEMMA DeltaContinues ==
    ASSUME NEW x \in Converter, Numbered(x), NEW k \in {Text, Reasoning}, NEW d \in Seq(Words)
    PROVE  /\ Continues(x, Delta(x, k, d))
           /\ Delta(x, k, d).tool = x.tool
           /\ Delta(x, k, d).item[k].added = 1
  <1>0. k \in Kinds /\ \A n \in Tools : Call(n) \in Kinds /\ k # Call(n)
    BY KindsDiffer
  <1>1. PICK y : y = Added(x, k)
    OBVIOUS
  <1>2. /\ y \in Converter /\ Numbered(y)
        /\ y.completed = x.completed /\ y.failed = x.failed /\ y.verdicts = x.verdicts
        /\ y.tool = x.tool
        /\ \A j \in Kinds : j # k => y.item[j] = x.item[j]
        /\ y.item[k].added = 1
    <2>1. CASE x.item[k].added > 0
      <3>1. x.item[k].added = 1
        BY <2>1, <1>0 DEF Converter, ItemState
      <3> QED BY <1>1, <2>1, <3>1 DEF Added
    <2>2. CASE x.item[k].added = 0
      <3>1. y = Adding(x, k)
        BY <1>1, <2>2 DEF Added
      <3> QED BY <1>0, <2>2, <3>1, AddingNumbers
    <2>3. x.item[k] \in ItemState
      BY <1>0 DEF Converter
    <2>4. x.item[k].added \in {0, 1}
      BY <2>3 DEF ItemState
    <2> QED BY <2>1, <2>2, <2>4
  <1> DEFINE i == [y.item[k] EXCEPT !.said = y.item[k].said \o d, !.streamed = y.item[k].streamed \o d]
             items == [y.item EXCEPT ![k] = i]
             z == [y EXCEPT !.item = items]
  <1>3. y.item \in [Kinds -> ItemState] /\ y.item[k] \in ItemState
    BY <1>0, <1>2 DEF Converter
  <1>4. i \in ItemState
    <2>1. y.item[k].said \o d \in Seq(Words) /\ y.item[k].streamed \o d \in Seq(Words)
      BY <1>3 DEF ItemState
    <2> QED BY <1>3, <2>1 DEF ItemState
  <1>5. i.index = y.item[k].index /\ i.added = y.item[k].added /\ i.done = y.item[k].done
    BY <1>3 DEF ItemState
  <1>6. Delta(x, k, d) = z
    BY <1>1 DEF Delta
  <1> HIDE DEF i
  <1>7. items \in [Kinds -> ItemState] /\ items[k] = i /\ \A j \in Kinds : j # k => items[j] = y.item[j]
    BY <1>0, <1>3, <1>4
  <1> HIDE DEF items
  <1>8. z \in Converter
    BY <1>2, <1>7 DEF Converter
  <1>9. /\ z.item = items /\ z.next = y.next /\ z.listed = y.listed /\ z.tool = y.tool
        /\ z.completed = y.completed /\ z.failed = y.failed /\ z.verdicts = y.verdicts
    BY <1>2 DEF Converter
  <1> HIDE DEF z
  <1>10. Numbered(z)
    <2>1. SameMarks(y, z)
      BY <1>5, <1>7, <1>9 DEF SameMarks
    <2> QED BY <1>2, <2>1, MarksKeepNumbers
  <1>11. Carried(x) => Carried(z)
    <2>1. \A n \in Tools : z.item[Call(n)] = x.item[Call(n)] /\ z.tool[n] = x.tool[n]
      BY <1>0, <1>2, <1>7, <1>9
    <2> QED BY <2>1 DEF Carried
  <1>12. Continues(x, z) /\ z.tool = x.tool /\ z.item[k].added = 1
    BY <1>2, <1>5, <1>7, <1>8, <1>9, <1>10, <1>11 DEF Continues
  <1> QED BY <1>6, <1>12

(* An item that was added is done, the others stay as they are.              *)
LEMMA FinishedContinues ==
    ASSUME NEW x \in Converter, Numbered(x), NEW k \in Kinds
    PROVE  LET y == Finished(x, k)
           IN  /\ k \in {Text, Reasoning} => Continues(x, y)
               /\ y \in Converter /\ Numbered(y)
               /\ y.completed = x.completed /\ y.failed = x.failed /\ y.verdicts = x.verdicts
               /\ y.tool = x.tool
               /\ y.item[k].added = x.item[k].added /\ y.item[k].done = x.item[k].added
               /\ y.item[k].said = x.item[k].said /\ y.item[k].streamed = x.item[k].streamed
               /\ \A j \in Kinds : j # k => y.item[j] = x.item[j]
  <1>0. /\ x.item \in [Kinds -> ItemState] /\ x.item[k] \in ItemState /\ x.listed \subseteq Nat
        /\ x.item[k].index \in Nat /\ x.item[k].added \in {0, 1} /\ x.item[k].done \in {0, 1}
    BY DEF Converter, ItemState
  <1>1. CASE x.item[k].added = 0 \/ x.item[k].done > 0
    <2>1. Finished(x, k) = x
      BY <1>1 DEF Finished
    <2>2. x.item[k].done = x.item[k].added
      BY <1>0, <1>1 DEF Numbered
    <2> QED BY <2>1, <2>2 DEF Continues
  <1>2. CASE ~ (x.item[k].added = 0 \/ x.item[k].done > 0)
    <2> DEFINE i == [x.item[k] EXCEPT !.done = x.item[k].done + 1]
               items == [x.item EXCEPT ![k] = i]
               y == [x EXCEPT !.item = items, !.listed = x.listed \cup {x.item[k].index}]
    <2>1. Finished(x, k) = y
      BY <1>2 DEF Finished
    <2>2. x.item[k].added = 1 /\ x.item[k].done = 0 /\ x.item[k].done + 1 = 1
      BY <1>0, <1>2
    <2>3. /\ i \in ItemState
          /\ i.index = x.item[k].index /\ i.added = x.item[k].added /\ i.done = 1
          /\ i.said = x.item[k].said /\ i.streamed = x.item[k].streamed
      BY <1>0, <2>2 DEF ItemState
    <2> HIDE DEF i
    <2>4. items \in [Kinds -> ItemState] /\ items[k] = i /\ \A j \in Kinds : j # k => items[j] = x.item[j]
      BY <1>0, <2>3
    <2> HIDE DEF items
    <2>5. y \in Converter
      BY <1>0, <2>4 DEF Converter
    <2>6. /\ y.item = items /\ y.next = x.next /\ y.tool = x.tool
          /\ y.listed = x.listed \cup {x.item[k].index}
          /\ y.completed = x.completed /\ y.failed = x.failed /\ y.verdicts = x.verdicts
      BY DEF Converter
    <2> HIDE DEF y
    <2>7. /\ \A j \in Kinds : /\ y.item[j].index = x.item[j].index
                              /\ y.item[j].added = x.item[j].added
                              /\ y.item[j].said = x.item[j].said
                              /\ y.item[j].streamed = x.item[j].streamed
          /\ \A j \in Kinds : j # k => y.item[j] = x.item[j]
          /\ y.item[k].done = 1
      BY <2>3, <2>4, <2>6
    <2>8. Numbered(y)
      <3>1. \A j \in Kinds : y.item[j].added = 0 => y.item[j].index = 0 /\ y.item[j].done = 0
        BY <2>2, <2>7 DEF Numbered
      <3>2. \A n \in Nat : n \in y.listed <=> \E j \in Kinds : y.item[j].done = 1 /\ y.item[j].index = n
        <4>1. ASSUME NEW n \in Nat, n \in y.listed
              PROVE  \E j \in Kinds : y.item[j].done = 1 /\ y.item[j].index = n
          <5>1. CASE n = x.item[k].index
            BY <5>1, <2>7
          <5>2. CASE n \in x.listed
            <6>1. PICK j \in Kinds : x.item[j].done = 1 /\ x.item[j].index = n
              BY <5>2 DEF Numbered
            <6> QED BY <6>1, <2>7
          <5> QED BY <4>1, <5>1, <5>2, <2>6
        <4>2. ASSUME NEW n \in Nat, NEW j \in Kinds, y.item[j].done = 1, y.item[j].index = n
              PROVE  n \in y.listed
          <5>1. CASE j = k
            BY <5>1, <4>2, <2>6, <2>7
          <5>2. CASE j # k
            BY <5>2, <4>2, <2>6, <2>7 DEF Numbered
          <5> QED BY <5>1, <5>2
        <4> QED BY <4>1, <4>2
      <3>3. /\ \A j \in Kinds : y.item[j].added = 1 => y.item[j].index < y.next
            /\ \A j, l \in Kinds : y.item[j].added = 1 /\ y.item[l].added = 1
                                      /\ y.item[j].index = y.item[l].index => j = l
            /\ \A n \in Nat : n < y.next => \E j \in Kinds : y.item[j].added = 1 /\ y.item[j].index = n
            /\ \A n \in Tools : y.item[Call(n)].added = 1 => y.tool[n].seen
        BY <2>6, <2>7, KindsDiffer DEF Numbered
      <3> QED BY <3>1, <3>2, <3>3 DEF Numbered
    <2>9. k \in {Text, Reasoning} => (Carried(x) => Carried(y))
      <3>1. k \in {Text, Reasoning} => \A n \in Tools : y.item[Call(n)] = x.item[Call(n)]
        BY <2>7, KindsDiffer
      <3> QED BY <3>1, <2>6 DEF Carried
    <2>10. k \in {Text, Reasoning} => Continues(x, y)
      BY <2>5, <2>6, <2>8, <2>9 DEF Continues
    <2> QED BY <1>0, <2>1, <2>2, <2>5, <2>6, <2>7, <2>8, <2>10
  <1> QED BY <1>1, <1>2

(* Text is words.                                                            *)
LEMMA TokensAreWords == \A t \in Seq(Tokens) : t \in Seq(Words)
  <1>1. Tokens \subseteq Words
    BY DEF Words
  <1> QED BY <1>1

(* A converter that does nothing continues.                                  *)
LEMMA StandingContinues ==
    ASSUME NEW x \in Converter, Numbered(x)
    PROVE  Continues(x, x)
  BY DEF Continues

(* The helpers that send text and reasoning.                                 *)
LEMMA TextContinues ==
    ASSUME NEW x \in Converter, Numbered(x), NEW d \in Seq(Words)
    PROVE  /\ Continues(x, TextDelta(x, d))
           /\ Continues(x, ReasoningDelta(x, d))
           /\ Continues(x, TextAfterReasoning(x, d))
  <1>1. Text \in {Text, Reasoning} /\ Reasoning \in {Text, Reasoning} /\ Reasoning \in Kinds
    BY KindsDiffer
  <1>2. Continues(x, TextDelta(x, d))
    BY <1>1, DeltaContinues, StandingContinues DEF TextDelta
  <1>3. Continues(x, ReasoningDelta(x, d))
    <2>1. CASE d = << >>
      BY <2>1, StandingContinues DEF ReasoningDelta
    <2>2. CASE d # << >>
      <3>1. PICK y : y = Delta(x, Reasoning, d)
        OBVIOUS
      <3>2. Continues(x, y) /\ y \in Converter /\ Numbered(y)
        BY <1>1, <3>1, DeltaContinues DEF Continues
      <3>3. Continues(y, Finished(y, Reasoning))
        BY <1>1, <3>2, FinishedContinues
      <3>4. Continues(x, Finished(y, Reasoning))
        BY <3>2, <3>3, ContinuesOn
      <3> QED BY <2>2, <3>1, <3>4 DEF ReasoningDelta
    <2> QED BY <2>1, <2>2
  <1>4. Continues(x, TextAfterReasoning(x, d))
    <2>1. PICK y : y = Finished(x, Reasoning)
      OBVIOUS
    <2>2. Continues(x, y) /\ y \in Converter /\ Numbered(y)
      BY <1>1, <2>1, FinishedContinues DEF Continues
    <2>3. Continues(y, Delta(y, Text, d))
      BY <1>1, <2>2, DeltaContinues
    <2>4. Continues(x, Delta(y, Text, d))
      BY <2>2, <2>3, ContinuesOn
    <2> QED BY <2>1, <2>4 DEF TextAfterReasoning
  <1> QED BY <1>2, <1>3, <1>4

(* The inline block, once it is closed.                                      *)
LEMMA SplitContinues ==
    ASSUME NEW x \in Converter, Numbered(x)
    PROVE  /\ HasThink(x.buffer) => Continues(x, Split(x))
           /\ Continues(x, Drained(x))
  <1>1. ASSUME HasThink(x.buffer)
        PROVE  Continues(x, Split(x))
    <2>1. x.buffer \in Seq(Tokens)
      BY DEF Converter
    <2>2. Thought(x.buffer) \in Seq(Words) /\ Answer(x.buffer) \in Seq(Words)
      BY <1>1, <2>1, PartsAreText, TokensAreWords
    <2>3. PICK y : y = [x EXCEPT !.mode = "text", !.buffer = << >>]
      OBVIOUS
    <2>4. << >> \in Seq(Tokens)
      OBVIOUS
    <2>5. Continues(x, y) /\ y \in Converter /\ Numbered(y)
      BY <2>3, <2>4, BufferContinues DEF Continues
    <2>6. PICK z : z = ReasoningDelta(y, Thought(x.buffer))
      OBVIOUS
    <2>7. Continues(y, z) /\ z \in Converter /\ Numbered(z)
      BY <2>2, <2>5, <2>6, TextContinues DEF Continues
    <2>8. Continues(z, TextDelta(z, Answer(x.buffer)))
      BY <2>2, <2>7, TextContinues
    <2>9. Continues(x, TextDelta(z, Answer(x.buffer)))
      BY <2>5, <2>7, <2>8, ContinuesOn
    <2> QED BY <2>3, <2>6, <2>9 DEF Split
  <1> QED BY <1>1, StandingContinues DEF Drained

(* A piece of content.                                                       *)
LEMMA ContentContinues ==
    ASSUME NEW x \in Converter, Numbered(x), NEW d \in Seq(Tokens)
    PROVE  Continues(x, ContentDelta(x, d))
  <1>0. x.buffer \in Seq(Tokens) /\ x.buffer \o d \in Seq(Tokens) /\ << >> \in Seq(Tokens)
        /\ x.mode \in {"detecting", "reasoning", "text"}
    BY DEF Converter
  <1>1. PICK y : y = [x EXCEPT !.buffer = x.buffer \o d]
    OBVIOUS
  <1>2. y = [x EXCEPT !.mode = x.mode, !.buffer = x.buffer \o d] /\ y.buffer = x.buffer \o d
    BY <1>1 DEF Converter
  <1>3. Continues(x, y) /\ y \in Converter /\ Numbered(y)
    <2>1. PICK m, b : m = x.mode /\ b = x.buffer \o d
      OBVIOUS
    <2>2. m \in {"detecting", "reasoning", "text"} /\ b \in Seq(Tokens)
          /\ y = [x EXCEPT !.mode = m, !.buffer = b]
      BY <1>0, <1>2, <2>1
    <2>3. Continues(x, y)
      BY <2>2, BufferContinues
    <2> QED BY <2>3 DEF Continues
  <1>4. CASE x.mode = "text"
    <2>1. ContentDelta(x, d) = TextAfterReasoning(x, d)
      BY <1>4 DEF ContentDelta
    <2> QED BY <2>1, TextContinues, TokensAreWords
  <1>5. CASE x.mode = "reasoning"
    <2>1. ContentDelta(x, d) = Drained(y)
      BY <1>1, <1>5 DEF ContentDelta
    <2>2. Continues(y, Drained(y))
      BY <1>3, SplitContinues
    <2> QED BY <1>3, <2>1, <2>2, ContinuesOn
  <1>6. CASE x.mode = "detecting"
    <2>0. Decision(y.buffer) \in {"more", "reasoning", "text"}
      BY DEF Decision
    <2>1. CASE Decision(y.buffer) = "more"
      <3>1. ContentDelta(x, d) = y
        BY <1>1, <1>6, <2>1 DEF ContentDelta
      <3> QED BY <1>3, <3>1
    <2>2. CASE Decision(y.buffer) = "reasoning"
      <3>1. PICK z : z = [y EXCEPT !.mode = "reasoning"]
        OBVIOUS
      <3>2. ContentDelta(x, d) = Drained(z)
        BY <1>1, <1>6, <2>2, <3>1 DEF ContentDelta
      <3>3. z = [y EXCEPT !.mode = "reasoning", !.buffer = y.buffer]
        BY <1>3, <3>1 DEF Converter
      <3>4. "reasoning" \in {"detecting", "reasoning", "text"} /\ y.buffer \in Seq(Tokens)
        BY <1>0, <1>2
      <3>5. Continues(y, z)
        BY <1>3, <3>3, <3>4, BufferContinues
      <3>6. Continues(z, Drained(z))
        BY <3>5, SplitContinues DEF Continues
      <3> QED BY <1>3, <3>2, <3>5, <3>6, ContinuesOn
    <2>3. CASE Decision(y.buffer) = "text"
      <3>1. PICK z : z = [y EXCEPT !.mode = "text", !.buffer = << >>]
        OBVIOUS
      <3>2. ContentDelta(x, d) = TextAfterReasoning(z, y.buffer)
        BY <1>1, <1>6, <2>3, <3>1 DEF ContentDelta
      <3>3. Continues(y, z) /\ z \in Converter /\ Numbered(z)
        BY <1>0, <1>3, <3>1, BufferContinues DEF Continues
      <3>4. Continues(z, TextAfterReasoning(z, y.buffer))
        BY <1>0, <1>2, <3>3, TextContinues, TokensAreWords
      <3> QED BY <1>3, <3>2, <3>3, <3>4, ContinuesOn
    <2> QED BY <2>0, <2>1, <2>2, <2>3
  <1> QED BY <1>0, <1>4, <1>5, <1>6

(* The boundary before tool calls and at the end.                            *)
LEMMA FlushedContinues ==
    ASSUME NEW x \in Converter, Numbered(x)
    PROVE  Continues(x, Flushed(x))
  <1>0. x.buffer \in Seq(Tokens) /\ << >> \in Seq(Tokens)
    BY DEF Converter
  <1>1. PICK y : y = [x EXCEPT !.mode = "text", !.buffer = << >>]
    OBVIOUS
  <1>2. Continues(x, y) /\ y \in Converter /\ Numbered(y)
    BY <1>0, <1>1, BufferContinues DEF Continues
  <1>3. CASE x.mode = "text" \/ x.buffer = << >>
    <2>1. Flushed(x) = y
      BY <1>1, <1>3 DEF Flushed
    <2> QED BY <1>2, <2>1
  <1>4. CASE ~ (x.mode = "text" \/ x.buffer = << >>) /\ x.mode = "detecting"
    <2>1. Flushed(x) = TextAfterReasoning(y, x.buffer)
      BY <1>1, <1>4 DEF Flushed
    <2>2. Continues(y, TextAfterReasoning(y, x.buffer))
      BY <1>0, <1>2, TextContinues, TokensAreWords
    <2> QED BY <1>2, <2>1, <2>2, ContinuesOn
  <1>5. CASE ~ (x.mode = "text" \/ x.buffer = << >>) /\ x.mode # "detecting" /\ HasThink(x.buffer)
    <2>1. Flushed(x) = Split(x)
      BY <1>5 DEF Flushed
    <2> QED BY <1>5, <2>1, SplitContinues
  <1>6. CASE ~ (x.mode = "text" \/ x.buffer = << >>) /\ x.mode # "detecting" /\ ~ HasThink(x.buffer)
    <2>1. Flushed(x) = ReasoningDelta(y, Trim(Body(x.buffer)))
      BY <1>1, <1>6 DEF Flushed
    <2>2. Trim(Body(x.buffer)) \in Seq(Words)
      BY <1>0, PartsAreText, TokensAreWords
    <2>3. Continues(y, ReasoningDelta(y, Trim(Body(x.buffer))))
      BY <1>2, <2>2, TextContinues
    <2> QED BY <1>2, <2>1, <2>3, ContinuesOn
  <1> QED BY <1>3, <1>4, <1>5, <1>6

(* What the delta of a tool call carries.                                    *)
LEMMA StreamedKeeps ==
    ASSUME NEW x \in Converter, Numbered(x), NEW k \in Kinds, NEW a \in Seq(Words)
    PROVE  LET y == Streamed(x, k, a)
           IN  /\ y \in Converter /\ Numbered(y)
               /\ y.completed = x.completed /\ y.failed = x.failed /\ y.verdicts = x.verdicts
               /\ y.tool = x.tool
               /\ \A j \in Kinds : j # k => y.item[j] = x.item[j]
               /\ y.item[k].added = x.item[k].added /\ y.item[k].done = x.item[k].done
               /\ y.item[k].said = x.item[k].said
               /\ y.item[k].streamed = x.item[k].streamed \o a
  <1> DEFINE i == [x.item[k] EXCEPT !.streamed = x.item[k].streamed \o a]
             items == [x.item EXCEPT ![k] = i]
             y == [x EXCEPT !.item = items]
  <1>1. x.item \in [Kinds -> ItemState] /\ x.item[k] \in ItemState
    BY DEF Converter
  <1>2. x.item[k].streamed \o a \in Seq(Words)
    BY <1>1 DEF ItemState
  <1>3. /\ i \in ItemState
        /\ i.index = x.item[k].index /\ i.added = x.item[k].added /\ i.done = x.item[k].done
        /\ i.said = x.item[k].said /\ i.streamed = x.item[k].streamed \o a
    BY <1>1, <1>2 DEF ItemState
  <1>4. Streamed(x, k, a) = y
    BY DEF Streamed
  <1> HIDE DEF i
  <1>5. items \in [Kinds -> ItemState] /\ items[k] = i /\ \A j \in Kinds : j # k => items[j] = x.item[j]
    BY <1>1, <1>3
  <1> HIDE DEF items
  <1>6. y \in Converter
    BY <1>5 DEF Converter
  <1>7. /\ y.item = items /\ y.next = x.next /\ y.listed = x.listed /\ y.tool = x.tool
        /\ y.completed = x.completed /\ y.failed = x.failed /\ y.verdicts = x.verdicts
    BY DEF Converter
  <1> HIDE DEF y
  <1>8. Numbered(y)
    <2>1. SameMarks(x, y)
      BY <1>3, <1>5, <1>7 DEF SameMarks
    <2> QED BY <2>1, MarksKeepNumbers
  <1> QED BY <1>3, <1>4, <1>5, <1>6, <1>7, <1>8

(* What a call says of a tool.                                               *)
LEMMA HeardKeeps ==
    ASSUME NEW t \in ToolState, NEW c \in Calls
    PROVE  LET u == Heard(t, c)
           IN  /\ u \in ToolState /\ u.seen = TRUE
               /\ t.known = TRUE => u.known = TRUE
               /\ (t.as = "nothing" <=> t.known = FALSE) => (u.as = "nothing" <=> u.known = FALSE)
               /\ u.as = "plain" => u.custom = FALSE /\ t.as \in {"nothing", "plain"}
               /\ u.as = "custom" => u.custom = TRUE /\ t.as \in {"nothing", "custom"}
  <1> DEFINE known == t.known \/ c.id \/ c.name # "none"
             custom == IF c.name = "none" THEN t.custom ELSE c.name = "custom"
             v == [t EXCEPT !.seen = TRUE, !.known = known, !.custom = custom]
  <1>1. /\ t.known \in BOOLEAN /\ t.custom \in BOOLEAN
        /\ t.as \in {"nothing", "plain", "custom", "both"}
        /\ c.id \in BOOLEAN
    BY DEF ToolState, Calls
  <1>2. known \in BOOLEAN /\ custom \in BOOLEAN
    BY <1>1
  <1>3. t.known = TRUE => known = TRUE
    OBVIOUS
  <1>4. Named(t, c) = v
    BY DEF Named
  <1> HIDE DEF known, custom
  <1>5. v \in ToolState /\ v.seen = TRUE /\ v.known = known /\ v.custom = custom /\ v.as = t.as
    BY <1>2 DEF ToolState
  <1> HIDE DEF v
  <1>6. PICK b : b = Been(v)
    OBVIOUS
  <1>7. CASE known = FALSE
    <2>1. b = "nothing"
      BY <1>5, <1>6, <1>7 DEF Been
    <2> DEFINE u == [v EXCEPT !.as = b]
    <2>2. u \in ToolState
      BY <1>5, <2>1 DEF ToolState
    <2>3. u.seen = TRUE /\ u.known = FALSE /\ u.as = "nothing"
      BY <1>5, <1>7, <2>1 DEF ToolState
    <2>4. Heard(t, c) = u
      BY <1>4, <1>6 DEF Heard
    <2> HIDE DEF u
    <2> QED BY <1>3, <1>7, <2>2, <2>3, <2>4
  <1>8. CASE known = TRUE
    <2> DEFINE u == [v EXCEPT !.as = b]
    <2>1. /\ b \in {"plain", "custom", "both"}
          /\ b = "plain" => custom = FALSE /\ t.as \in {"nothing", "plain"}
          /\ b = "custom" => custom = TRUE /\ t.as \in {"nothing", "custom"}
      <3>1. CASE custom = TRUE
        <4>1. b = IF t.as \in {"nothing", "custom"} THEN "custom" ELSE "both"
          BY <1>5, <1>6, <1>8, <3>1 DEF Been
        <4> QED BY <3>1, <4>1
      <3>2. CASE custom = FALSE
        <4>1. b = IF t.as \in {"nothing", "plain"} THEN "plain" ELSE "both"
          BY <1>5, <1>6, <1>8, <3>2 DEF Been
        <4> QED BY <3>2, <4>1
      <3> QED BY <1>2, <3>1, <3>2
    <2>2. u \in ToolState
      BY <1>5, <2>1 DEF ToolState
    <2>3. u.seen = TRUE /\ u.known = TRUE /\ u.custom = custom /\ u.as = b
      BY <1>5, <1>8 DEF ToolState
    <2>4. Heard(t, c) = u
      BY <1>4, <1>6 DEF Heard
    <2> HIDE DEF u
    <2> QED BY <2>1, <2>2, <2>3, <2>4
  <1> QED BY <1>2, <1>7, <1>8

(* What a call adds to the state of its tool.                                *)
LEMMA ToolHeardKeeps ==
    ASSUME NEW x \in Converter, Numbered(x), NEW c \in Calls
    PROVE  LET y == ToolHeard(x, c)
               k == Call(c.index)
           IN  /\ y \in Converter /\ Numbered(y)
               /\ y.completed = x.completed /\ y.failed = x.failed /\ y.verdicts = x.verdicts
               /\ \A n \in Tools : n # c.index => y.tool[n] = x.tool[n]
               /\ y.tool[c.index] = Heard(x.tool[c.index], c)
               /\ y.tool[c.index].seen = TRUE
               /\ \A j \in Kinds : j # k => y.item[j] = x.item[j]
               /\ y.item[k].added = x.item[k].added /\ y.item[k].done = x.item[k].done
               /\ y.item[k].said = x.item[k].said \o c.args
               /\ y.item[k].streamed = x.item[k].streamed
  <1> DEFINE k == Call(c.index)
             t == Heard(x.tool[c.index], c)
             tools == [x.tool EXCEPT ![c.index] = t]
             i == [x.item[k] EXCEPT !.said = x.item[k].said \o c.args]
             items == [x.item EXCEPT ![k] = i]
             y == [x EXCEPT !.tool = tools, !.item = items]
  <1>0. c.index \in Tools /\ c.args \in Seq(Words)
    <2>1. << >> \in Seq(Words) /\ "x" \in Words
      BY DEF Words
    <2>2. <<"x">> \in Seq(Words)
      BY <2>1
    <2>3. c.index \in Tools /\ c.args \in {<< >>, <<"x">>}
      BY DEF Calls
    <2> QED BY <2>1, <2>2, <2>3
  <1>1. /\ k \in Kinds
        /\ x.item \in [Kinds -> ItemState] /\ x.item[k] \in ItemState
        /\ x.tool \in [Tools -> ToolState] /\ x.tool[c.index] \in ToolState
    BY <1>0, KindsDiffer DEF Converter
  <1>2. x.item[k].said \o c.args \in Seq(Words)
    BY <1>0, <1>1 DEF ItemState
  <1>3. /\ i \in ItemState
        /\ i.index = x.item[k].index /\ i.added = x.item[k].added /\ i.done = x.item[k].done
        /\ i.said = x.item[k].said \o c.args /\ i.streamed = x.item[k].streamed
    BY <1>1, <1>2 DEF ItemState
  <1>4. ToolHeard(x, c) = y
    BY DEF ToolHeard
  <1>6. t \in ToolState /\ t.seen = TRUE
    <2>1. PICK o : o = x.tool[c.index]
      OBVIOUS
    <2>2. o \in ToolState
      BY <1>1, <2>1
    <2>3. Heard(o, c) \in ToolState /\ Heard(o, c).seen = TRUE
      BY <2>2, HeardKeeps
    <2> QED BY <2>1, <2>3
  <1> HIDE DEF t, i, k
  <1>7. /\ items \in [Kinds -> ItemState] /\ items[k] = i
        /\ \A j \in Kinds : j # k => items[j] = x.item[j]
    BY <1>1, <1>3
  <1>8. /\ tools \in [Tools -> ToolState] /\ tools[c.index] = t
        /\ \A n \in Tools : n # c.index => tools[n] = x.tool[n]
    BY <1>0, <1>1, <1>6
  <1> HIDE DEF items, tools
  <1>9. y \in Converter
    BY <1>7, <1>8 DEF Converter
  <1>10. /\ y.item = items /\ y.next = x.next /\ y.listed = x.listed /\ y.tool = tools
         /\ y.completed = x.completed /\ y.failed = x.failed /\ y.verdicts = x.verdicts
    BY DEF Converter
  <1> HIDE DEF y
  <1>11. y.tool[c.index].seen = TRUE /\ \A n \in Tools : x.tool[n].seen => y.tool[n].seen
    BY <1>6, <1>8, <1>10
  <1>12. Numbered(y)
    <2>1. SameMarks(x, y)
      BY <1>3, <1>7, <1>10, <1>11 DEF SameMarks
    <2> QED BY <2>1, MarksKeepNumbers
  <1>13. y.tool[c.index] = t
    BY <1>8, <1>10
  <1>14. /\ \A n \in Tools : n # c.index => y.tool[n] = x.tool[n]
         /\ \A j \in Kinds : j # k => y.item[j] = x.item[j]
         /\ y.item[k].added = x.item[k].added /\ y.item[k].done = x.item[k].done
         /\ y.item[k].said = x.item[k].said \o c.args
         /\ y.item[k].streamed = x.item[k].streamed
    BY <1>3, <1>7, <1>8, <1>10
  <1> QED BY <1>4, <1>9, <1>10, <1>11, <1>12, <1>13, <1>14 DEF k, t

(* A delta of arguments carries them for a function call, and is not sent    *)
(* for a custom tool.                                                        *)
ArgumentsKept(x, y, n, k, a) ==
    /\ y \in Converter /\ Numbered(y)
    /\ y.completed = x.completed /\ y.failed = x.failed /\ y.verdicts = x.verdicts
    /\ y.tool = x.tool
    /\ \A j \in Kinds : j # k => y.item[j] = x.item[j]
    /\ y.item[k].added = x.item[k].added /\ y.item[k].done = x.item[k].done
    /\ y.item[k].said = x.item[k].said
    /\ x.tool[n].custom = TRUE => y.item[k].streamed = x.item[k].streamed
    /\ x.tool[n].custom = FALSE => y.item[k].streamed = x.item[k].streamed \o a

(* It leaves everything else alone.                                          *)
LEMMA ArgumentsKeep ==
    ASSUME NEW x \in Converter, Numbered(x), NEW n \in Tools, NEW a \in Seq(Words)
    PROVE  ArgumentsKept(x, ArgumentsDelta(x, n, a), n, Call(n), a)
  <1>1. Call(n) \in Kinds
    BY KindsDiffer
  <1>2. CASE x.tool[n].custom = TRUE
    <2>1. ArgumentsDelta(x, n, a) = x
      BY <1>2 DEF ArgumentsDelta
    <2> QED BY <1>2, <2>1 DEF ArgumentsKept
  <1>3. CASE x.tool[n].custom = FALSE
    <2>1. ArgumentsDelta(x, n, a) = Streamed(x, Call(n), a)
      BY <1>3 DEF ArgumentsDelta
    <2>2. PICK k, y : k = Call(n) /\ y = Streamed(x, k, a)
      OBVIOUS
    <2>3. /\ y \in Converter /\ Numbered(y)
          /\ y.completed = x.completed /\ y.failed = x.failed /\ y.verdicts = x.verdicts
          /\ y.tool = x.tool
          /\ \A j \in Kinds : j # k => y.item[j] = x.item[j]
          /\ y.item[k].added = x.item[k].added /\ y.item[k].done = x.item[k].done
          /\ y.item[k].said = x.item[k].said
          /\ y.item[k].streamed = x.item[k].streamed \o a
      BY <1>1, <2>2, StreamedKeeps
    <2>4. ArgumentsKept(x, y, n, k, a)
      BY <1>3, <2>3 DEF ArgumentsKept
    <2> QED BY <2>1, <2>2, <2>4
  <1>4. x.tool[n].custom \in BOOLEAN
    BY DEF Converter, ToolState
  <1> QED BY <1>2, <1>3, <1>4

(* A tool call that is carried stays so with what a further call says of it. *)
LEMMA CarriedOn ==
    ASSUME NEW t \in ToolState, NEW c \in Calls, NEW i \in ItemState, NEW j \in ItemState,
           NEW a \in Seq(Words), CallCarried(t, i),
           j.done = i.done, j.said = i.said \o a,
           \/ /\ i.added = 1 /\ j.added = 1
              /\ Heard(t, c).custom = TRUE => j.streamed = i.streamed
              /\ Heard(t, c).custom = FALSE => j.streamed = i.streamed \o a
           \/ /\ i.added = 0 /\ j.added = 1 /\ Heard(t, c).known = TRUE
              /\ Heard(t, c).custom = TRUE => j.streamed = i.streamed
              /\ Heard(t, c).custom = FALSE => j.streamed = i.streamed \o j.said
           \/ /\ i.added = 0 /\ j.added = 0 /\ Heard(t, c).known = FALSE
              /\ j.streamed = i.streamed
    PROVE  CallCarried(Heard(t, c), j)
  <1>1. PICK u : u = Heard(t, c)
    OBVIOUS
  <1>2. /\ u \in ToolState
        /\ t.known = TRUE => u.known = TRUE
        /\ (t.as = "nothing" <=> t.known = FALSE) => (u.as = "nothing" <=> u.known = FALSE)
        /\ u.as = "plain" => u.custom = FALSE /\ t.as \in {"nothing", "plain"}
        /\ u.as = "custom" => u.custom = TRUE /\ t.as \in {"nothing", "custom"}
    BY <1>1, HeardKeeps
  <1>3. /\ t.known \in BOOLEAN /\ u.known \in BOOLEAN
        /\ j.said \in Seq(Words) /\ i.said \in Seq(Words) /\ i.streamed \in Seq(Words)
    BY <1>2 DEF ToolState, ItemState
  <1>4. << >> \o j.said = j.said
    BY <1>3, ConcatEmptySeq
  <1>5. /\ i.done = 0
        /\ i.added = 1 => t.known = TRUE
        /\ i.added = 0 => t.as = "nothing" /\ i.streamed = << >>
        /\ t.as = "nothing" <=> t.known = FALSE
        /\ t.as = "plain" => t.custom = FALSE /\ i.streamed = i.said
        /\ t.as = "custom" => t.custom = TRUE /\ i.streamed = << >>
    BY DEF CallCarried
  <1>6. CASE i.added = 1
    <2>1. j.added = 1 /\ t.as # "nothing" /\ u.known = TRUE /\ u.as # "nothing"
          /\ (u.custom = TRUE => j.streamed = i.streamed)
          /\ (u.custom = FALSE => j.streamed = i.streamed \o a)
      BY <1>1, <1>2, <1>5, <1>6
    <2>2. u.as = "plain" => u.custom = FALSE /\ j.streamed = j.said
      BY <1>2, <1>5, <2>1
    <2>3. u.as = "custom" => u.custom = TRUE /\ j.streamed = << >>
      BY <1>2, <1>5, <2>1
    <2> QED BY <1>1, <1>5, <2>1, <2>2, <2>3 DEF CallCarried
  <1>7. CASE i.added = 0 /\ j.added = 1
    <2>1. u.known = TRUE /\ u.as # "nothing" /\ i.streamed = << >>
          /\ (u.custom = TRUE => j.streamed = i.streamed)
          /\ (u.custom = FALSE => j.streamed = i.streamed \o j.said)
      BY <1>1, <1>2, <1>5, <1>7
    <2>2. u.as = "plain" => u.custom = FALSE /\ j.streamed = j.said
      BY <1>2, <1>4, <2>1
    <2>3. u.as = "custom" => u.custom = TRUE /\ j.streamed = << >>
      BY <1>2, <2>1
    <2> QED BY <1>1, <1>5, <1>7, <2>1, <2>2, <2>3 DEF CallCarried
  <1>8. CASE i.added = 0 /\ j.added = 0
    <2>1. u.known = FALSE /\ u.as = "nothing" /\ j.streamed = << >>
      BY <1>1, <1>2, <1>5, <1>8
    <2> QED BY <1>1, <1>5, <1>8, <2>1 DEF CallCarried
  <1>9. i.added \in {0, 1} /\ j.added \in {0, 1}
    BY DEF ItemState
  <1> QED BY <1>6, <1>7, <1>8, <1>9

(* What a step on one tool call leaves of what is carried.                   *)
LEMMA OneCarried ==
    ASSUME NEW x, NEW y, NEW n \in Tools, Carried(x),
           \A m \in Tools : m # n => y.tool[m] = x.tool[m] /\ y.item[Call(m)] = x.item[Call(m)],
           CallCarried(y.tool[n], y.item[Call(n)])
    PROVE  Carried(y)
  <1>1. ASSUME NEW m \in Tools PROVE CallCarried(y.tool[m], y.item[Call(m)])
    <2>1. CASE m = n
      BY <2>1
    <2>2. CASE m # n
      BY <2>2 DEF Carried
    <2> QED BY <2>1, <2>2
  <1> QED BY <1>1 DEF Carried

(* A tool call's delta.                                                      *)
LEMMA ToolContinues ==
    ASSUME NEW x \in Converter, Numbered(x), NEW c \in Calls
    PROVE  Continues(x, ToolDelta(x, c))
  <1>1. PICK n, a : n = c.index /\ a = c.args
    OBVIOUS
  <1>2. PICK k : k = Call(n)
    OBVIOUS
  <1>3. n \in Tools /\ c.args \in {<< >>, <<"x">>}
    BY <1>1 DEF Calls
  <1>4. /\ k \in Kinds /\ \A m \in Tools : Call(m) \in Kinds /\ (k = Call(m) => m = n)
    BY <1>2, <1>3, KindsDiffer
  <1>5. PICK y : y = ToolHeard(x, c)
    OBVIOUS
  <1>6. /\ y \in Converter /\ Numbered(y)
        /\ y.completed = x.completed /\ y.failed = x.failed /\ y.verdicts = x.verdicts
        /\ \A m \in Tools : m # n => y.tool[m] = x.tool[m]
        /\ y.tool[n] = Heard(x.tool[n], c)
        /\ y.tool[n].seen = TRUE
        /\ \A j \in Kinds : j # k => y.item[j] = x.item[j]
        /\ y.item[k].added = x.item[k].added /\ y.item[k].done = x.item[k].done
        /\ y.item[k].said = x.item[k].said \o a
        /\ y.item[k].streamed = x.item[k].streamed
    BY <1>1, <1>2, <1>5, ToolHeardKeeps
  <1>7. /\ a \in Seq(Words) /\ y.item[k].said \in Seq(Words)
        /\ x.item[k] \in ItemState /\ y.item[k] \in ItemState
        /\ x.item[k].added \in {0, 1}
        /\ x.tool[n] \in ToolState /\ y.tool[n] \in ToolState
    <2>1. << >> \in Seq(Words) /\ "x" \in Words
      BY DEF Words
    <2>2. <<"x">> \in Seq(Words)
      BY <2>1
    <2>3. y.item[k] \in ItemState /\ x.item[k] \in ItemState /\ x.tool[n] \in ToolState
          /\ y.tool[n] \in ToolState
      BY <1>3, <1>4, <1>6 DEF Converter
    <2> QED BY <1>1, <1>3, <2>1, <2>2, <2>3 DEF ItemState
  <1> DEFINE Follows(z) ==
               /\ z \in Converter /\ Numbered(z)
               /\ z.completed = x.completed /\ z.failed = x.failed /\ z.verdicts = x.verdicts
               /\ z.tool = y.tool
               /\ \A j \in Kinds : j # k => z.item[j] = x.item[j]
               /\ z.item[k].done = x.item[k].done /\ z.item[k].said = x.item[k].said \o a
  <1>8. ASSUME NEW z, Follows(z),
               \/ /\ x.item[k].added = 1 /\ z.item[k].added = 1
                  /\ y.tool[n].custom = TRUE => z.item[k].streamed = x.item[k].streamed
                  /\ y.tool[n].custom = FALSE => z.item[k].streamed = x.item[k].streamed \o a
               \/ /\ x.item[k].added = 0 /\ z.item[k].added = 1 /\ y.tool[n].known = TRUE
                  /\ y.tool[n].custom = TRUE => z.item[k].streamed = x.item[k].streamed
                  /\ y.tool[n].custom = FALSE => z.item[k].streamed = x.item[k].streamed \o z.item[k].said
               \/ /\ x.item[k].added = 0 /\ z.item[k].added = 0 /\ y.tool[n].known = FALSE
                  /\ z.item[k].streamed = x.item[k].streamed
        PROVE  Continues(x, z)
    <2>1. ASSUME Carried(x) PROVE Carried(z)
      <3>1. PICK t, i, j : t = x.tool[n] /\ i = x.item[k] /\ j = z.item[k]
        OBVIOUS
      <3>2. t \in ToolState /\ i \in ItemState /\ j \in ItemState
        BY <1>4, <1>7, <1>8, <3>1 DEF Converter
      <3>3. CallCarried(t, i)
        BY <1>2, <1>3, <2>1, <3>1 DEF Carried
      <3>4. /\ j.done = i.done /\ j.said = i.said \o a
            /\ \/ /\ i.added = 1 /\ j.added = 1
                  /\ Heard(t, c).custom = TRUE => j.streamed = i.streamed
                  /\ Heard(t, c).custom = FALSE => j.streamed = i.streamed \o a
               \/ /\ i.added = 0 /\ j.added = 1 /\ Heard(t, c).known = TRUE
                  /\ Heard(t, c).custom = TRUE => j.streamed = i.streamed
                  /\ Heard(t, c).custom = FALSE => j.streamed = i.streamed \o j.said
               \/ /\ i.added = 0 /\ j.added = 0 /\ Heard(t, c).known = FALSE
                  /\ j.streamed = i.streamed
        BY <1>6, <1>8, <3>1
      <3>5. CallCarried(Heard(t, c), j)
        BY <1>7, <3>2, <3>3, <3>4, CarriedOn
      <3>6. CallCarried(z.tool[n], z.item[Call(n)])
        BY <1>2, <1>6, <1>8, <3>1, <3>5
      <3>7. \A m \in Tools : m # n => z.tool[m] = x.tool[m] /\ z.item[Call(m)] = x.item[Call(m)]
        BY <1>2, <1>4, <1>6, <1>8
      <3> QED BY <1>3, <2>1, <3>6, <3>7, OneCarried
    <2> QED BY <1>8, <2>1 DEF Continues
  <1>9. CASE x.item[k].added = 1
    <2>1. PICK z : z = ArgumentsDelta(y, n, a)
      OBVIOUS
    <2>2. ToolDelta(x, c) = z
      BY <1>1, <1>2, <1>5, <1>9, <2>1 DEF ToolDelta
    <2>3. ArgumentsKept(y, z, n, k, a)
      BY <1>2, <1>3, <1>6, <1>7, <2>1, ArgumentsKeep
    <2>4. Follows(z)
      BY <1>6, <2>3 DEF ArgumentsKept
    <2>5. Continues(x, z)
      BY <1>6, <1>8, <1>9, <2>3, <2>4 DEF ArgumentsKept
    <2> QED BY <2>2, <2>5
  <1>10. CASE x.item[k].added = 0 /\ y.tool[n].known = TRUE
    <2>1. PICK w : w = Adding(y, k)
      OBVIOUS
    <2>2. PICK b : b = y.item[k].said
      OBVIOUS
    <2>3. PICK z : z = ArgumentsDelta(w, n, b)
      OBVIOUS
    <2>4. ToolDelta(x, c) = z
      BY <1>1, <1>2, <1>5, <1>10, <2>1, <2>2, <2>3 DEF ToolDelta
    <2>5. \A m \in Tools : k = Call(m) => y.tool[m].seen
      BY <1>4, <1>6
    <2>6. /\ w \in Converter /\ Numbered(w)
          /\ w.completed = y.completed /\ w.failed = y.failed /\ w.verdicts = y.verdicts
          /\ w.tool = y.tool
          /\ \A j \in Kinds : j # k => w.item[j] = y.item[j]
          /\ w.item[k].added = 1 /\ w.item[k].done = 0
          /\ w.item[k].said = y.item[k].said /\ w.item[k].streamed = y.item[k].streamed
      BY <1>4, <1>6, <1>10, <2>1, <2>5, AddingNumbers
    <2>7. y.item[k].done = 0
      BY <1>4, <1>6, <1>10 DEF Numbered
    <2>8. b \in Seq(Words)
      BY <1>7, <2>2
    <2>9. ArgumentsKept(w, z, n, k, b)
      BY <1>2, <1>3, <2>3, <2>6, <2>8, ArgumentsKeep
    <2>10. Follows(z)
      BY <1>6, <2>6, <2>7, <2>9 DEF ArgumentsKept
    <2>11. Continues(x, z)
      <3>1. z.item[k].added = 1 /\ z.item[k].said = b
        BY <2>2, <2>6, <2>9 DEF ArgumentsKept
      <3>2. /\ y.tool[n].custom = TRUE => z.item[k].streamed = x.item[k].streamed
            /\ y.tool[n].custom = FALSE => z.item[k].streamed = x.item[k].streamed \o z.item[k].said
        BY <1>6, <2>6, <2>9, <3>1 DEF ArgumentsKept
      <3> QED BY <1>8, <1>10, <2>10, <3>1, <3>2
    <2> QED BY <2>4, <2>11
  <1>11. CASE x.item[k].added = 0 /\ y.tool[n].known = FALSE
    <2>1. ToolDelta(x, c) = y
      BY <1>1, <1>2, <1>5, <1>11 DEF ToolDelta
    <2>2. Follows(y)
      BY <1>6
    <2>3. Continues(x, y)
      BY <1>6, <1>8, <1>11, <2>2
    <2> QED BY <2>1, <2>3
  <1>12. y.tool[n].known \in BOOLEAN
    BY <1>7 DEF ToolState
  <1> QED BY <1>7, <1>9, <1>10, <1>11, <1>12

(* The converter after each of the calls of a chunk.                           *)
IsHeard(f, x, calls, n) == f = [i \in 0..n |-> IF i = 0 THEN x ELSE ToolDelta(f[i - 1], calls[i])]

(* There is such a function.                                                  *)
LEMMA HeardExists == ASSUME NEW x, NEW calls, NEW n \in Nat PROVE \E f : IsHeard(f, x, calls, n)
  <1> DEFINE S == {k \in Nat : \E f : IsHeard(f, x, calls, k)}
  <1>1. 0 \in S
    <2>1. IsHeard([i \in 0..0 |-> x], x, calls, 0)
      BY DEF IsHeard
    <2> QED BY <2>1
  <1>2. ASSUME NEW k \in S PROVE k + 1 \in S
    <2>0. k \in Nat
      OBVIOUS
    <2>1. PICK f : IsHeard(f, x, calls, k)
      OBVIOUS
    <2> HIDE DEF S
    <2> DEFINE g == [i \in 0..(k + 1) |-> IF i = 0 THEN x ELSE ToolDelta(f[i - 1], calls[i])]
    <2>2. \A i \in 0..k : f[i] = IF i = 0 THEN x ELSE ToolDelta(f[i - 1], calls[i])
      BY <2>1 DEF IsHeard
    <2>3. \A i \in 0..k : i \in 0..(k + 1) /\ g[i] = f[i]
      BY <2>0, <2>2
    <2>4. \A i \in 0..(k + 1) : i # 0 => i - 1 \in 0..k
      BY <2>0
    <2>5. \A i \in 0..(k + 1) :
             (IF i = 0 THEN x ELSE ToolDelta(f[i - 1], calls[i]))
                 = (IF i = 0 THEN x ELSE ToolDelta(g[i - 1], calls[i]))
      <3> HIDE DEF g
      <3> QED BY <2>3, <2>4
    <2>6. g = [i \in 0..(k + 1) |-> IF i = 0 THEN x ELSE ToolDelta(g[i - 1], calls[i])]
      BY <2>5, Zenon
    <2> HIDE DEF g
    <2>7. IsHeard(g, x, calls, k + 1)
      BY <2>6 DEF IsHeard
    <2> QED BY <2>0, <2>7 DEF S
  <1> HIDE DEF S
  <1>3. S = Nat
    <2>1. S \in SUBSET Nat
      BY DEF S
    <2> QED BY <1>1, <1>2, <2>1, NaturalInduction
  <1> QED BY <1>3 DEF S

(* The calls of a chunk, one after the other.                                *)
LEMMA CallsContinue ==
    ASSUME NEW x \in Converter, Numbered(x), NEW calls \in Seq(Calls)
    PROVE  Continues(x, CallsHeard(x, calls))
  <1>1. CallsHeard(x, calls) = (CHOOSE f : IsHeard(f, x, calls, Len(calls)))[Len(calls)]
    BY DEF CallsHeard, IsHeard
  <1>2. Len(calls) \in Nat
    OBVIOUS
  <1>3. \E f : IsHeard(f, x, calls, Len(calls))
    BY <1>2, HeardExists
  <1>4. PICK f : IsHeard(f, x, calls, Len(calls)) /\ CallsHeard(x, calls) = f[Len(calls)]
    BY <1>1, <1>3
  <1>5. \A i \in 0..Len(calls) : f[i] = IF i = 0 THEN x ELSE ToolDelta(f[i - 1], calls[i])
    BY <1>4 DEF IsHeard
  <1> DEFINE S == {k \in Nat : k <= Len(calls) => Continues(x, f[k])}
  <1>6. 0 \in S
    BY <1>2, <1>5, StandingContinues
  <1>7. ASSUME NEW k \in S PROVE k + 1 \in S
    <2>0. k \in Nat
      OBVIOUS
    <2> SUFFICES ASSUME k + 1 <= Len(calls) PROVE Continues(x, f[k + 1])
      BY <2>0
    <2>1. Continues(x, f[k])
      BY <2>0, <1>2
    <2> HIDE DEF S
    <2>2. PICK j : j = k + 1
      OBVIOUS
    <2>3. j \in 0..Len(calls) /\ j # 0 /\ j - 1 = k /\ calls[j] \in Calls
      BY <1>2, <2>0, <2>2
    <2>4. f[j] = ToolDelta(f[k], calls[j])
      BY <1>5, <2>3
    <2>5. PICK y, c : y = f[k] /\ c = calls[j]
      OBVIOUS
    <2>6. y \in Converter /\ Numbered(y) /\ c \in Calls
      BY <2>1, <2>3, <2>5 DEF Continues
    <2>7. Continues(y, ToolDelta(y, c))
      BY <2>6, ToolContinues
    <2>8. Continues(x, f[j])
      BY <2>1, <2>4, <2>5, <2>7, ContinuesOn
    <2> QED BY <2>2, <2>8
  <1>8. S = Nat
    <2>1. S \in SUBSET Nat
      OBVIOUS
    <2> HIDE DEF S
    <2> QED BY <1>6, <1>7, <2>1, NaturalInduction
  <1> QED BY <1>2, <1>4, <1>8

(* The first block starts the answer.                                        *)
LEMMA StartedContinues ==
    ASSUME NEW x \in Converter, Numbered(x)
    PROVE  LET y == Started(x)
           IN  /\ y \in Converter /\ Numbered(y)
               /\ y.completed = x.completed /\ y.failed = x.failed
               /\ y.verdicts \in {x.verdicts, Append(x.verdicts, "created")}
               /\ Carried(x) => Carried(y)
  <1>1. CASE x.started
    BY <1>1 DEF Started
  <1>2. CASE ~ x.started
    <2> DEFINE y == [x EXCEPT !.started = TRUE, !.verdicts = Append(x.verdicts, "created")]
    <2>1. Started(x) = y
      BY <1>2 DEF Started
    <2>2. Append(x.verdicts, "created") \in Seq({"created", "completed", "failed"})
      BY DEF Converter
    <2>3. y \in Converter
      BY <2>2 DEF Converter
    <2>4. /\ y.item = x.item /\ y.next = x.next /\ y.listed = x.listed /\ y.tool = x.tool
          /\ y.completed = x.completed /\ y.failed = x.failed
          /\ y.verdicts = Append(x.verdicts, "created")
      BY DEF Converter
    <2> HIDE DEF y
    <2>5. Numbered(y)
      BY <2>4, MarksKeepNumbers DEF SameMarks
    <2>6. Carried(x) => Carried(y)
      BY <2>4 DEF Carried
    <2> QED BY <2>1, <2>3, <2>4, <2>5, <2>6
  <1> QED BY <1>1, <1>2

(* A whole chunk.                                                            *)
LEMMA ChunkContinues ==
    ASSUME NEW x \in Converter, Numbered(x), NEW m \in Messages
    PROVE  Continues(x, AfterCalls(AfterContent(AfterThought(x, m), m), m))
  <1>1. /\ m.thought \in {<< >>, <<"r">>} /\ m.content \in Seq(Tokens) /\ m.calls \in Seq(Calls)
    BY DEF Messages
  <1>2. PICK y : y = AfterThought(x, m)
    OBVIOUS
  <1>3. Continues(x, y) /\ y \in Converter /\ Numbered(y)
    <2>1. CASE m.thought = << >>
      BY <1>2, <2>1, StandingContinues DEF AfterThought
    <2>2. CASE m.thought # << >>
      <3>1. "r" \in Words
        BY DEF Words
      <3>2. <<"r">> \in Seq(Words)
        BY <3>1
      <3>3. y = Delta(x, Reasoning, <<"r">>)
        BY <1>1, <1>2, <2>2 DEF AfterThought
      <3>4. Reasoning \in {Text, Reasoning}
        OBVIOUS
      <3> QED BY <3>2, <3>3, <3>4, DeltaContinues DEF Continues
    <2> QED BY <2>1, <2>2
  <1>4. PICK z : z = AfterContent(y, m)
    OBVIOUS
  <1>5. Continues(x, z) /\ z \in Converter /\ Numbered(z)
    <2>1. CASE m.content = << >>
      BY <1>3, <1>4, <2>1 DEF AfterContent
    <2>2. CASE m.content # << >>
      <3>1. PICK d : d = m.content
        OBVIOUS
      <3>2. z = ContentDelta(y, d) /\ d \in Seq(Tokens)
        BY <1>1, <1>4, <2>2, <3>1 DEF AfterContent
      <3>3. Continues(y, z)
        BY <1>3, <3>2, ContentContinues
      <3> QED BY <1>3, <3>3, ContinuesOn DEF Continues
    <2> QED BY <2>1, <2>2
  <1>6. Continues(x, AfterCalls(z, m))
    <2>1. CASE ~ m.hasCalls
      BY <1>5, <2>1 DEF AfterCalls
    <2>2. CASE m.hasCalls
      <3>1. PICK u : u = Flushed(z)
        OBVIOUS
      <3>2. Continues(x, u) /\ u \in Converter /\ Numbered(u)
        BY <1>5, <3>1, FlushedContinues, ContinuesOn DEF Continues
      <3>3. PICK v : v = Finished(u, Reasoning)
        OBVIOUS
      <3>4. Continues(u, v)
        BY <3>2, <3>3, KindsDiffer, FinishedContinues
      <3>5. Continues(x, v) /\ v \in Converter /\ Numbered(v)
        BY <3>2, <3>4, ContinuesOn DEF Continues
      <3>6. PICK q : q = m.calls
        OBVIOUS
      <3>7. q \in Seq(Calls) /\ AfterCalls(z, m) = CallsHeard(v, q)
        BY <1>1, <2>2, <3>1, <3>3, <3>6 DEF AfterCalls
      <3>8. Continues(v, CallsHeard(v, q))
        BY <3>5, <3>7, CallsContinue
      <3> QED BY <3>5, <3>7, <3>8, ContinuesOn
    <2> QED BY <2>1, <2>2
  <1> QED BY <1>2, <1>4, <1>6

(* The end of a tool call sends the input of a custom tool.                  *)
InputKept(x, y, n, k) ==
    /\ y \in Converter /\ Numbered(y)
    /\ y.completed = x.completed /\ y.failed = x.failed /\ y.verdicts = x.verdicts
    /\ y.tool = x.tool
    /\ \A j \in Kinds : j # k => y.item[j] = x.item[j]
    /\ y.item[k].added = x.item[k].added /\ y.item[k].done = x.item[k].done
    /\ y.item[k].said = x.item[k].said
    /\ x.tool[n].custom = TRUE => y.item[k].streamed = x.item[k].streamed \o x.item[k].said
    /\ x.tool[n].custom = FALSE => y.item[k].streamed = x.item[k].streamed

(* It leaves everything else alone.                                          *)
LEMMA InputKeeps ==
    ASSUME NEW x \in Converter, Numbered(x), NEW n \in Tools
    PROVE  InputKept(x, InputDelta(x, n), n, Call(n))
  <1>1. Call(n) \in Kinds
    BY KindsDiffer
  <1>2. CASE x.tool[n].custom = FALSE
    <2>1. InputDelta(x, n) = x
      BY <1>2 DEF InputDelta
    <2> QED BY <1>2, <2>1 DEF InputKept
  <1>3. CASE x.tool[n].custom = TRUE
    <2>1. PICK k, a : k = Call(n) /\ a = x.item[k].said
      OBVIOUS
    <2>2. PICK y : y = Streamed(x, k, a)
      OBVIOUS
    <2>3. InputDelta(x, n) = y
      BY <1>3, <2>1, <2>2 DEF InputDelta
    <2>4. x.item[k] \in ItemState
      BY <1>1, <2>1 DEF Converter
    <2>5. a \in Seq(Words)
      BY <2>1, <2>4 DEF ItemState
    <2>6. /\ y \in Converter /\ Numbered(y)
          /\ y.completed = x.completed /\ y.failed = x.failed /\ y.verdicts = x.verdicts
          /\ y.tool = x.tool
          /\ \A j \in Kinds : j # k => y.item[j] = x.item[j]
          /\ y.item[k].added = x.item[k].added /\ y.item[k].done = x.item[k].done
          /\ y.item[k].said = x.item[k].said
          /\ y.item[k].streamed = x.item[k].streamed \o a
      BY <1>1, <2>1, <2>2, <2>5, StreamedKeeps
    <2>7. InputKept(x, y, n, k)
      BY <1>3, <2>1, <2>6 DEF InputKept
    <2> QED BY <2>1, <2>3, <2>7
  <1>4. x.tool[n].custom \in BOOLEAN
    BY DEF Converter, ToolState
  <1> QED BY <1>2, <1>3, <1>4

(* A tool call that was heard of is added and done, and whole.               *)
LEMMA ToolFinishedDone ==
    ASSUME NEW x \in Converter, Numbered(x), NEW n \in Tools
    PROVE  LET y == ToolFinished(x, n)
           IN  /\ y \in Converter /\ Numbered(y)
               /\ y.completed = x.completed /\ y.failed = x.failed /\ y.verdicts = x.verdicts
               /\ y.tool = x.tool
               /\ \A j \in Kinds : j # Call(n) => y.item[j] = x.item[j]
               /\ y.item[Call(n)].done = y.item[Call(n)].added
               /\ x.tool[n].seen => y.item[Call(n)].done = 1
               /\ CallCarried(x.tool[n], x.item[Call(n)]) => Whole(y.tool[n], y.item[Call(n)])
  <1>1. PICK k : k = Call(n)
    OBVIOUS
  <1>2. k \in Kinds /\ \A m \in Tools : k = Call(m) => m = n
    BY <1>1, KindsDiffer
  <1>3. /\ x.item[k] \in ItemState /\ x.item[k].added \in {0, 1} /\ x.item[k].done \in {0, 1}
        /\ x.tool[n] \in ToolState /\ x.item[k].said \in Seq(Words)
    <2>1. x.item[k] \in ItemState /\ x.tool[n] \in ToolState
      BY <1>2 DEF Converter
    <2> QED BY <2>1 DEF ItemState
  <1>4. CASE ~ x.tool[n].seen
    <2>1. ToolFinished(x, n) = x
      BY <1>4 DEF ToolFinished
    <2>2. x.item[k].added = 0 /\ x.item[k].done = 0
      BY <1>1, <1>2, <1>3, <1>4 DEF Numbered
    <2>3. CallCarried(x.tool[n], x.item[k]) => Whole(x.tool[n], x.item[k])
      BY <2>2 DEF CallCarried, Whole
    <2> QED BY <1>1, <1>4, <2>1, <2>2, <2>3
  <1>5. CASE x.tool[n].seen /\ x.item[k].done = 1
    <2>1. ToolFinished(x, n) = x
      BY <1>1, <1>5 DEF ToolFinished
    <2>2. x.item[k].added = 1
      BY <1>2, <1>3, <1>5 DEF Numbered
    <2>3. ~ CallCarried(x.tool[n], x.item[k])
      BY <1>5 DEF CallCarried
    <2> QED BY <1>1, <1>5, <2>1, <2>2, <2>3
  <1>6. CASE x.tool[n].seen /\ x.item[k].done = 0
    <2>1. PICK y : y = Added(x, k)
      OBVIOUS
    <2>2. /\ y \in Converter /\ Numbered(y)
          /\ y.completed = x.completed /\ y.failed = x.failed /\ y.verdicts = x.verdicts
          /\ y.tool = x.tool
          /\ \A j \in Kinds : j # k => y.item[j] = x.item[j]
          /\ y.item[k].added = 1
          /\ y.item[k].said = x.item[k].said /\ y.item[k].streamed = x.item[k].streamed
      <3>1. CASE x.item[k].added = 1
        <4>1. y = x
          BY <2>1, <3>1 DEF Added
        <4> QED BY <3>1, <4>1
      <3>2. CASE x.item[k].added = 0
        <4>1. y = Adding(x, k)
          BY <2>1, <3>2 DEF Added
        <4>2. \A m \in Tools : k = Call(m) => x.tool[m].seen
          BY <1>2, <1>6
        <4> QED BY <1>2, <3>2, <4>1, <4>2, AddingNumbers
      <3> QED BY <1>3, <3>1, <3>2
    <2>3. PICK z : z = Finished(y, k)
      OBVIOUS
    <2>4. /\ z \in Converter /\ Numbered(z)
          /\ z.completed = y.completed /\ z.failed = y.failed /\ z.verdicts = y.verdicts
          /\ z.tool = y.tool
          /\ z.item[k].added = y.item[k].added /\ z.item[k].done = y.item[k].added
          /\ z.item[k].said = y.item[k].said /\ z.item[k].streamed = y.item[k].streamed
          /\ \A j \in Kinds : j # k => z.item[j] = y.item[j]
      BY <1>2, <2>2, <2>3, FinishedContinues
    <2>5. PICK w : w = InputDelta(z, n)
      OBVIOUS
    <2>6. InputKept(z, w, n, k)
      BY <1>1, <2>4, <2>5, InputKeeps
    <2>7. ToolFinished(x, n) = w
      BY <1>1, <1>6, <2>1, <2>3, <2>5 DEF ToolFinished
    <2>8. /\ w \in Converter /\ Numbered(w)
          /\ w.completed = x.completed /\ w.failed = x.failed /\ w.verdicts = x.verdicts
          /\ w.tool = x.tool
          /\ \A j \in Kinds : j # k => w.item[j] = x.item[j]
          /\ w.item[k].done = w.item[k].added /\ w.item[k].done = 1
      BY <2>2, <2>4, <2>6 DEF InputKept
    <2>9. ASSUME CallCarried(x.tool[n], x.item[k]) PROVE Whole(w.tool[n], w.item[k])
      <3>1. << >> \o x.item[k].said = x.item[k].said
        BY <1>3, ConcatEmptySeq
      <3>2. CASE x.tool[n].as = "plain"
        <4>1. x.tool[n].custom = FALSE /\ x.item[k].streamed = x.item[k].said
          BY <2>9, <3>2 DEF CallCarried
        <4>2. w.item[k].streamed = w.item[k].said
          BY <2>2, <2>4, <2>6, <4>1 DEF InputKept
        <4> QED BY <4>2 DEF Whole
      <3>3. CASE x.tool[n].as = "custom"
        <4>1. x.tool[n].custom = TRUE /\ x.item[k].streamed = << >>
          BY <2>9, <3>3 DEF CallCarried
        <4>2. w.item[k].streamed = w.item[k].said
          BY <2>2, <2>4, <2>6, <3>1, <4>1 DEF InputKept
        <4> QED BY <4>2 DEF Whole
      <3>4. CASE x.tool[n].as \notin {"plain", "custom"}
        BY <2>8, <3>4 DEF Whole
      <3> QED BY <3>2, <3>3, <3>4
    <2> QED BY <1>1, <2>7, <2>8, <2>9
  <1> QED BY <1>3, <1>4, <1>5, <1>6

(* The converter after each of the tool calls of an answer is done.           *)
IsFinishedUpTo(f, x, n) == f = [i \in 0..n |-> IF i = 0 THEN x ELSE ToolFinished(f[i - 1], i - 1)]

(* There is such a function.                                                  *)
LEMMA FinishedUpToExists == ASSUME NEW x, NEW n \in Nat PROVE \E f : IsFinishedUpTo(f, x, n)
  <1> DEFINE S == {k \in Nat : \E f : IsFinishedUpTo(f, x, k)}
  <1>1. 0 \in S
    <2>1. IsFinishedUpTo([i \in 0..0 |-> x], x, 0)
      BY DEF IsFinishedUpTo
    <2> QED BY <2>1
  <1>2. ASSUME NEW k \in S PROVE k + 1 \in S
    <2>0. k \in Nat
      OBVIOUS
    <2>1. PICK f : IsFinishedUpTo(f, x, k)
      OBVIOUS
    <2> HIDE DEF S
    <2> DEFINE g == [i \in 0..(k + 1) |-> IF i = 0 THEN x ELSE ToolFinished(f[i - 1], i - 1)]
    <2>2. \A i \in 0..k : f[i] = IF i = 0 THEN x ELSE ToolFinished(f[i - 1], i - 1)
      BY <2>1 DEF IsFinishedUpTo
    <2>3. \A i \in 0..k : i \in 0..(k + 1) /\ g[i] = f[i]
      BY <2>0, <2>2
    <2>4. \A i \in 0..(k + 1) : i # 0 => i - 1 \in 0..k
      BY <2>0
    <2>5. \A i \in 0..(k + 1) :
             (IF i = 0 THEN x ELSE ToolFinished(f[i - 1], i - 1))
                 = (IF i = 0 THEN x ELSE ToolFinished(g[i - 1], i - 1))
      <3> HIDE DEF g
      <3> QED BY <2>3, <2>4
    <2>6. g = [i \in 0..(k + 1) |-> IF i = 0 THEN x ELSE ToolFinished(g[i - 1], i - 1)]
      BY <2>5, Zenon
    <2> HIDE DEF g
    <2>7. IsFinishedUpTo(g, x, k + 1)
      BY <2>6 DEF IsFinishedUpTo
    <2> QED BY <2>0, <2>7 DEF S
  <1> HIDE DEF S
  <1>3. S = Nat
    <2>1. S \in SUBSET Nat
      BY DEF S
    <2> QED BY <1>1, <1>2, <2>1, NaturalInduction
  <1> QED BY <1>3 DEF S

(* All tool calls are done.                                                  *)
LEMMA ToolsFinishedDone ==
    ASSUME NEW x \in Converter, Numbered(x)
    PROVE  LET y == ToolsFinished(x)
           IN  /\ y \in Converter /\ Numbered(y)
               /\ y.completed = x.completed /\ y.failed = x.failed /\ y.verdicts = x.verdicts
               /\ y.tool = x.tool
               /\ y.item[Text] = x.item[Text] /\ y.item[Reasoning] = x.item[Reasoning]
               /\ \A n \in Tools : /\ y.item[Call(n)].done = y.item[Call(n)].added
                                   /\ x.tool[n].seen => y.item[Call(n)].done = 1
               /\ Carried(x) => \A n \in Tools : Whole(y.tool[n], y.item[Call(n)])
  <1> DEFINE Done(y, k) ==
               /\ y \in Converter /\ Numbered(y)
               /\ y.completed = x.completed /\ y.failed = x.failed /\ y.verdicts = x.verdicts
               /\ y.tool = x.tool
               /\ y.item[Text] = x.item[Text] /\ y.item[Reasoning] = x.item[Reasoning]
               /\ \A n \in Tools :
                     n < k => /\ y.item[Call(n)].done = y.item[Call(n)].added
                              /\ x.tool[n].seen => y.item[Call(n)].done = 1
             AreWhole(y, k) ==
               Carried(x) =>
                 \A n \in Tools : /\ n < k => Whole(y.tool[n], y.item[Call(n)])
                                  /\ ~ (n < k) => CallCarried(y.tool[n], y.item[Call(n)])
  <1>0. LastTool + 1 \in Nat
    BY StreamAssumption
  <1>1. ToolsFinished(x) = (CHOOSE f : IsFinishedUpTo(f, x, LastTool + 1))[LastTool + 1]
    BY DEF ToolsFinished, IsFinishedUpTo
  <1>2. \E f : IsFinishedUpTo(f, x, LastTool + 1)
    BY <1>0, FinishedUpToExists
  <1>3. PICK f : IsFinishedUpTo(f, x, LastTool + 1) /\ ToolsFinished(x) = f[LastTool + 1]
    BY <1>1, <1>2
  <1>4. \A i \in 0..(LastTool + 1) : f[i] = IF i = 0 THEN x ELSE ToolFinished(f[i - 1], i - 1)
    BY <1>3 DEF IsFinishedUpTo
  <1> DEFINE S == {k \in Nat : k <= LastTool + 1 => Done(f[k], k) /\ AreWhole(f[k], k)}
  <1>5. 0 \in S
    <2>1. \A n \in Tools : ~ (n < 0)
      BY StreamAssumption DEF Tools
    <2>2. f[0] = x
      BY <1>0, <1>4
    <2>3. Done(x, 0)
      BY <2>1
    <2>4. AreWhole(x, 0)
      BY <2>1 DEF Carried
    <2> QED BY <2>2, <2>3, <2>4
  <1>6. ASSUME NEW k \in S PROVE k + 1 \in S
    <2>0. k \in Nat
      OBVIOUS
    <2> SUFFICES ASSUME k + 1 <= LastTool + 1 PROVE Done(f[k + 1], k + 1) /\ AreWhole(f[k + 1], k + 1)
      BY <2>0
    <2>1. Done(f[k], k) /\ AreWhole(f[k], k)
      BY <2>0, <1>0
    <2> HIDE DEF S
    <2>2. PICK j : j = k + 1
      OBVIOUS
    <2>3. j \in 0..(LastTool + 1) /\ j # 0 /\ j - 1 = k /\ k \in Tools
      BY <2>0, <2>2, StreamAssumption DEF Tools
    <2>4. f[j] = ToolFinished(f[k], k)
      BY <1>4, <2>3
    <2>5. PICK y, z : y = f[k] /\ z = f[j]
      OBVIOUS
    <2>6. Done(y, k) /\ AreWhole(y, k) /\ z = ToolFinished(y, k)
      BY <2>1, <2>4, <2>5
    <2>7. /\ z \in Converter /\ Numbered(z)
          /\ z.completed = y.completed /\ z.failed = y.failed /\ z.verdicts = y.verdicts
          /\ z.tool = y.tool
          /\ \A l \in Kinds : l # Call(k) => z.item[l] = y.item[l]
          /\ z.item[Call(k)].done = z.item[Call(k)].added
          /\ y.tool[k].seen => z.item[Call(k)].done = 1
          /\ CallCarried(y.tool[k], y.item[Call(k)]) => Whole(z.tool[k], z.item[Call(k)])
      BY <2>3, <2>6, ToolFinishedDone
    <2>8. z.item[Text] = x.item[Text] /\ z.item[Reasoning] = x.item[Reasoning]
      BY <2>3, <2>6, <2>7, KindsDiffer
    <2>9. \A n \in Tools :
             n < j => /\ z.item[Call(n)].done = z.item[Call(n)].added
                      /\ x.tool[n].seen => z.item[Call(n)].done = 1
      <3>1. ASSUME NEW n \in Tools, n < j
            PROVE  /\ z.item[Call(n)].done = z.item[Call(n)].added
                   /\ x.tool[n].seen => z.item[Call(n)].done = 1
        <4>1. CASE n = k
          BY <4>1, <2>6, <2>7
        <4>2. CASE n # k
          <5>1. n < k
            BY <2>0, <2>2, <3>1, <4>2, StreamAssumption DEF Tools
          <5>2. Call(n) \in Kinds /\ Call(n) # Call(k)
            BY <2>3, <4>2, KindsDiffer
          <5> QED BY <2>6, <2>7, <5>1, <5>2
        <4> QED BY <4>1, <4>2
      <3> QED BY <3>1
    <2>10. Done(z, j)
      BY <2>6, <2>7, <2>8, <2>9
    <2>11. AreWhole(z, j)
      <3>1. ASSUME Carried(x), NEW n \in Tools
            PROVE  /\ n < j => Whole(z.tool[n], z.item[Call(n)])
                   /\ ~ (n < j) => CallCarried(z.tool[n], z.item[Call(n)])
        <4>1. CASE n = k
          <5>1. ~ (k < k) /\ k < j
            BY <2>0, <2>2
          <5>2. CallCarried(y.tool[k], y.item[Call(k)])
            BY <2>3, <2>6, <3>1, <5>1
          <5> QED BY <2>7, <4>1, <5>1, <5>2
        <4>2. CASE n # k
          <5>1. n < k <=> n < j
            BY <2>0, <2>2, <4>2, StreamAssumption DEF Tools
          <5>2. Call(n) \in Kinds /\ Call(n) # Call(k)
            BY <2>3, <4>2, KindsDiffer
          <5>3. z.tool[n] = y.tool[n] /\ z.item[Call(n)] = y.item[Call(n)]
            BY <2>7, <5>2
          <5> QED BY <2>6, <3>1, <5>1, <5>3
        <4> QED BY <4>1, <4>2
      <3> QED BY <3>1
    <2> QED BY <2>2, <2>5, <2>10, <2>11
  <1>7. S = Nat
    <2>1. S \in SUBSET Nat
      OBVIOUS
    <2> HIDE DEF S
    <2> QED BY <1>5, <1>6, <2>1, NaturalInduction
  <1>8. Done(f[LastTool + 1], LastTool + 1) /\ AreWhole(f[LastTool + 1], LastTool + 1)
    BY <1>0, <1>7
  <1>9. \A n \in Tools : n < LastTool + 1
    BY StreamAssumption DEF Tools
  <1> QED BY <1>3, <1>8, <1>9

(* At the end of an answer every item that was added is done, and every tool *)
(* call that was heard of, and these are whole.                              *)
LEMMA ItemsFinishedDone ==
    ASSUME NEW x \in Converter, Numbered(x)
    PROVE  LET y == ItemsFinished(x)
           IN  /\ y \in Converter /\ Numbered(y)
               /\ y.completed = x.completed /\ y.failed = x.failed
               /\ y.verdicts \in {x.verdicts, Append(x.verdicts, "created")}
               /\ \A k \in Kinds : y.item[k].done = y.item[k].added
               /\ \A n \in Tools : y.tool[n].seen => y.item[Call(n)].done = 1
               /\ Carried(x) => \A n \in Tools : Whole(y.tool[n], y.item[Call(n)])
  <1>1. PICK s : s = Started(x)
    OBVIOUS
  <1>2. /\ s \in Converter /\ Numbered(s)
        /\ s.completed = x.completed /\ s.failed = x.failed
        /\ s.verdicts \in {x.verdicts, Append(x.verdicts, "created")}
        /\ Carried(x) => Carried(s)
    BY <1>1, StartedContinues
  <1>3. PICK a : a = Flushed(s)
    OBVIOUS
  <1>4. Continues(s, a) /\ a \in Converter /\ Numbered(a)
    BY <1>2, <1>3, FlushedContinues DEF Continues
  <1>5. PICK b : b = Finished(a, Reasoning)
    OBVIOUS
  <1>6. Continues(s, b) /\ b.item[Reasoning].done = b.item[Reasoning].added
    BY <1>4, <1>5, FinishedContinues, KindsDiffer, ContinuesOn
  <1>7. PICK c : c = Finished(b, Text)
    OBVIOUS
  <1>8. /\ Continues(b, c)
        /\ c.item[Text].done = c.item[Text].added
        /\ c.item[Reasoning] = b.item[Reasoning]
    <2>1. b \in Converter /\ Numbered(b)
      BY <1>6 DEF Continues
    <2> QED BY <1>7, <2>1, FinishedContinues, KindsDiffer
  <1>9. Continues(s, c) /\ c \in Converter /\ Numbered(c)
    BY <1>6, <1>8, ContinuesOn DEF Continues
  <1>10. PICK d : d = ToolsFinished(c)
    OBVIOUS
  <1>11. /\ d \in Converter /\ Numbered(d)
         /\ d.completed = c.completed /\ d.failed = c.failed /\ d.verdicts = c.verdicts
         /\ d.tool = c.tool
         /\ d.item[Text] = c.item[Text] /\ d.item[Reasoning] = c.item[Reasoning]
         /\ \A n \in Tools : /\ d.item[Call(n)].done = d.item[Call(n)].added
                             /\ c.tool[n].seen => d.item[Call(n)].done = 1
         /\ Carried(c) => \A n \in Tools : Whole(d.tool[n], d.item[Call(n)])
    BY <1>9, <1>10, ToolsFinishedDone
  <1>12. ItemsFinished(x) = d
    BY <1>1, <1>3, <1>5, <1>7, <1>10 DEF ItemsFinished
  <1>13. \A k \in Kinds : d.item[k].done = d.item[k].added
    <2>1. ASSUME NEW k \in Kinds PROVE d.item[k].done = d.item[k].added
      <3>1. CASE k = Text
        BY <3>1, <1>8, <1>11
      <3>2. CASE k = Reasoning
        BY <3>2, <1>6, <1>8, <1>11
      <3>3. CASE \E n \in Tools : k = Call(n)
        BY <3>3, <1>11
      <3> QED BY <3>1, <3>2, <3>3, KindsDiffer
    <2> QED BY <2>1
  <1>14. \A n \in Tools : d.tool[n].seen => d.item[Call(n)].done = 1
    BY <1>11
  <1>15. d.completed = x.completed /\ d.failed = x.failed
         /\ d.verdicts \in {x.verdicts, Append(x.verdicts, "created")}
    BY <1>2, <1>9, <1>11 DEF Continues
  <1>16. Carried(x) => \A n \in Tools : Whole(d.tool[n], d.item[Call(n)])
    BY <1>2, <1>9, <1>11 DEF Continues
  <1> QED BY <1>11, <1>12, <1>13, <1>14, <1>15, <1>16

(* The list of an answer has its items in the order of their indices.        *)
LEMMA ListedInOrder ==
    ASSUME NEW x \in Converter, Numbered(x), \A k \in Kinds : x.item[k].done = x.item[k].added
    PROVE  Listed(x) = [i \in 1..x.next |-> i - 1]
  <1>0. x.next \in Nat /\ x.listed \subseteq Nat
    BY DEF Converter
  <1>1. x.listed = 0..(x.next - 1)
    <2>1. ASSUME NEW n \in Nat PROVE n \in x.listed <=> n < x.next
      <3>1. ASSUME n \in x.listed PROVE n < x.next
        <4>1. PICK k \in Kinds : x.item[k].done = 1 /\ x.item[k].index = n
          BY <3>1 DEF Numbered
        <4> QED BY <4>1 DEF Numbered
      <3>2. ASSUME n < x.next PROVE n \in x.listed
        <4>1. PICK k \in Kinds : x.item[k].added = 1 /\ x.item[k].index = n
          BY <3>2 DEF Numbered
        <4>2. x.item[k].done = 1
          BY <4>1
        <4> QED BY <4>1, <4>2 DEF Numbered
      <3> QED BY <3>1, <3>2
    <2>2. \A n : n \in x.listed <=> n \in 0..(x.next - 1)
      BY <1>0, <2>1
    <2> QED BY <2>2
  <1>2. PICK l, m : l = x.listed /\ m = x.next
    OBVIOUS
  <1>3. l = 0..(m - 1) /\ m \in Nat
    BY <1>0, <1>1, <1>2
  <1>4. Cardinality(l) = m
    BY <1>3, FS_Interval
  <1>5. \A n \in l : Cardinality({j \in l : j < n}) = n
    <2>1. ASSUME NEW n \in l PROVE Cardinality({j \in l : j < n}) = n
      <3>1. n \in Nat /\ {j \in l : j < n} = 0..(n - 1)
        BY <1>3
      <3>2. Cardinality(0..(n - 1)) = n
        BY <3>1, FS_Interval
      <3> QED BY <3>1, <3>2
    <2> QED BY <2>1
  <1>6. \A i \in 1..m : (CHOOSE n \in l : Cardinality({j \in l : j < n}) = i - 1) = i - 1
    <2>1. ASSUME NEW i \in 1..m
          PROVE  (CHOOSE n \in l : Cardinality({j \in l : j < n}) = i - 1) = i - 1
      <3>1. PICK h : h = i - 1
        OBVIOUS
      <3>2. h \in l
        BY <1>3, <3>1
      <3>3. \A n \in l : Cardinality({j \in l : j < n}) = h <=> n = h
        BY <1>5, <3>2
      <3>4. (CHOOSE n \in l : Cardinality({j \in l : j < n}) = h) = h
        BY <3>2, <3>3
      <3> QED BY <3>1, <3>4
    <2> QED BY <2>1
  <1>7. Listed(x) = [i \in 1..m |-> CHOOSE n \in l : Cardinality({j \in l : j < n}) = i - 1]
    BY <1>2, <1>4 DEF Listed
  <1>8. Listed(x) = [i \in 1..m |-> i - 1]
    BY <1>6, <1>7
  <1> QED BY <1>2, <1>8

(* A complete answer is whole.                                               *)
LEMMA FinalizedIsWhole ==
    ASSUME NEW x \in Converter, Numbered(x), ~ x.completed
    PROVE  LET y == Finalized(x)
           IN  /\ y \in Converter /\ Numbered(y) /\ y.completed
               /\ \A k \in Kinds : y.item[k].done = y.item[k].added
               /\ y.reported = [i \in 1..y.next |-> i - 1]
               /\ \A n \in Tools : y.tool[n].seen => y.item[Call(n)].done = 1
               /\ Carried(x) => \A n \in Tools : Whole(y.tool[n], y.item[Call(n)])
  <1>1. PICK z : z = ItemsFinished(x)
    OBVIOUS
  <1>2. /\ z \in Converter /\ Numbered(z)
        /\ \A k \in Kinds : z.item[k].done = z.item[k].added
        /\ \A n \in Tools : z.tool[n].seen => z.item[Call(n)].done = 1
        /\ Carried(x) => \A n \in Tools : Whole(z.tool[n], z.item[Call(n)])
    BY <1>1, ItemsFinishedDone
  <1>3. PICK list : list = Listed(z)
    OBVIOUS
  <1>4. list = [i \in 1..z.next |-> i - 1] /\ list \in Seq(Nat)
    <2>1. list = [i \in 1..z.next |-> i - 1]
      BY <1>2, <1>3, ListedInOrder
    <2>2. z.next \in Nat
      BY <1>2 DEF Converter
    <2> QED BY <2>1, <2>2
  <1> DEFINE y == [z EXCEPT !.completed = TRUE, !.reported = list,
                            !.verdicts = Append(z.verdicts, "completed")]
  <1>5. Finalized(x) = y
    BY <1>1, <1>3 DEF Finalized, Closed
  <1>6. Append(z.verdicts, "completed") \in Seq({"created", "completed", "failed"})
    BY <1>2 DEF Converter
  <1>7. y \in Converter
    BY <1>2, <1>4, <1>6 DEF Converter
  <1>8. /\ y.item = z.item /\ y.next = z.next /\ y.listed = z.listed /\ y.tool = z.tool
        /\ y.completed /\ y.reported = list
    BY <1>2 DEF Converter
  <1> HIDE DEF y
  <1>9. Numbered(y)
    BY <1>2, <1>8, MarksKeepNumbers DEF SameMarks
  <1> QED BY <1>2, <1>4, <1>5, <1>7, <1>8, <1>9

(*****************************************************************************)
(* The inductive invariant of the conversion.                                *)
(*****************************************************************************)
VerdictGiven(x) ==
    /\ x.failed => x.completed
    /\ \A i \in DOMAIN x.verdicts : x.verdicts[i] \in {"completed", "failed"} => x.completed

ConversionInv ==
    /\ answer \in Converter /\ Numbered(answer) /\ VerdictGiven(answer)
    /\ ~ answer.completed => Carried(answer)
    /\ over \in BOOLEAN /\ cut \in BOOLEAN /\ chunks \in 0 .. MaxChunks

(* The first state.                                                          *)
LEMMA StreamInitConversionInv == StreamInit => ConversionInv
  <1> SUFFICES ASSUME StreamInit PROVE ConversionInv
    OBVIOUS
  <1>1. << >> \in Seq(Words) /\ << >> \in Seq(Tokens) /\ << >> \in Seq(Nat)
        /\ << >> \in Seq({"created", "completed", "failed"})
    OBVIOUS
  <1>2. NoItem \in ItemState
    BY <1>1 DEF NoItem, ItemState
  <1>3. Initial \in Converter
    <2>1. [k \in Kinds |-> NoItem] \in [Kinds -> ItemState]
      BY <1>2
    <2>2. Unheard \in ToolState
      BY DEF Unheard, ToolState
    <2>3. [k \in Tools |-> Unheard] \in [Tools -> ToolState]
      BY <2>2
    <2> QED BY <1>1, <2>1, <2>3 DEF Initial, Converter
  <1>4. /\ Initial.next = 0 /\ Initial.listed = {} /\ Initial.verdicts = << >>
        /\ Initial.failed = FALSE
        /\ \A k \in Kinds : Initial.item[k] = NoItem
        /\ \A n \in Tools : Initial.tool[n] = Unheard
    BY DEF Initial
  <1>5. /\ NoItem.index = 0 /\ NoItem.added = 0 /\ NoItem.done = 0 /\ NoItem.streamed = << >>
        /\ Unheard.known = FALSE /\ Unheard.as = "nothing"
    BY DEF NoItem, Unheard
  <1>6. PICK x : x = Initial
    OBVIOUS
  <1>7. Numbered(x) /\ Carried(x) /\ VerdictGiven(x)
    <2>1. \A n \in Tools : Call(n) \in Kinds
      BY KindsDiffer
    <2>2. \A k \in Kinds : x.item[k].index = 0 /\ x.item[k].added = 0 /\ x.item[k].done = 0
                           /\ x.item[k].streamed = << >>
      BY <1>4, <1>5, <1>6
    <2>3. Numbered(x)
      BY <1>4, <1>6, <2>1, <2>2 DEF Numbered
    <2>4. Carried(x)
      <3>1. \A n \in Tools : CallCarried(x.tool[n], x.item[Call(n)])
        BY <1>4, <1>5, <1>6, <2>1 DEF CallCarried
      <3> QED BY <3>1 DEF Carried
    <2>5. VerdictGiven(x)
      BY <1>4, <1>6 DEF VerdictGiven
    <2> QED BY <2>3, <2>4, <2>5
  <1>8. answer = x /\ over \in BOOLEAN /\ cut \in BOOLEAN /\ chunks \in 0 .. MaxChunks
    <2>1. over = FALSE /\ cut = FALSE /\ chunks = 0 /\ answer = x
      BY <1>6 DEF StreamInit
    <2>2. 0 \in 0 .. MaxChunks
      BY StreamAssumption
    <2> QED BY <2>1, <2>2
  <1> QED BY <1>3, <1>6, <1>7, <1>8 DEF ConversionInv

(* What is appended to the verdicts.                                         *)
LEMMA VerdictAppended ==
    ASSUME NEW x \in Converter, NEW y, VerdictGiven(x),
           NEW v \in {"created", "completed", "failed"},
           y.verdicts = Append(x.verdicts, v), y.failed => y.completed,
           x.completed => y.completed, v # "created" => y.completed
    PROVE  VerdictGiven(y)
  <1>1. x.verdicts \in Seq({"created", "completed", "failed"})
    BY DEF Converter
  <1>2. PICK q : q = x.verdicts
    OBVIOUS
  <1>3. \A i \in DOMAIN Append(q, v) : (i \in DOMAIN q /\ Append(q, v)[i] = q[i]) \/ Append(q, v)[i] = v
    BY <1>1, <1>2
  <1> QED BY <1>2, <1>3 DEF VerdictGiven

(* A failure is a verdict.                                                   *)
LEMMA FailedKeeps ==
    ASSUME NEW x \in Converter, Numbered(x), VerdictGiven(x)
    PROVE  LET y == Failed(x)
           IN  /\ y \in Converter /\ Numbered(y) /\ VerdictGiven(y) /\ y.completed
               /\ y.verdicts = Append(x.verdicts, "failed")
  <1> DEFINE y == [x EXCEPT !.completed = TRUE, !.failed = TRUE, !.verdicts = Append(x.verdicts, "failed")]
  <1>1. Failed(x) = y
    BY DEF Failed
  <1>2. Append(x.verdicts, "failed") \in Seq({"created", "completed", "failed"})
    BY DEF Converter
  <1>3. y \in Converter
    BY <1>2 DEF Converter
  <1>4. /\ y.item = x.item /\ y.next = x.next /\ y.listed = x.listed /\ y.tool = x.tool
        /\ y.completed /\ y.verdicts = Append(x.verdicts, "failed")
    BY DEF Converter
  <1> HIDE DEF y
  <1>5. Numbered(y)
    BY <1>4, MarksKeepNumbers DEF SameMarks
  <1>6. VerdictGiven(y)
    BY <1>4, VerdictAppended
  <1> QED BY <1>1, <1>3, <1>4, <1>5, <1>6

(* The end of an answer, for the first time or again.                        *)
LEMMA FinalizedKeeps ==
    ASSUME NEW x \in Converter, Numbered(x), VerdictGiven(x)
    PROVE  LET y == Finalized(x)
           IN  y \in Converter /\ Numbered(y) /\ VerdictGiven(y) /\ y.completed
  <1>1. CASE x.completed
    BY <1>1 DEF Finalized
  <1>2. CASE ~ x.completed
    <2>1. PICK z : z = ItemsFinished(x)
      OBVIOUS
    <2>2. /\ z \in Converter
          /\ z.completed = x.completed /\ z.failed = x.failed
          /\ z.verdicts \in {x.verdicts, Append(x.verdicts, "created")}
      BY <2>1, ItemsFinishedDone
    <2>3. VerdictGiven(z)
      <3>1. CASE z.verdicts = x.verdicts
        BY <2>2, <3>1 DEF VerdictGiven
      <3>2. CASE z.verdicts = Append(x.verdicts, "created")
        <4>1. z.failed => z.completed
          BY <2>2 DEF VerdictGiven
        <4> QED BY <2>2, <3>2, <4>1, VerdictAppended
      <3> QED BY <2>2, <3>1, <3>2
    <2>4. PICK y : y = Finalized(x)
      OBVIOUS
    <2>5. y \in Converter /\ Numbered(y) /\ y.completed
      BY <1>2, <2>4, FinalizedIsWhole
    <2>6. y.verdicts = Append(z.verdicts, "completed")
      <3>1. y = [z EXCEPT !.completed = TRUE, !.reported = Listed(z),
                          !.verdicts = Append(z.verdicts, "completed")]
        BY <1>2, <2>1, <2>4 DEF Finalized, Closed
      <3> QED BY <2>2, <3>1 DEF Converter
    <2>7. VerdictGiven(y)
      BY <2>2, <2>3, <2>5, <2>6, VerdictAppended
    <2> QED BY <2>4, <2>5, <2>7
  <1> QED BY <1>1, <1>2

(* What a chunk leaves of a verdict.                                         *)
LEMMA ChunkKeeps ==
    ASSUME NEW x \in Converter, Numbered(x), VerdictGiven(x), NEW m \in Messages
    PROVE  LET y == AfterCalls(AfterContent(AfterThought(Started(x), m), m), m)
           IN  /\ y \in Converter /\ Numbered(y) /\ VerdictGiven(y)
               /\ y.completed = x.completed
               /\ y.verdicts \in {x.verdicts, Append(x.verdicts, "created")}
               /\ Carried(x) => Carried(y)
  <1>1. PICK s : s = Started(x)
    OBVIOUS
  <1>2. /\ s \in Converter /\ Numbered(s)
        /\ s.completed = x.completed /\ s.failed = x.failed
        /\ s.verdicts \in {x.verdicts, Append(x.verdicts, "created")}
        /\ Carried(x) => Carried(s)
    BY <1>1, StartedContinues
  <1>3. PICK y : y = AfterCalls(AfterContent(AfterThought(s, m), m), m)
    OBVIOUS
  <1>4. Continues(s, y)
    BY <1>2, <1>3, ChunkContinues
  <1>5. /\ y \in Converter /\ Numbered(y)
        /\ y.completed = x.completed /\ y.failed = x.failed
        /\ y.verdicts \in {x.verdicts, Append(x.verdicts, "created")}
        /\ Carried(x) => Carried(y)
    BY <1>2, <1>4 DEF Continues
  <1>6. VerdictGiven(y)
    <2>1. CASE y.verdicts = x.verdicts
      BY <1>5, <2>1 DEF VerdictGiven
    <2>2. CASE y.verdicts = Append(x.verdicts, "created")
      <3>1. y.failed => y.completed
        BY <1>5 DEF VerdictGiven
      <3> QED BY <1>5, <2>2, <3>1, VerdictAppended
    <2> QED BY <1>5, <2>1, <2>2
  <1> QED BY <1>1, <1>3, <1>5, <1>6

(* The bound of the blocks.                                                  *)
LEMMA ReceivingBound == ConversionInv /\ Receiving => chunks' \in 0 .. MaxChunks
  BY StreamAssumption DEF ConversionInv, Receiving

(* A step keeps the invariant.                                               *)
LEMMA StreamNextConversionInv == ConversionInv /\ [StreamNext]_streamVars => ConversionInv'
  <1> SUFFICES ASSUME ConversionInv, [StreamNext]_streamVars PROVE ConversionInv'
    OBVIOUS
  <1>0. PICK x : x = answer
    OBVIOUS
  <1>1. x \in Converter /\ Numbered(x) /\ VerdictGiven(x) /\ (~ x.completed => Carried(x))
    BY <1>0 DEF ConversionInv
  <1> DEFINE Keeps(y) == /\ y \in Converter /\ Numbered(y) /\ VerdictGiven(y)
                         /\ ~ y.completed => Carried(y)
  <1>2. CASE Chunk
    <2>1. PICK m \in Chunks : answer' = AfterCalls(AfterContent(AfterThought(Started(x), m), m), m)
      BY <1>0, <1>2 DEF Chunk
    <2>2. m \in Messages
      BY ChunksAreMessages
    <2>3. PICK y : y = AfterCalls(AfterContent(AfterThought(Started(x), m), m), m)
      OBVIOUS
    <2>4. Keeps(y)
      BY <1>1, <2>2, <2>3, ChunkKeeps
    <2>5. cut' \in BOOLEAN /\ over' \in BOOLEAN /\ chunks' \in 0 .. MaxChunks
      <3>1. PICK q \in Chunks : cut' = (cut \/ q.hasCalls)
        BY <1>2 DEF Chunk
      <3>2. q.hasCalls \in BOOLEAN
        BY ChunksAreMessages DEF Messages
      <3> QED BY <1>2, <3>1, <3>2, ReceivingBound DEF Chunk, ConversionInv
    <2> QED BY <2>1, <2>3, <2>4, <2>5 DEF ConversionInv
  <1>3. CASE SaysDone
    <2>1. PICK y : y = Finalized(x)
      OBVIOUS
    <2>2. Keeps(y)
      BY <1>1, <2>1, FinalizedKeeps
    <2>3. answer' = y /\ chunks' \in 0 .. MaxChunks /\ over' \in BOOLEAN
      BY <1>0, <1>3, <2>1, ReceivingBound DEF SaysDone, ConversionInv
    <2>4. cut' \in BOOLEAN
      BY <1>3 DEF SaysDone
    <2> QED BY <2>2, <2>3, <2>4 DEF ConversionInv
  <1>4. CASE SaysError
    <2>1. PICK y : y = Failed(x)
      OBVIOUS
    <2>2. Keeps(y)
      BY <1>1, <2>1, FailedKeeps
    <2>3. answer' = y /\ chunks' \in 0 .. MaxChunks /\ over' = over /\ cut' = cut
      BY <1>0, <1>4, <2>1, ReceivingBound DEF SaysError, ghosts
    <2> QED BY <2>2, <2>3 DEF ConversionInv
  <1>5. CASE Breaks
    <2>1. PICK y : y = Failed(x)
      OBVIOUS
    <2>2. Keeps(y)
      BY <1>1, <2>1, FailedKeeps
    <2>3. answer' = y /\ chunks' = chunks /\ over' \in BOOLEAN /\ cut' = cut
      BY <1>0, <1>5, <2>1 DEF Breaks, ghosts
    <2> QED BY <2>2, <2>3 DEF ConversionInv
  <1>6. CASE Ends
    <2>1. PICK y : y = IF x.failed THEN x ELSE Finalized(x)
      OBVIOUS
    <2>2. Keeps(y)
      BY <1>1, <2>1, FinalizedKeeps
    <2>3. answer' = y /\ chunks' = chunks /\ over' \in BOOLEAN /\ cut' = cut
      BY <1>0, <1>6, <2>1 DEF Ends, ghosts
    <2> QED BY <2>2, <2>3 DEF ConversionInv
  <1>7. CASE UNCHANGED streamVars
    <2>1. answer' = answer /\ over' = over /\ chunks' = chunks /\ cut' = cut
      BY <1>7 DEF streamVars, ghosts
    <2> QED BY <2>1 DEF ConversionInv
  <1> QED BY <1>2, <1>3, <1>4, <1>5, <1>6, <1>7 DEF StreamNext

(* The inductive invariant holds.                                            *)
THEOREM ConversionInvHolds == StreamSpec => []ConversionInv
  BY StreamInitConversionInv, StreamNextConversionInv, PTL DEF StreamSpec

(* The items are finitely many.                                              *)
LEMMA KindsAreFinite == IsFiniteSet(Kinds) /\ Cardinality(Kinds) \in Nat
  <1> DEFINE calls == {Call(k) : k \in Tools}
             f == [n \in Tools |-> Call(n)]
  <1>1. IsFiniteSet(Tools)
    BY StreamAssumption, FS_Interval DEF Tools
  <1>2. f \in Surjection(Tools, calls)
    BY DEF Surjection
  <1>3. IsFiniteSet(calls)
    <2> HIDE DEF f, calls
    <2> QED BY <1>1, <1>2, FS_Surjection
  <1>4. IsFiniteSet({Reasoning, Text})
    <2>1. {Reasoning, Text} = {Reasoning} \cup {Text}
      OBVIOUS
    <2>2. IsFiniteSet({Reasoning})
      BY FS_Singleton
    <2>3. IsFiniteSet({Reasoning} \cup {Text})
      BY <2>2, FS_AddElement
    <2> QED BY <2>1, <2>3
  <1>5. Kinds = {Reasoning, Text} \cup calls
    BY DEF Kinds
  <1> HIDE DEF calls
  <1> QED BY <1>3, <1>4, <1>5, FS_Union, FS_CardinalityType

(* As many items are shown as indices were taken, and they have all of them. *)
LEMMA NumbersAreIndices ==
    ASSUME NEW x \in Converter, Numbered(x)
    PROVE  LET shown == {k \in Kinds : x.item[k].added > 0}
           IN  /\ {x.item[k].index : k \in shown} = 0 .. x.next - 1
               /\ Cardinality(shown) = x.next
               /\ x.next <= Cardinality(Kinds)
  <1> DEFINE shown == {k \in Kinds : x.item[k].added > 0}
             taken == 0 .. x.next - 1
             f == [k \in shown |-> x.item[k].index]
  <1>0. x.next \in Nat /\ \A k \in Kinds : x.item[k].index \in Nat /\ x.item[k].added \in {0, 1}
    BY DEF Converter, ItemState
  <1>1. \A k \in shown : k \in Kinds /\ x.item[k].added = 1
    BY <1>0
  <1>2. \A k \in Kinds : x.item[k].added = 1 => k \in shown
    OBVIOUS
  <1>3. shown \in SUBSET Kinds
    OBVIOUS
  <1> HIDE DEF shown
  <1>4. f \in [shown -> taken]
    <2>1. ASSUME NEW k \in shown PROVE x.item[k].index \in taken
      <3>1. x.item[k].index \in Nat /\ x.item[k].index < x.next
        BY <1>0, <1>1 DEF Numbered
      <3> QED BY <1>0, <3>1
    <2> QED BY <2>1
  <1>5. \A n \in taken : \E k \in shown : x.item[k].index = n
    <2>1. ASSUME NEW n \in taken PROVE \E k \in shown : x.item[k].index = n
      <3>1. n \in Nat /\ n < x.next
        BY <1>0
      <3>2. PICK k \in Kinds : x.item[k].added = 1 /\ x.item[k].index = n
        BY <3>1 DEF Numbered
      <3> QED BY <3>2, <1>2
    <2> QED BY <2>1
  <1>6. {x.item[k].index : k \in shown} = taken
    <2>1. \A k \in shown : x.item[k].index \in taken
      BY <1>4
    <2> HIDE DEF taken
    <2> QED BY <1>5, <2>1
  <1>7. f \in Injection(shown, taken)
    <2>1. \A j, k \in shown : x.item[j].index = x.item[k].index => j = k
      BY <1>1 DEF Numbered
    <2>2. \A k \in shown : f[k] = x.item[k].index
      OBVIOUS
    <2> HIDE DEF f
    <2> QED BY <1>4, <2>1, <2>2 DEF Injection, IsInjective
  <1>8. f \in Surjection(shown, taken)
    BY <1>4, <1>5 DEF Surjection
  <1>9. IsFiniteSet(taken) /\ Cardinality(taken) = x.next
    <2>1. PICK n : n = x.next
      OBVIOUS
    <2>2. n \in Nat /\ n - 1 \in Int /\ 0 \in Int
      BY <1>0, <2>1
    <2>3. IsFiniteSet(0 .. n - 1) /\ Cardinality(0 .. n - 1) = n
      BY <2>2, FS_Interval
    <2> QED BY <2>1, <2>3
  <1> HIDE DEF f, taken
  <1>10. Cardinality(shown) = x.next
    BY <1>7, <1>8, <1>9, FS_Injection
  <1>11. x.next <= Cardinality(Kinds)
    BY <1>3, <1>10, KindsAreFinite, FS_Subset
  <1> QED BY <1>6, <1>10, <1>11 DEF shown, taken

(* Whatever the upstream sends, in whatever pieces: every item has an index  *)
(* of its own, counted from 0 in the order in which the items were added.    *)
THEOREM IndicesCount == StreamSpec => []IndicesAreItems
  <1>1. ConversionInv => IndicesAreItems
    <2> SUFFICES ASSUME ConversionInv PROVE IndicesAreItems
      OBVIOUS
    <2>1. PICK x : x = answer
      OBVIOUS
    <2>2. x \in Converter /\ Numbered(x)
      BY <2>1 DEF ConversionInv
    <2>3. /\ x.next \in Nat /\ x.mode \in {"detecting", "reasoning", "text"}
          /\ x.buffer \in Seq(Tokens)
      BY <2>2 DEF Converter
    <2>4. PICK c : c = Cardinality(Kinds)
      OBVIOUS
    <2>5. c \in Nat /\ x.next <= c
      BY <2>2, <2>4, KindsAreFinite, NumbersAreIndices
    <2>6. ASSUME NEW k \in Kinds
          PROVE  /\ x.item[k].index \in 0 .. c
                 /\ x.item[k].added \in 0 .. 1
                 /\ x.item[k].done \in 0 .. x.item[k].added
      <3>1. x.item[k].index \in Nat /\ x.item[k].added \in {0, 1} /\ x.item[k].done \in {0, 1}
        BY <2>2 DEF Converter, ItemState
      <3>2. CASE x.item[k].added = 0
        <4>1. x.item[k].index = 0 /\ x.item[k].done = 0
          BY <2>2, <3>2 DEF Numbered
        <4> QED BY <2>5, <3>2, <4>1
      <3>3. CASE x.item[k].added = 1
        <4>1. x.item[k].index < x.next
          BY <2>2, <3>3 DEF Numbered
        <4> QED BY <2>3, <2>5, <3>1, <3>3, <4>1
      <3> QED BY <3>1, <3>2, <3>3
    <2>7. StreamTypes
      BY <2>1, <2>3, <2>4, <2>5, <2>6 DEF StreamTypes, ConversionInv
    <2> QED BY <2>1, <2>2, <2>7, NumbersAreIndices DEF IndicesAreItems
  <1> QED BY <1>1, ConversionInvHolds, PTL

(* While an answer lasts, the deltas of a function call that has an id or a  *)
(* name have carried all its arguments, those that came before it too, and   *)
(* those of a custom tool none of its input, however the calls are mixed.    *)
THEOREM ArgumentsArrive == StreamSpec => []ArgumentsAreStreamed
  <1>1. ConversionInv => ArgumentsAreStreamed
    <2> SUFFICES ASSUME ConversionInv, NEW n \in Tools, ~ answer.completed
                 PROVE  /\ answer.tool[n].as = "plain" =>
                              answer.item[Call(n)].streamed = answer.item[Call(n)].said
                        /\ answer.tool[n].as = "custom" => answer.item[Call(n)].streamed = << >>
      BY DEF ArgumentsAreStreamed
    <2>1. CallCarried(answer.tool[n], answer.item[Call(n)])
      BY DEF ConversionInv, Carried
    <2> QED BY <2>1 DEF CallCarried
  <1> QED BY <1>1, ConversionInvHolds, PTL

(* An answer is complete at most once and never after it has failed, and     *)
(* then every item is done and listed, in the order of the indices, and the  *)
(* deltas of each function call and custom tool have carried what it says.   *)
THEOREM CompleteIsWhole == StreamSpec => CompletedIsWhole
  <1> DEFINE Completes == Len(answer'.verdicts) > Len(answer.verdicts)
                          /\ Last(answer'.verdicts) = "completed"
             AllDone(y) ==
                         /\ \A k \in Kinds : y.item[k].done = y.item[k].added
                         /\ y.reported = [i \in 1 .. y.next |-> i - 1]
                         /\ \A k \in Tools : y.tool[k].seen => y.item[Call(k)].done = 1
                         /\ \A k \in Tools : y.tool[k].as \in {"plain", "custom"} =>
                               y.item[Call(k)].streamed = y.item[Call(k)].said
  <1>1. ASSUME ConversionInv, StreamNext, Completes
        PROVE  /\ \A i \in DOMAIN answer.verdicts : answer.verdicts[i] \notin {"completed", "failed"}
               /\ AllDone(answer')
    <2>0. PICK x, y : x = answer /\ y = answer'
      OBVIOUS
    <2>1. x \in Converter /\ Numbered(x) /\ VerdictGiven(x)
      BY <1>1, <2>0 DEF ConversionInv
    <2>2. PICK q : q = x.verdicts
      OBVIOUS
    <2>3. q \in Seq({"created", "completed", "failed"})
      BY <2>1, <2>2 DEF Converter
    <2>4. \A v : Len(Append(q, v)) = Len(q) + 1 /\ Append(q, v)[Len(q) + 1] = v /\ Len(q) \in Nat
      BY <2>3
    <2>5. Len(y.verdicts) > Len(q) /\ Last(y.verdicts) = "completed"
      BY <1>1, <2>0, <2>2
    <2>6. y.verdicts # q /\ y.verdicts # Append(q, "created") /\ y.verdicts # Append(q, "failed")
      BY <2>4, <2>5 DEF Last
    <2>7. ~ Chunk
      <3>1. ASSUME Chunk PROVE FALSE
        <4>1. PICK m \in Chunks : y = AfterCalls(AfterContent(AfterThought(Started(x), m), m), m)
          BY <2>0, <3>1 DEF Chunk
        <4>2. m \in Messages
          BY ChunksAreMessages
        <4> QED BY <2>1, <2>2, <2>6, <4>1, <4>2, ChunkKeeps
      <3> QED BY <3>1
    <2>8. y # Failed(x)
      BY <2>1, <2>2, <2>6, FailedKeeps
    <2>9. y = Finalized(x)
      BY <1>1, <2>0, <2>2, <2>6, <2>7, <2>8 DEF StreamNext, SaysDone, SaysError, Breaks, Ends
    <2>10. ~ x.completed
      BY <2>2, <2>6, <2>9 DEF Finalized
    <2>11. AllDone(y)
      <3>1. Carried(x)
        BY <1>1, <2>0, <2>10 DEF ConversionInv
      <3>2. \A n \in Tools : Whole(y.tool[n], y.item[Call(n)])
        BY <2>1, <2>9, <2>10, <3>1, FinalizedIsWhole
      <3>3. \A k \in Tools : y.tool[k].as \in {"plain", "custom"} =>
                               y.item[Call(k)].streamed = y.item[Call(k)].said
        BY <3>2 DEF Whole
      <3> QED BY <2>1, <2>9, <2>10, <3>3, FinalizedIsWhole
    <2>12. \A i \in DOMAIN x.verdicts : x.verdicts[i] \notin {"completed", "failed"}
      BY <2>1, <2>10 DEF VerdictGiven
    <2> QED BY <2>0, <2>11, <2>12
  <1>2. ConversionInv /\ [StreamNext]_streamVars =>
           [Completes =>
              /\ \A i \in DOMAIN answer.verdicts : answer.verdicts[i] \notin {"completed", "failed"}
              /\ AllDone(answer')]_streamVars
    BY <1>1
  <1> QED BY <1>2, ConversionInvHolds, PTL DEF StreamSpec, CompletedIsWhole

(*****************************************************************************)
(* Cutting text: what is in front decides, whatever follows.                 *)
(*****************************************************************************)

(* What is blank in a prefix is blank in the text.                           *)
LEMMA BlankPrefix ==
    ASSUME NEW t \in Seq(Tokens), NEW n \in 0 .. Len(t), AllBlank(SubSeq(t, 1, n))
    PROVE  \A i \in 1 .. n : t[i] = "blank"
  <1>1. PICK u : u = SubSeq(t, 1, n)
    OBVIOUS
  <1>2. DOMAIN u = 1 .. n /\ \A i \in 1 .. n : u[i] = t[i]
    BY <1>1
  <1> QED BY <1>1, <1>2 DEF AllBlank

(* The number of blanks in front is the only one of its kind.                *)
LEMMA BlanksAre ==
    ASSUME NEW t \in Seq(Tokens), NEW n \in 0 .. Len(t),
           \A i \in 1 .. n : t[i] = "blank",
           n < Len(t) => t[n + 1] # "blank"
    PROVE  Blanks(t) = n /\ TrimStart(t) = SubSeq(t, n + 1, Len(t))
  <1>1. PICK b : b = Blanks(t)
    OBVIOUS
  <1>2. /\ b \in 0 .. Len(t) /\ AllBlank(SubSeq(t, 1, b))
        /\ b < Len(t) => t[b + 1] # "blank"
        /\ TrimStart(t) = SubSeq(t, b + 1, Len(t))
    BY <1>1, TrimmedText
  <1>3. \A i \in 1 .. b : t[i] = "blank"
    BY <1>2, BlankPrefix
  <1>4. ~ (b < n)
    <2>1. ASSUME b < n PROVE FALSE
      <3>1. PICK i : i = b + 1
        OBVIOUS
      <3>2. i \in 1 .. n /\ b < Len(t)
        BY <1>2, <2>1, <3>1
      <3> QED BY <1>2, <3>1, <3>2
    <2> QED BY <2>1
  <1>5. ~ (n < b)
    <2>1. ASSUME n < b PROVE FALSE
      <3>1. PICK i : i = n + 1
        OBVIOUS
      <3>2. i \in 1 .. b /\ n < Len(t)
        BY <1>2, <2>1, <3>1
      <3> QED BY <1>3, <3>1, <3>2
    <2> QED BY <2>1
  <1>6. b = n
    BY <1>2, <1>4, <1>5
  <1> QED BY <1>1, <1>2, <1>6

(* How a text without blanks in front begins.                                *)
LEMMA TrimmedBegins ==
    ASSUME NEW t \in Seq(Tokens)
    PROVE  LET u == TrimStart(t)
           IN  u = << >> \/ (Len(u) > 0 /\ u[1] # "blank")
  <1>1. PICK n : n = Blanks(t)
    OBVIOUS
  <1>2. /\ n \in 0 .. Len(t)
        /\ n < Len(t) => t[n + 1] # "blank"
        /\ TrimStart(t) = SubSeq(t, n + 1, Len(t))
    BY <1>1, TrimmedText
  <1>3. CASE n = Len(t)
    <2>1. SubSeq(t, n + 1, Len(t)) = << >>
      BY <1>2, <1>3, SubSeqEmpty
    <2> QED BY <1>2, <2>1
  <1>4. CASE n < Len(t)
    <2>1. PICK u : u = SubSeq(t, n + 1, Len(t))
      OBVIOUS
    <2>2. n + 1 \in 1 .. Len(t) /\ Len(t) \in 1 .. Len(t)
      BY <1>2, <1>4
    <2>3. Len(u) = Len(t) - n /\ u[1] = t[n + 1]
      BY <1>2, <1>4, <2>1, <2>2
    <2> QED BY <1>2, <1>4, <2>1, <2>3
  <1> QED BY <1>2, <1>3, <1>4

(* A text that begins with something else than a blank has no blanks to lose. *)
LEMMA NothingToTrim ==
    ASSUME NEW t \in Seq(Tokens), t = << >> \/ (Len(t) > 0 /\ t[1] # "blank")
    PROVE  TrimStart(t) = t
  <1>1. 0 \in 0 .. Len(t) /\ (0 < Len(t) => t[0 + 1] # "blank")
    OBVIOUS
  <1>2. TrimStart(t) = SubSeq(t, 0 + 1, Len(t))
    BY <1>1, BlanksAre
  <1>3. SubSeq(t, 1, Len(t)) = t
    BY SubSeqFull
  <1> QED BY <1>2, <1>3

(* Trimming twice is trimming.                                               *)
LEMMA TrimTwice == ASSUME NEW t \in Seq(Tokens) PROVE TrimStart(TrimStart(t)) = TrimStart(t)
  BY TrimmedText, TrimmedBegins, NothingToTrim

(* Of a text that is cut, the blanks in front are those of its first part,   *)
(* and if there is nothing else, those of the second.                        *)
LEMMA TrimOfParts ==
    ASSUME NEW s \in Seq(Tokens), NEW d \in Seq(Tokens)
    PROVE  /\ TrimStart(s) = << >> => TrimStart(s \o d) = TrimStart(d)
           /\ TrimStart(s) # << >> => TrimStart(s \o d) = TrimStart(s) \o d
  <1>1. PICK n : n = Blanks(s)
    OBVIOUS
  <1>2. /\ n \in 0 .. Len(s) /\ AllBlank(SubSeq(s, 1, n))
        /\ n < Len(s) => s[n + 1] # "blank"
        /\ TrimStart(s) = SubSeq(s, n + 1, Len(s))
    BY <1>1, TrimmedText
  <1>3. \A i \in 1 .. n : s[i] = "blank"
    BY <1>2, BlankPrefix
  <1>4. PICK t : t = s \o d
    OBVIOUS
  <1>5. /\ t \in Seq(Tokens) /\ Len(t) = Len(s) + Len(d)
        /\ Len(s) \in Nat /\ Len(d) \in Nat
        /\ \A i \in 1 .. Len(t) : t[i] = IF i <= Len(s) THEN s[i] ELSE d[i - Len(s)]
    BY <1>4, ConcatProperties
  <1>6. CASE n < Len(s)
    <2>1. n \in 0 .. Len(t) /\ \A i \in 1 .. n : t[i] = "blank"
      BY <1>2, <1>3, <1>5
    <2>2. t[n + 1] # "blank"
      <3>1. PICK i : i = n + 1
        OBVIOUS
      <3>2. i \in 1 .. Len(t) /\ i <= Len(s)
        BY <1>2, <1>5, <1>6, <3>1
      <3> QED BY <1>2, <1>5, <1>6, <3>1, <3>2
    <2>3. TrimStart(t) = SubSeq(t, n + 1, Len(t))
      BY <1>5, <2>1, <2>2, BlanksAre
    <2>4. PICK u, v : u = SubSeq(s, n + 1, Len(s)) /\ v = SubSeq(t, n + 1, Len(t))
      OBVIOUS
    <2>5. /\ u \in Seq(Tokens) /\ Len(u) = Len(s) - n
          /\ \A i \in 1 .. Len(s) - n : u[i] = s[n + i]
      BY <1>2, <1>6, <2>4
    <2>6. /\ v \in Seq(Tokens) /\ Len(v) = Len(t) - n
          /\ \A i \in 1 .. Len(t) - n : v[i] = t[n + i]
      BY <2>1, <1>5, <2>4
    <2>7. v = u \o d
      <3>1. /\ u \o d \in Seq(Tokens) /\ Len(u \o d) = Len(u) + Len(d)
            /\ \A i \in 1 .. Len(u) + Len(d) : (u \o d)[i] = IF i <= Len(u) THEN u[i] ELSE d[i - Len(u)]
        BY <2>5, ConcatProperties
      <3>2. Len(v) = Len(u) + Len(d)
        BY <1>2, <1>5, <2>5, <2>6
      <3>3. ASSUME NEW i \in 1 .. Len(v) PROVE v[i] = (u \o d)[i]
        <4>1. i \in Nat /\ i >= 1 /\ i <= Len(t) - n /\ v[i] = t[n + i]
          BY <1>2, <1>5, <2>6
        <4>2. n + i \in 1 .. Len(t)
          BY <1>2, <1>5, <4>1
        <4>3. CASE i <= Len(u)
          <5>1. n + i <= Len(s) /\ i \in 1 .. Len(s) - n
            BY <1>2, <1>5, <2>5, <4>1, <4>3
          <5>2. t[n + i] = s[n + i] /\ u[i] = s[n + i]
            BY <1>5, <2>5, <4>2, <5>1
          <5>3. i \in 1 .. Len(u) + Len(d)
            BY <2>6, <3>2
          <5> QED BY <3>1, <4>1, <4>3, <5>2, <5>3
        <4>4. CASE ~ (i <= Len(u))
          <5>1. ~ (n + i <= Len(s)) /\ (n + i) - Len(s) = i - Len(u)
            BY <1>2, <1>5, <2>5, <4>1, <4>4
          <5>2. t[n + i] = d[i - Len(u)]
            BY <1>5, <4>2, <5>1
          <5>3. i \in 1 .. Len(u) + Len(d)
            BY <2>6, <3>2
          <5> QED BY <3>1, <4>1, <4>4, <5>2, <5>3
        <4> QED BY <4>3, <4>4
      <3> QED BY <2>6, <3>1, <3>2, <3>3, SeqEqual
    <2>8. u # << >>
      BY <1>2, <1>6, <2>5
    <2> QED BY <1>2, <1>4, <2>3, <2>4, <2>7, <2>8
  <1>7. CASE n = Len(s)
    <2>1. TrimStart(s) = << >>
      BY <1>2, <1>7, SubSeqEmpty
    <2>2. PICK m : m = Blanks(d)
      OBVIOUS
    <2>3. /\ m \in 0 .. Len(d) /\ AllBlank(SubSeq(d, 1, m))
          /\ m < Len(d) => d[m + 1] # "blank"
          /\ TrimStart(d) = SubSeq(d, m + 1, Len(d))
      BY <2>2, TrimmedText
    <2>4. \A i \in 1 .. m : d[i] = "blank"
      BY <2>3, BlankPrefix
    <2>5. PICK k : k = Len(s) + m
      OBVIOUS
    <2>6. k \in 0 .. Len(t)
      BY <1>5, <2>3, <2>5
    <2>7. \A i \in 1 .. k : t[i] = "blank"
      <3>1. ASSUME NEW i \in 1 .. k PROVE t[i] = "blank"
        <4>1. i \in 1 .. Len(t)
          BY <1>5, <2>3, <2>5
        <4>2. CASE i <= Len(s)
          BY <1>3, <1>5, <1>7, <4>1, <4>2
        <4>3. CASE ~ (i <= Len(s))
          <5>1. i - Len(s) \in 1 .. m
            BY <1>5, <2>3, <2>5, <4>3
          <5> QED BY <1>5, <2>4, <4>1, <4>3, <5>1
        <4> QED BY <4>2, <4>3
      <3> QED BY <3>1
    <2>8. k < Len(t) => t[k + 1] # "blank"
      <3>1. ASSUME k < Len(t) PROVE t[k + 1] # "blank"
        <4>1. m < Len(d)
          BY <1>5, <2>3, <2>5, <3>1
        <4>2. PICK i : i = k + 1
          OBVIOUS
        <4>3. i \in 1 .. Len(t) /\ ~ (i <= Len(s)) /\ i - Len(s) = m + 1
          BY <1>5, <2>3, <2>5, <4>1, <4>2
        <4> QED BY <1>5, <2>3, <4>1, <4>2, <4>3
      <3> QED BY <3>1
    <2>9. TrimStart(t) = SubSeq(t, k + 1, Len(t))
      BY <1>5, <2>6, <2>7, <2>8, BlanksAre
    <2>10. SubSeq(t, k + 1, Len(t)) = SubSeq(d, m + 1, Len(d))
      <3>1. PICK u, v : u = SubSeq(d, m + 1, Len(d)) /\ v = SubSeq(t, k + 1, Len(t))
        OBVIOUS
      <3>2. /\ u \in Seq(Tokens) /\ Len(u) = Len(d) - m
            /\ \A i \in 1 .. Len(d) - m : u[i] = d[m + i]
        BY <2>3, <3>1
      <3>3. /\ v \in Seq(Tokens) /\ Len(v) = Len(t) - k
            /\ \A i \in 1 .. Len(t) - k : v[i] = t[k + i]
        <4>1. k \in Nat /\ Len(t) \in Nat /\ k <= Len(t)
          BY <1>5, <2>6
        <4>2. \A i \in 1 .. Len(t) - k : (k + 1) + i - 1 = k + i
          BY <4>1
        <4>3. v \in Seq(Tokens) /\ Len(v) = Len(t) - k
          BY <1>5, <3>1, <4>1
        <4> QED BY <1>5, <3>1, <4>1, <4>2, <4>3
      <3>4. Len(u) = Len(v)
        BY <1>5, <2>3, <2>5, <3>2, <3>3
      <3>5. ASSUME NEW i \in 1 .. Len(u) PROVE u[i] = v[i]
        <4>1. u[i] = d[m + i] /\ v[i] = t[k + i]
          BY <3>2, <3>3, <3>4
        <4>2. k + i \in 1 .. Len(t) /\ ~ (k + i <= Len(s)) /\ (k + i) - Len(s) = m + i
          BY <1>5, <2>3, <2>5, <3>2
        <4> QED BY <1>5, <4>1, <4>2
      <3> QED BY <3>1, <3>2, <3>3, <3>4, <3>5, SeqEqual
    <2> QED BY <1>4, <2>1, <2>3, <2>9, <2>10
  <1> QED BY <1>2, <1>6, <1>7

(* What it is to begin with the opening tag, or to be a part of it.          *)
LEMMA OpenPrefixes ==
    ASSUME NEW u \in Seq(Tokens)
    PROVE  /\ IsPrefix(Open, u) <=> Len(u) >= 2 /\ u[1] = "<thi" /\ u[2] = "nk>"
           /\ IsPrefix(u, Open) <=> \/ u = << >>
                                    \/ Len(u) = 1 /\ u[1] = "<thi"
                                    \/ Len(u) = 2 /\ u[1] = "<thi" /\ u[2] = "nk>"
  <1>0. /\ Open = <<"<thi", "nk>">> /\ Len(Open) = 2 /\ Open[1] = "<thi" /\ Open[2] = "nk>"
        /\ Open \in Seq({"<thi", "nk>"})
    BY DEF Open
  <1>1. \A q \in Seq({"<thi", "nk>"}) : SubSeq(q, 1, Len(q)) = q
    BY SubSeqFull
  <1>2. SubSeq(u, 1, Len(u)) = u
    BY SubSeqFull
  <1>3. ASSUME Len(u) >= 2
        PROVE  SubSeq(u, 1, 2) = Open <=> u[1] = "<thi" /\ u[2] = "nk>"
    <2>1. PICK v : v = SubSeq(u, 1, 2)
      OBVIOUS
    <2>2. v \in Seq(Tokens) /\ Len(v) = 2 /\ v[1] = u[1] /\ v[2] = u[2]
      BY <1>3, <2>1
    <2>3. v = <<v[1], v[2]>>
      BY <2>2
    <2> QED BY <1>0, <2>1, <2>2, <2>3
  <1>4. IsPrefix(Open, u) <=> Len(u) >= 2 /\ u[1] = "<thi" /\ u[2] = "nk>"
    <2>1. SubSeq(Open, 1, Len(Open)) = Open
      BY <1>0, <1>1
    <2> QED BY <1>0, <1>3, <2>1 DEF IsPrefix
  <1>5. IsPrefix(u, Open) <=> Len(u) <= 2 /\ u = SubSeq(Open, 1, Len(u))
    BY <1>0, <1>2 DEF IsPrefix
  <1>6. CASE Len(u) = 0
    <2>1. u = << >> /\ SubSeq(Open, 1, 0) = << >>
      BY <1>6, EmptySeq, SubSeqEmpty
    <2> QED BY <1>4, <1>5, <1>6, <2>1
  <1>7. CASE Len(u) = 1
    <2>1. SubSeq(Open, 1, 1) = <<"<thi">>
      <3>1. PICK o : o = SubSeq(Open, 1, 1)
        OBVIOUS
      <3>2. o \in Seq({"<thi", "nk>"}) /\ Len(o) = 1 /\ o[1] = Open[1]
        BY <1>0, <3>1
      <3>3. o = <<o[1]>>
        BY <3>2
      <3> QED BY <1>0, <3>1, <3>2, <3>3
    <2>2. u = <<u[1]>>
      BY <1>7
    <2>3. <<u[1]>> = <<"<thi">> <=> u[1] = "<thi"
      OBVIOUS
    <2>4. Len(u) # 0
      BY <1>7
    <2>5. u # << >>
      BY <2>4, EmptySeq
    <2>6. IsPrefix(u, Open) <=> u[1] = "<thi"
      <3>1. SubSeq(Open, 1, Len(u)) = <<"<thi">>
        BY <1>7, <2>1
      <3>2. 1 <= 2
        OBVIOUS
      <3>3. u = <<"<thi">> <=> u[1] = "<thi"
        BY <2>2, <2>3
      <3> QED BY <1>5, <1>7, <3>1, <3>2, <3>3
    <2> QED BY <1>4, <1>7, <2>5, <2>6
  <1>8. CASE Len(u) = 2
    <2>1. SubSeq(Open, 1, 2) = Open
      BY <1>0, <1>1
    <2>2. u = <<u[1], u[2]>> /\ u # << >>
      BY <1>8
    <2> QED BY <1>0, <1>4, <1>5, <1>8, <2>1, <2>2
  <1>9. CASE Len(u) > 2
    <2>1. ~ (Len(u) <= 2) /\ Len(u) # 1 /\ Len(u) # 2 /\ Len(u) # 0
      <3>1. \A n \in Nat : n > 2 => ~ (n <= 2) /\ n # 1 /\ n # 2 /\ n # 0
        OBVIOUS
      <3>2. Len(u) \in Nat
        OBVIOUS
      <3> QED BY <1>9, <3>1, <3>2
    <2>2. ~ IsPrefix(u, Open)
      BY <1>5, <2>1
    <2>3. u # << >>
      BY <2>1, EmptySeq
    <2> QED BY <1>4, <2>1, <2>2, <2>3
  <1>10. Len(u) = 0 \/ Len(u) = 1 \/ Len(u) = 2 \/ Len(u) > 2
    <2>1. Len(u) \in Nat
      OBVIOUS
    <2>2. \A n \in Nat : n = 0 \/ n = 1 \/ n = 2 \/ n > 2
      OBVIOUS
    <2> QED BY <2>1, <2>2
  <1> QED BY <1>6, <1>7, <1>8, <1>9, <1>10

(* The three decisions.                                                      *)
LEMMA Decisions ==
    ASSUME NEW t \in Seq(Tokens)
    PROVE  /\ Decision(t) \in {"more", "reasoning", "text"}
           /\ Decision(t) = "reasoning" <=> IsPrefix(Open, TrimStart(t))
           /\ HasThink(t) => Decision(t) = "reasoning"
  BY DEF Decision, HasThink

(* An opening tag stays one.                                                 *)
LEMMA OpenStays ==
    ASSUME NEW t \in Seq(Tokens), NEW d \in Seq(Tokens), IsPrefix(Open, TrimStart(t))
    PROVE  /\ IsPrefix(Open, TrimStart(t \o d))
           /\ Body(t \o d) = Body(t) \o d
  <1>1. PICK u : u = TrimStart(t)
    OBVIOUS
  <1>2. u \in Seq(Tokens) /\ Len(u) >= 2 /\ u[1] = "<thi" /\ u[2] = "nk>"
    BY <1>1, TrimmedText, OpenPrefixes
  <1>3. TrimStart(t \o d) = u \o d
    <2>1. u # << >>
      BY <1>2
    <2> QED BY <1>1, <2>1, TrimOfParts
  <1>4. PICK v : v = u \o d
    OBVIOUS
  <1>5. /\ v \in Seq(Tokens) /\ Len(v) = Len(u) + Len(d) /\ Len(u) \in Nat /\ Len(d) \in Nat
        /\ \A i \in 1 .. Len(v) : v[i] = IF i <= Len(u) THEN u[i] ELSE d[i - Len(u)]
    BY <1>2, <1>4, ConcatProperties
  <1>6. IsPrefix(Open, v)
    <2>1. 1 \in 1 .. Len(v) /\ 2 \in 1 .. Len(v) /\ 1 <= Len(u) /\ 2 <= Len(u)
      BY <1>2, <1>5
    <2>2. v[1] = u[1] /\ v[2] = u[2] /\ Len(v) >= 2
      BY <1>5, <2>1
    <2> QED BY <1>2, <1>5, <2>2, OpenPrefixes
  <1>7. SubSeq(v, 3, Len(v)) = SubSeq(u, 3, Len(u)) \o d
    <2>1. PICK a, b : a = SubSeq(u, 3, Len(u)) /\ b = SubSeq(v, 3, Len(v))
      OBVIOUS
    <2>2. /\ a \in Seq(Tokens) /\ Len(a) = Len(u) - 2
          /\ \A i \in 1 .. Len(u) - 2 : a[i] = u[i + 2]
      <3>1. \A i \in 1 .. Len(u) - 2 : 3 + i - 1 = i + 2
        BY <1>5
      <3>2. a \in Seq(Tokens) /\ Len(a) = Len(u) - 2
        <4>1. \A n \in Nat : n >= 2 => 3 <= n + 1 /\ n - 3 + 1 = n - 2
          OBVIOUS
        <4>2. 3 <= Len(u) + 1 /\ Len(u) - 3 + 1 = Len(u) - 2
          BY <1>2, <1>5, <4>1
        <4>3. 3 \in 1 .. Len(u) + 1 /\ Len(u) \in 3 - 1 .. Len(u)
          <5>1. \A n \in Nat : n >= 2 => 3 \in 1 .. n + 1 /\ n \in 3 - 1 .. n
            OBVIOUS
          <5> QED BY <1>2, <1>5, <5>1
        <4> QED BY <1>2, <2>1, <4>2, <4>3, SubSeqProperties
      <3> QED BY <1>2, <1>5, <2>1, <3>1, <3>2
    <2>3. /\ b \in Seq(Tokens) /\ Len(b) = Len(v) - 2
          /\ \A i \in 1 .. Len(v) - 2 : b[i] = v[i + 2]
      <3>1. Len(v) \in Nat /\ Len(v) >= 2 /\ \A i \in 1 .. Len(v) - 2 : 3 + i - 1 = i + 2
        BY <1>2, <1>5
      <3>2. b \in Seq(Tokens) /\ Len(b) = Len(v) - 2
        BY <1>5, <2>1, <3>1
      <3> QED BY <1>5, <2>1, <3>1, <3>2
    <2>4. /\ a \o d \in Seq(Tokens) /\ Len(a \o d) = Len(a) + Len(d)
          /\ \A i \in 1 .. Len(a) + Len(d) : (a \o d)[i] = IF i <= Len(a) THEN a[i] ELSE d[i - Len(a)]
      BY <2>2, ConcatProperties
    <2>5. Len(b) = Len(a) + Len(d)
      BY <1>2, <1>5, <2>2, <2>3
    <2>6. ASSUME NEW i \in 1 .. Len(b) PROVE b[i] = (a \o d)[i]
      <3>1. i \in Nat /\ i >= 1 /\ i <= Len(v) - 2 /\ i + 2 \in 1 .. Len(v) /\ b[i] = v[i + 2]
        BY <1>2, <1>5, <2>3
      <3>2. i \in 1 .. Len(a) + Len(d)
        BY <2>5
      <3>3. CASE i <= Len(a)
        <4>1. i + 2 <= Len(u) /\ i \in 1 .. Len(u) - 2
          BY <1>2, <1>5, <2>2, <3>1, <3>3
        <4> QED BY <1>5, <2>2, <2>4, <3>1, <3>2, <3>3, <4>1
      <3>4. CASE ~ (i <= Len(a))
        <4>1. ~ (i + 2 <= Len(u)) /\ (i + 2) - Len(u) = i - Len(a)
          BY <1>2, <1>5, <2>2, <3>1, <3>4
        <4> QED BY <1>5, <2>4, <3>1, <3>2, <3>4, <4>1
      <3> QED BY <3>3, <3>4
    <2> QED BY <2>1, <2>3, <2>4, <2>5, <2>6, SeqEqual
  <1>8. Len(Open) + 1 = 3
    BY DEF Open
  <1>9. Body(t) = SubSeq(u, 3, Len(u)) /\ Body(t \o d) = SubSeq(v, 3, Len(v))
    BY <1>1, <1>3, <1>4, <1>8 DEF Body
  <1> QED BY <1>3, <1>4, <1>6, <1>7, <1>9

(* Text stays text.                                                          *)
LEMMA TextStays ==
    ASSUME NEW t \in Seq(Tokens), NEW d \in Seq(Tokens), Decision(t) = "text"
    PROVE  Decision(t \o d) = "text"
  <1>1. PICK u : u = TrimStart(t)
    OBVIOUS
  <1>2. u \in Seq(Tokens) /\ ~ IsPrefix(Open, u) /\ ~ IsPrefix(u, Open)
    BY <1>1, TrimmedText DEF Decision
  <1>3. u # << >> /\ Len(u) \in Nat /\ Len(u) > 0
    BY <1>2, OpenPrefixes
  <1>4. TrimStart(t \o d) = u \o d
    BY <1>1, <1>3, TrimOfParts
  <1>5. PICK v : v = u \o d
    OBVIOUS
  <1>6. /\ v \in Seq(Tokens) /\ Len(v) = Len(u) + Len(d) /\ Len(d) \in Nat
        /\ \A i \in 1 .. Len(v) : v[i] = IF i <= Len(u) THEN u[i] ELSE d[i - Len(u)]
    BY <1>2, <1>5, ConcatProperties
  <1>7. 1 \in 1 .. Len(v) /\ v[1] = u[1] /\ (Len(u) >= 2 => Len(v) >= 2 /\ v[2] = u[2])
    <2>1. 1 \in 1 .. Len(v) /\ 1 <= Len(u)
      BY <1>3, <1>6
    <2>2. Len(u) >= 2 => 2 \in 1 .. Len(v) /\ 2 <= Len(u)
      BY <1>3, <1>6
    <2> QED BY <1>6, <2>1, <2>2
  <1>8. Len(v) = 1 => Len(u) = 1
    BY <1>3, <1>6
  <1>9. v # << >>
    BY <1>3, <1>6
  <1>10. CASE Len(u) = 1
    <2>1. v[1] # "<thi"
      BY <1>2, <1>7, <1>10, OpenPrefixes
    <2>2. ~ IsPrefix(Open, v) /\ ~ IsPrefix(v, Open)
      BY <1>6, <1>9, <2>1, OpenPrefixes
    <2> QED BY <1>4, <1>5, <2>2 DEF Decision
  <1>11. CASE Len(u) >= 2
    <2>1. ~ (u[1] = "<thi" /\ u[2] = "nk>")
      BY <1>2, <1>11, OpenPrefixes
    <2>2. ~ (v[1] = "<thi" /\ v[2] = "nk>") /\ Len(v) >= 2
      BY <1>7, <1>11, <2>1
    <2>3. ~ IsPrefix(Open, v) /\ ~ IsPrefix(v, Open)
      BY <1>6, <1>9, <2>2, OpenPrefixes
    <2> QED BY <1>4, <1>5, <2>3 DEF Decision
  <1>12. Len(u) = 1 \/ Len(u) >= 2
    <2>1. \A n \in Nat : n > 0 => n = 1 \/ n >= 2
      OBVIOUS
    <2> QED BY <1>3, <2>1
  <1> QED BY <1>10, <1>11, <1>12

(* What comes after the closing tag of a block.                              *)
Rest(t) == SubSeq(Body(t), Min(Closings(t)) + 2, Len(Body(t)))

(* Two tokens in a row.                                                      *)
LEMMA TwoTokens ==
    ASSUME NEW t \in Seq(Tokens), NEW i \in Nat, i >= 1, i + 1 <= Len(t)
    PROVE  SubSeq(t, i, i + 1) = <<t[i], t[i + 1]>>
  <1>1. PICK v : v = SubSeq(t, i, i + 1)
    OBVIOUS
  <1>2. PICK n : n = i + 1
    OBVIOUS
  <1>3. v \in Seq(Tokens) /\ Len(v) = 2
    BY <1>1
  <1>4. i + 1 - 1 = i /\ i + 2 - 1 = n
    BY <1>2
  <1>5. v[1] = t[i + 1 - 1] /\ v[2] = t[i + 2 - 1]
    BY <1>1, <1>3
  <1>6. v = <<v[1], v[2]>>
    BY <1>3
  <1> QED BY <1>1, <1>2, <1>4, <1>5, <1>6

(* Where a closing tag may begin.                                            *)
LEMMA ClosingsAreNaturals == ASSUME NEW t PROVE Closings(t) \subseteq Nat
  <1>1. PICK n : n = Len(Body(t)) - 1
    OBVIOUS
  <1>2. Closings(t) = {i \in 1 .. n : SubSeq(Body(t), i, i + 1) = Close}
    BY <1>1 DEF Closings
  <1>3. 1 .. n \subseteq Nat
    OBVIOUS
  <1> QED BY <1>2, <1>3

(* A closed block stays as it is, and what follows it goes on.               *)
LEMMA ThinkStays ==
    ASSUME NEW t \in Seq(Tokens), NEW d \in Seq(Tokens), HasThink(t)
    PROVE  /\ HasThink(t \o d)
           /\ Thought(t \o d) = Thought(t)
           /\ Rest(t) \in Seq(Tokens)
           /\ Rest(t \o d) = Rest(t) \o d
  <1>1. PICK b, c : b = Body(t) /\ c = Body(t \o d)
    OBVIOUS
  <1>2. IsPrefix(Open, TrimStart(t \o d)) /\ c = b \o d
    BY <1>1, OpenStays DEF HasThink
  <1>3. b \in Seq(Tokens)
    BY <1>1, PartsAreText
  <1>4. /\ c \in Seq(Tokens) /\ Len(c) = Len(b) + Len(d) /\ Len(b) \in Nat /\ Len(d) \in Nat
        /\ \A i \in 1 .. Len(c) : c[i] = IF i <= Len(b) THEN b[i] ELSE d[i - Len(b)]
    BY <1>2, <1>3, ConcatProperties
  <1>5. Closings(t) # {} /\ Closings(t) \subseteq Nat
    BY DEF HasThink, Closings
  <1>6. PICK m : m = Min(Closings(t))
    OBVIOUS
  <1>7. m \in Closings(t) /\ \A i \in Closings(t) : m <= i
    BY <1>5, <1>6, LeastNatural
  <1>8. m \in 1 .. Len(b) - 1 /\ SubSeq(b, m, m + 1) = Close
    BY <1>1, <1>7 DEF Closings
  <1>9. \A i \in 1 .. Len(b) - 1 : SubSeq(c, i, i + 1) = SubSeq(b, i, i + 1)
    <2>1. ASSUME NEW i \in 1 .. Len(b) - 1 PROVE SubSeq(c, i, i + 1) = SubSeq(b, i, i + 1)
      <3>1. i + 1 <= Len(b) /\ i + 1 <= Len(c) /\ i \in Nat /\ i >= 1
        BY <1>4
      <3>2. i \in 1 .. Len(c) /\ i + 1 \in 1 .. Len(c) /\ i <= Len(b)
        BY <1>4, <3>1
      <3>3. c[i] = b[i] /\ c[i + 1] = b[i + 1]
        BY <1>4, <3>1, <3>2
      <3>4. SubSeq(c, i, i + 1) = <<c[i], c[i + 1]>> /\ SubSeq(b, i, i + 1) = <<b[i], b[i + 1]>>
        BY <1>3, <1>4, <3>1, TwoTokens
      <3> QED BY <3>3, <3>4
    <2> QED BY <2>1
  <1>10. m \in Closings(t \o d)
    <2>1. m \in 1 .. Len(c) - 1 /\ SubSeq(c, m, m + 1) = Close
      BY <1>4, <1>8, <1>9
    <2> QED BY <1>1, <2>1 DEF Closings
  <1>11. \A i \in Closings(t \o d) : m <= i
    <2>1. ASSUME NEW i \in Closings(t \o d), i < m PROVE FALSE
      <3>1. i \in 1 .. Len(c) - 1 /\ SubSeq(c, i, i + 1) = Close
        BY <1>1 DEF Closings
      <3>2. i \in 1 .. Len(b) - 1
        BY <1>4, <1>8, <2>1, <3>1
      <3>3. i \in Closings(t)
        BY <1>1, <1>9, <3>1, <3>2 DEF Closings
      <3> QED BY <1>4, <1>7, <1>8, <2>1, <3>1, <3>3
    <2>2. Closings(t \o d) \subseteq Nat /\ m \in Nat
      BY <1>4, <1>8, ClosingsAreNaturals
    <2> QED BY <2>1, <2>2
  <1>12. Min(Closings(t \o d)) = m
    <2>1. PICK n : n = Min(Closings(t \o d))
      OBVIOUS
    <2>2. Closings(t \o d) # {} /\ Closings(t \o d) \subseteq Nat
      BY <1>4, <1>10, ClosingsAreNaturals
    <2>3. n \in Closings(t \o d) /\ n <= m
      BY <1>10, <2>1, <2>2, LeastNatural
    <2>4. m <= n /\ n \in Nat /\ m \in Nat
      BY <1>10, <1>11, <2>2, <2>3
    <2> QED BY <2>1, <2>3, <2>4
  <1>13. HasThink(t \o d)
    BY <1>2, <1>10 DEF HasThink
  <1>14. Thought(t \o d) = Thought(t)
    <2>1. PICK u, v : u = SubSeq(b, 1, m - 1) /\ v = SubSeq(c, 1, m - 1)
      OBVIOUS
    <2>2. /\ u \in Seq(Tokens) /\ Len(u) = m - 1 /\ \A i \in 1 .. m - 1 : u[i] = b[i]
      BY <1>3, <1>4, <1>8, <2>1
    <2>3. /\ v \in Seq(Tokens) /\ Len(v) = m - 1 /\ \A i \in 1 .. m - 1 : v[i] = c[i]
      BY <1>4, <1>8, <2>1
    <2>4. \A i \in 1 .. m - 1 : c[i] = b[i]
      BY <1>4, <1>8
    <2>5. \A i \in 1 .. Len(u) : u[i] = v[i]
      BY <2>2, <2>3, <2>4
    <2>6. u = v
      BY <2>2, <2>3, <2>5, SeqEqual
    <2> QED BY <1>1, <1>6, <1>12, <2>1, <2>6 DEF Thought
  <1>15. PICK k : k = m + 1
    OBVIOUS
  <1>16. k \in 2 .. Len(b) /\ k + 1 = m + 2
    BY <1>4, <1>8, <1>15
  <1>17. SubSeq(c, k + 1, Len(c)) = SubSeq(b, k + 1, Len(b)) \o d
    <2>1. PICK u, v : u = SubSeq(b, k + 1, Len(b)) /\ v = SubSeq(c, k + 1, Len(c))
      OBVIOUS
    <2>2. /\ u \in Seq(Tokens) /\ Len(u) = Len(b) - k
          /\ \A i \in 1 .. Len(b) - k : u[i] = b[i + k]
      BY <1>3, <1>4, <1>16, <2>1
    <2>3. /\ v \in Seq(Tokens) /\ Len(v) = Len(c) - k
          /\ \A i \in 1 .. Len(c) - k : v[i] = c[i + k]
      <3>1. k \in Nat /\ Len(c) \in Nat /\ k <= Len(c)
        BY <1>4, <1>16
      <3>2. \A i \in 1 .. Len(c) - k : (k + 1) + i - 1 = i + k
        BY <3>1
      <3>3. v \in Seq(Tokens) /\ Len(v) = Len(c) - k
        <4>1. PICK n, l : n = k + 1 /\ l = Len(c)
          OBVIOUS
        <4>2. n \in 1 .. l + 1 /\ l \in n - 1 .. l /\ l - n + 1 = l - k
          BY <3>1, <4>1
        <4>3. v \in Seq(Tokens) /\ Len(v) = l - n + 1
          <5>1. \A q \in Seq(Tokens) : \A j \in 1 .. Len(q) : q[j] \in Tokens
            OBVIOUS
          <5>2. n \in Int /\ l \in Int /\ n <= l + 1 /\ n .. l \subseteq 1 .. Len(c)
            BY <3>1, <4>1
          <5>3. \A j \in n .. l : c[j] \in Tokens
            BY <1>4, <5>1, <5>2
          <5>4. /\ SubSeq(c, n, l) \in Seq(Tokens)
                /\ Len(SubSeq(c, n, l)) = IF n <= l THEN l - n + 1 ELSE 0
            BY <5>2, <5>3, SubSeqProperties
          <5>5. (IF n <= l THEN l - n + 1 ELSE 0) = l - n + 1
            BY <5>2
          <5> QED BY <2>1, <4>1, <5>4, <5>5
        <4> QED BY <4>1, <4>2, <4>3
      <3> QED BY <1>4, <2>1, <3>1, <3>2, <3>3
    <2>4. /\ u \o d \in Seq(Tokens) /\ Len(u \o d) = Len(u) + Len(d)
          /\ \A i \in 1 .. Len(u) + Len(d) : (u \o d)[i] = IF i <= Len(u) THEN u[i] ELSE d[i - Len(u)]
      BY <2>2, ConcatProperties
    <2>5. Len(v) = Len(u) + Len(d)
      BY <1>4, <1>16, <2>2, <2>3
    <2>6. ASSUME NEW i \in 1 .. Len(v) PROVE v[i] = (u \o d)[i]
      <3>1. i \in Nat /\ i >= 1 /\ i <= Len(c) - k /\ i + k \in 1 .. Len(c) /\ v[i] = c[i + k]
        BY <1>4, <1>16, <2>3
      <3>2. i \in 1 .. Len(u) + Len(d)
        BY <2>5
      <3>3. CASE i <= Len(u)
        <4>1. i + k <= Len(b) /\ i \in 1 .. Len(b) - k
          BY <1>4, <1>16, <2>2, <3>1, <3>3
        <4> QED BY <1>4, <2>2, <2>4, <3>1, <3>2, <3>3, <4>1
      <3>4. CASE ~ (i <= Len(u))
        <4>1. ~ (i + k <= Len(b)) /\ (i + k) - Len(b) = i - Len(u)
          BY <1>4, <1>16, <2>2, <3>1, <3>4
        <4> QED BY <1>4, <2>4, <3>1, <3>2, <3>4, <4>1
      <3> QED BY <3>3, <3>4
    <2> QED BY <2>1, <2>3, <2>4, <2>5, <2>6, SeqEqual
  <1>18. Rest(t) = SubSeq(b, k + 1, Len(b)) /\ Rest(t \o d) = SubSeq(c, k + 1, Len(c))
    BY <1>1, <1>6, <1>12, <1>16 DEF Rest
  <1>19. Rest(t) \in Seq(Tokens)
    BY <1>3, <1>4, <1>16, <1>18
  <1> QED BY <1>13, <1>14, <1>17, <1>18, <1>19

(*****************************************************************************)
(* What a client is shown, and what leaves it alone.                         *)
(*****************************************************************************)

(* The same mode and buffer, the same text and reasoning.                    *)
SameView(x, y) ==
    /\ y.mode = x.mode /\ y.buffer = x.buffer
    /\ y.item[Text].said = x.item[Text].said
    /\ y.item[Reasoning].said = x.item[Reasoning].said

(* The text and the reasoning go on by t and r.                              *)
Says(x, y, t, r) ==
    /\ y.mode = x.mode /\ y.buffer = x.buffer
    /\ y.item[Text].said = x.item[Text].said \o t
    /\ y.item[Reasoning].said = x.item[Reasoning].said \o r

(* One view after the other.                                                 *)
LEMMA SameViewOn ==
    ASSUME NEW x, NEW y, NEW z, SameView(x, y), SameView(y, z)
    PROVE  SameView(x, z)
  BY DEF SameView

(* What text and reasoning hold are words.                                   *)
LEMMA SaidIsWords ==
    ASSUME NEW x \in Converter, NEW k \in Kinds
    PROVE  x.item[k].said \in Seq(Words)
  <1>1. x.item[k] \in ItemState
    BY DEF Converter
  <1> QED BY <1>1 DEF ItemState

(* A new state of one item.                                                  *)
Put(x, k, i) == [x EXCEPT !.item[k] = i]

(* It leaves the others as they are.                                         *)
LEMMA PutOne ==
    ASSUME NEW x \in Converter, NEW k \in Kinds, NEW i, NEW y, y = Put(x, k, i)
    PROVE  /\ y.mode = x.mode /\ y.buffer = x.buffer
           /\ y.item[k] = i
           /\ \A j \in Kinds : j # k => y.item[j] = x.item[j]
  <1>1. x.item \in [Kinds -> ItemState]
    BY DEF Converter
  <1> DEFINE items == [x.item EXCEPT ![k] = i]
  <1>2. items[k] = i /\ \A j \in Kinds : j # k => items[j] = x.item[j]
    BY <1>1
  <1> HIDE DEF items
  <1>3. y = [x EXCEPT !.item = items]
    BY DEF items, Put
  <1>4. y.mode = x.mode /\ y.buffer = x.buffer /\ y.item = items
    BY <1>3 DEF Converter
  <1> QED BY <1>2, <1>4

(* An item that is done says what it said.                                   *)
LEMMA FinishedView ==
    ASSUME NEW x \in Converter, NEW k \in Kinds
    PROVE  SameView(x, Finished(x, k))
  <1>1. CASE x.item[k].added = 0 \/ x.item[k].done > 0
    BY <1>1 DEF Finished, SameView
  <1>2. CASE ~ (x.item[k].added = 0 \/ x.item[k].done > 0)
    <2>0. x.item[k] \in ItemState
      BY DEF Converter
    <2>1. PICK i : i = [x.item[k] EXCEPT !.done = x.item[k].done + 1]
      OBVIOUS
    <2>2. i.said = x.item[k].said
      BY <2>0, <2>1 DEF ItemState
    <2>3. PICK y : y = Put(x, k, i)
      OBVIOUS
    <2>4. /\ y.mode = x.mode /\ y.buffer = x.buffer
          /\ \A j \in Kinds : y.item[j].said = x.item[j].said
      BY <2>2, <2>3, PutOne
    <2>5. Finished(x, k) = [y EXCEPT !.listed = x.listed \cup {x.item[k].index}]
      BY <1>2, <2>1, <2>3 DEF Finished, Put
    <2>6. /\ Finished(x, k).mode = y.mode /\ Finished(x, k).buffer = y.buffer
          /\ Finished(x, k).item = y.item
      BY <2>3, <2>5 DEF Converter, Put
    <2> QED BY <2>4, <2>6, KindsDiffer DEF SameView
  <1> QED BY <1>1, <1>2

(* An item that is added says what it said.                                  *)
LEMMA AddedView ==
    ASSUME NEW x \in Converter, Numbered(x), NEW k \in {Text, Reasoning}
    PROVE  LET y == Added(x, k)
           IN  /\ y \in Converter /\ SameView(x, y)
               /\ \A j \in Kinds : y.item[j].said = x.item[j].said
  <1>0. k \in Kinds /\ \A n \in Tools : k # Call(n)
    BY KindsDiffer
  <1>1. x.item[k].added \in {0, 1}
    BY <1>0 DEF Converter, ItemState
  <1>2. CASE x.item[k].added > 0
    BY <1>2 DEF Added, SameView
  <1>3. CASE x.item[k].added = 0
    <2>1. PICK y : y = Adding(x, k)
      OBVIOUS
    <2>2. /\ y \in Converter /\ y.mode = x.mode /\ y.buffer = x.buffer
          /\ \A j \in Kinds : j # k => y.item[j] = x.item[j]
          /\ y.item[k].said = x.item[k].said
      BY <1>0, <1>3, <2>1, AddingNumbers
    <2>3. \A j \in Kinds : y.item[j].said = x.item[j].said
      BY <2>2
    <2>4. Added(x, k) = y
      BY <1>3, <2>1 DEF Added
    <2> QED BY <2>2, <2>3, <2>4, KindsDiffer DEF SameView
  <1> QED BY <1>1, <1>2, <1>3

(* What a delta adds to an item.                                             *)
LEMMA DeltaSays ==
    ASSUME NEW x \in Converter, Numbered(x), NEW k \in {Text, Reasoning}, NEW d \in Seq(Words)
    PROVE  /\ k = Text => Says(x, Delta(x, k, d), d, << >>)
           /\ k = Reasoning => Says(x, Delta(x, k, d), << >>, d)
  <1>0. k \in Kinds
    BY KindsDiffer
  <1>1. PICK y : y = Added(x, k)
    OBVIOUS
  <1>2. y \in Converter /\ SameView(x, y) /\ \A j \in Kinds : y.item[j].said = x.item[j].said
    BY <1>1, AddedView
  <1>3. PICK i : i = [y.item[k] EXCEPT !.said = y.item[k].said \o d,
                                       !.streamed = y.item[k].streamed \o d]
    OBVIOUS
  <1>4. i.said = x.item[k].said \o d
    <2>1. y.item[k] \in ItemState
      BY <1>0, <1>2 DEF Converter
    <2>2. i.said = y.item[k].said \o d
      BY <1>3, <2>1 DEF ItemState
    <2> QED BY <1>0, <1>2, <2>2
  <1>5. PICK z : z = Delta(x, k, d)
    OBVIOUS
  <1>6. z = Put(y, k, i)
    BY <1>1, <1>3, <1>5 DEF Delta, Put
  <1>7. /\ z.mode = x.mode /\ z.buffer = x.buffer
        /\ z.item[k].said = x.item[k].said \o d
        /\ \A j \in Kinds : j # k => z.item[j].said = x.item[j].said
    <2>0. y \in Converter /\ k \in Kinds
      BY <1>0, <1>2
    <2>1. /\ z.mode = y.mode /\ z.buffer = y.buffer /\ z.item[k] = i
          /\ \A j \in Kinds : j # k => z.item[j] = y.item[j]
      BY <1>6, <2>0, PutOne
    <2> QED BY <1>2, <1>4, <2>1 DEF SameView
  <1>8. \A j \in Kinds : x.item[j].said \o << >> = x.item[j].said
    <2>1. \A q \in Seq(Words) : q \o << >> = q
      BY ConcatEmptySeq
    <2> QED BY <2>1, SaidIsWords
  <1> QED BY <1>5, <1>7, <1>8, KindsDiffer DEF Says

(* What the helpers that send text and reasoning say.                        *)
LEMMA HelpersSay ==
    ASSUME NEW x \in Converter, Numbered(x), NEW d \in Seq(Words)
    PROVE  /\ Says(x, TextDelta(x, d), d, << >>)
           /\ Says(x, ReasoningDelta(x, d), << >>, d)
           /\ Says(x, TextAfterReasoning(x, d), d, << >>)
  <1>0. Text \in Kinds /\ Reasoning \in Kinds
    BY KindsDiffer
  <1>1. Says(x, x, << >>, << >>)
    <2>1. \A q \in Seq(Words) : q \o << >> = q
      BY ConcatEmptySeq
    <2> QED BY <1>0, <2>1, SaidIsWords DEF Says
  <1>2. Says(x, TextDelta(x, d), d, << >>)
    BY <1>1, DeltaSays DEF TextDelta
  <1>3. Says(x, ReasoningDelta(x, d), << >>, d)
    <2>1. CASE d = << >>
      BY <1>1, <2>1 DEF ReasoningDelta
    <2>2. CASE d # << >>
      <3>1. PICK y : y = Delta(x, Reasoning, d)
        OBVIOUS
      <3>2. y \in Converter /\ Says(x, y, << >>, d)
        BY <3>1, DeltaContinues, DeltaSays DEF Continues
      <3>3. SameView(y, Finished(y, Reasoning))
        BY <1>0, <3>2, FinishedView
      <3>4. ReasoningDelta(x, d) = Finished(y, Reasoning)
        BY <2>2, <3>1 DEF ReasoningDelta
      <3> QED BY <3>2, <3>3, <3>4 DEF Says, SameView
    <2> QED BY <2>1, <2>2
  <1>4. Says(x, TextAfterReasoning(x, d), d, << >>)
    <2>1. PICK y : y = Finished(x, Reasoning)
      OBVIOUS
    <2>2. y \in Converter /\ Numbered(y) /\ SameView(x, y)
      BY <1>0, <2>1, FinishedContinues, FinishedView DEF Continues
    <2>3. Says(y, Delta(y, Text, d), d, << >>)
      BY <2>2, DeltaSays
    <2>4. TextAfterReasoning(x, d) = Delta(y, Text, d)
      BY <2>1 DEF TextAfterReasoning
    <2> QED BY <2>2, <2>3, <2>4 DEF Says, SameView
  <1> QED BY <1>2, <1>3, <1>4

(* What the closed block and the text after it say.                          *)
LEMMA SplitSays ==
    ASSUME NEW x \in Converter, Numbered(x), HasThink(x.buffer)
    PROVE  LET y == Split(x)
           IN  /\ y.mode = "text" /\ y.buffer = << >>
               /\ y.item[Text].said = x.item[Text].said \o Answer(x.buffer)
               /\ y.item[Reasoning].said = x.item[Reasoning].said \o Thought(x.buffer)
  <1>0. Text \in Kinds /\ Reasoning \in Kinds /\ << >> \in Seq(Tokens)
    BY KindsDiffer
  <1>1. x.buffer \in Seq(Tokens)
    BY DEF Converter
  <1>2. PICK u, v : u = Thought(x.buffer) /\ v = Answer(x.buffer)
    OBVIOUS
  <1>3. u \in Seq(Words) /\ v \in Seq(Words)
    BY <1>1, <1>2, PartsAreText, TokensAreWords
  <1>4. PICK y : y = [x EXCEPT !.mode = "text", !.buffer = << >>]
    OBVIOUS
  <1>5. y \in Converter /\ Numbered(y) /\ y.mode = "text" /\ y.buffer = << >> /\ y.item = x.item
    <2>1. Continues(x, y)
      BY <1>0, <1>4, BufferContinues
    <2>2. y.mode = "text" /\ y.buffer = << >> /\ y.item = x.item
      BY <1>4 DEF Converter
    <2> QED BY <2>1, <2>2 DEF Continues
  <1>6. PICK z : z = ReasoningDelta(y, u)
    OBVIOUS
  <1>7. z \in Converter /\ Numbered(z) /\ Says(y, z, << >>, u)
    BY <1>3, <1>5, <1>6, TextContinues, HelpersSay DEF Continues
  <1>8. PICK w : w = TextDelta(z, v)
    OBVIOUS
  <1>9. Says(z, w, v, << >>)
    BY <1>3, <1>7, <1>8, HelpersSay
  <1>10. Split(x) = w
    BY <1>2, <1>4, <1>6, <1>8 DEF Split
  <1>11. /\ x.item[Text].said \o << >> = x.item[Text].said
         /\ (x.item[Reasoning].said \o u) \o << >> = x.item[Reasoning].said \o u
    <2>1. \A q \in Seq(Words) : q \o << >> = q
      BY ConcatEmptySeq
    <2>2. PICK q : q = x.item[Reasoning].said
      OBVIOUS
    <2>3. x.item[Text].said \in Seq(Words) /\ q \in Seq(Words)
      BY <1>0, <2>2, SaidIsWords
    <2>4. q \o u \in Seq(Words)
      BY <1>3, <2>3
    <2> QED BY <2>1, <2>2, <2>3, <2>4
  <1>12. /\ w.mode = "text" /\ w.buffer = << >>
         /\ w.item[Text].said = x.item[Text].said \o v
         /\ w.item[Reasoning].said = x.item[Reasoning].said \o u
    BY <1>5, <1>7, <1>9, <1>11 DEF Says
  <1> QED BY <1>2, <1>10, <1>12

(* What is heard of a tool call does not show in text and reasoning.         *)
LEMMA HeardView ==
    ASSUME NEW x \in Converter, NEW c \in Calls
    PROVE  SameView(x, ToolHeard(x, c))
  <1>1. PICK k : k = Call(c.index)
    OBVIOUS
  <1>2. k \in Kinds /\ k # Text /\ k # Reasoning
    BY <1>1, KindsDiffer DEF Calls
  <1>3. PICK i : i = [x.item[k] EXCEPT !.said = x.item[k].said \o c.args]
    OBVIOUS
  <1>4. PICK t : t = [x.tool EXCEPT ![c.index] = Heard(x.tool[c.index], c)]
    OBVIOUS
  <1>5. PICK y : y = [x EXCEPT !.tool = t]
    OBVIOUS
  <1>6. y.item = x.item /\ y.mode = x.mode /\ y.buffer = x.buffer
    BY <1>5 DEF Converter
  <1>7. PICK items : items = [x.item EXCEPT ![k] = i]
    OBVIOUS
  <1>8. items[Text] = x.item[Text] /\ items[Reasoning] = x.item[Reasoning]
    BY <1>2, <1>7, KindsDiffer DEF Converter
  <1>9. PICK z : z = [x EXCEPT !.tool = t, !.item = items]
    OBVIOUS
  <1>10. z.mode = x.mode /\ z.buffer = x.buffer /\ z.item = items
    BY <1>9 DEF Converter
  <1>11. ToolHeard(x, c) = z
    BY <1>1, <1>3, <1>4, <1>7, <1>9 DEF ToolHeard
  <1> QED BY <1>8, <1>10, <1>11 DEF SameView

(* Nor does what the delta of a tool call carries.                           *)
LEMMA StreamedView ==
    ASSUME NEW x \in Converter, NEW k \in Kinds, NEW a, k # Text, k # Reasoning
    PROVE  SameView(x, Streamed(x, k, a))
  <1>1. PICK i : i = [x.item[k] EXCEPT !.streamed = x.item[k].streamed \o a]
    OBVIOUS
  <1>2. PICK y : y = Streamed(x, k, a)
    OBVIOUS
  <1>3. y = Put(x, k, i)
    BY <1>1, <1>2 DEF Streamed, Put
  <1>4. /\ y.mode = x.mode /\ y.buffer = x.buffer
        /\ \A j \in Kinds : j # k => y.item[j] = x.item[j]
    BY <1>3, PutOne
  <1> QED BY <1>2, <1>4, KindsDiffer DEF SameView

(* Nor does the item that is added for it.                                   *)
LEMMA AddingView ==
    ASSUME NEW x \in Converter, NEW k \in Kinds, k # Text, k # Reasoning
    PROVE  SameView(x, Adding(x, k))
  <1>1. PICK i : i = [x.item[k] EXCEPT !.index = x.next, !.added = x.item[k].added + 1]
    OBVIOUS
  <1>2. PICK items : items = [x.item EXCEPT ![k] = i]
    OBVIOUS
  <1>3. items[Text] = x.item[Text] /\ items[Reasoning] = x.item[Reasoning]
    BY <1>2, KindsDiffer DEF Converter
  <1>4. PICK z : z = [x EXCEPT !.next = x.next + 1, !.item = items]
    OBVIOUS
  <1>5. z.mode = x.mode /\ z.buffer = x.buffer /\ z.item = items
    BY <1>4 DEF Converter
  <1>6. Adding(x, k) = z
    BY <1>1, <1>2, <1>4 DEF Adding
  <1> QED BY <1>3, <1>5, <1>6 DEF SameView

(* Nor do the deltas of its arguments and of its input.                      *)
LEMMA ArgumentsView ==
    ASSUME NEW x \in Converter, NEW n \in Tools, NEW a
    PROVE  SameView(x, ArgumentsDelta(x, n, a)) /\ SameView(x, InputDelta(x, n))
  <1>1. PICK k : k = Call(n)
    OBVIOUS
  <1>2. k \in Kinds /\ k # Text /\ k # Reasoning
    BY <1>1, KindsDiffer
  <1>3. SameView(x, x)
    BY DEF SameView
  <1>4. SameView(x, ArgumentsDelta(x, n, a))
    <2>1. SameView(x, Streamed(x, k, a))
      BY <1>2, StreamedView
    <2> QED BY <1>1, <1>3, <2>1 DEF ArgumentsDelta
  <1>5. SameView(x, InputDelta(x, n))
    <2>1. PICK b : b = x.item[k].said
      OBVIOUS
    <2>2. SameView(x, Streamed(x, k, b))
      BY <1>2, StreamedView
    <2> QED BY <1>1, <1>3, <2>1, <2>2 DEF InputDelta
  <1> QED BY <1>4, <1>5

(* Nor does a whole call.                                                    *)
LEMMA ToolView ==
    ASSUME NEW x \in Converter, Numbered(x), NEW c \in Calls
    PROVE  SameView(x, ToolDelta(x, c))
  <1>1. PICK k : k = Call(c.index)
    OBVIOUS
  <1>2. c.index \in Tools
    BY DEF Calls
  <1>3. k \in Kinds /\ k # Text /\ k # Reasoning /\ \A n \in Tools : k = Call(n) => n = c.index
    BY <1>1, <1>2, KindsDiffer
  <1>4. PICK y : y = ToolHeard(x, c)
    OBVIOUS
  <1>5. /\ y \in Converter /\ Numbered(y) /\ y.tool[c.index].seen
        /\ y.item[k].added = x.item[k].added
    BY <1>1, <1>4, ToolHeardKeeps
  <1>6. SameView(x, y)
    BY <1>4, HeardView
  <1>7. CASE x.item[k].added > 0
    <2>1. PICK a : a = c.args
      OBVIOUS
    <2>2. ToolDelta(x, c) = ArgumentsDelta(y, c.index, a)
      BY <1>1, <1>4, <1>7, <2>1 DEF ToolDelta
    <2>3. PICK n : n = c.index
      OBVIOUS
    <2>4. SameView(y, ArgumentsDelta(y, n, a))
      BY <1>2, <1>5, <2>3, ArgumentsView
    <2> QED BY <1>6, <2>2, <2>3, <2>4, SameViewOn
  <1>8. CASE ~ (x.item[k].added > 0) /\ y.tool[c.index].known
    <2>1. PICK z, a : z = Adding(y, k) /\ a = y.item[k].said
      OBVIOUS
    <2>2. SameView(y, z)
      BY <1>3, <1>5, <2>1, AddingView
    <2>3. x.item[k].added \in {0, 1}
      BY <1>3 DEF Converter, ItemState
    <2>4. y.item[k].added = 0
      BY <1>5, <1>8, <2>3
    <2>5. z \in Converter
      BY <1>3, <1>5, <2>1, <2>4, AddingNumbers
    <2>6. ToolDelta(x, c) = ArgumentsDelta(z, c.index, a)
      BY <1>1, <1>4, <1>8, <2>1 DEF ToolDelta
    <2>7. PICK n : n = c.index
      OBVIOUS
    <2>8. SameView(z, ArgumentsDelta(z, n, a))
      BY <1>2, <2>5, <2>7, ArgumentsView
    <2> QED BY <1>6, <2>2, <2>6, <2>7, <2>8, SameViewOn
  <1>9. CASE ~ (x.item[k].added > 0) /\ ~ y.tool[c.index].known
    <2>1. ToolDelta(x, c) = y
      BY <1>1, <1>4, <1>9 DEF ToolDelta
    <2> QED BY <1>6, <2>1
  <1> QED BY <1>7, <1>8, <1>9

(* Nor do the calls of a chunk.                                              *)
LEMMA CallsView ==
    ASSUME NEW x \in Converter, Numbered(x), NEW calls \in Seq(Calls)
    PROVE  SameView(x, CallsHeard(x, calls))
  <1>1. CallsHeard(x, calls) = (CHOOSE f : IsHeard(f, x, calls, Len(calls)))[Len(calls)]
    BY DEF CallsHeard, IsHeard
  <1>2. Len(calls) \in Nat
    OBVIOUS
  <1>3. \E f : IsHeard(f, x, calls, Len(calls))
    BY <1>2, HeardExists
  <1>4. PICK f : IsHeard(f, x, calls, Len(calls)) /\ CallsHeard(x, calls) = f[Len(calls)]
    BY <1>1, <1>3
  <1>5. \A i \in 0..Len(calls) : f[i] = IF i = 0 THEN x ELSE ToolDelta(f[i - 1], calls[i])
    BY <1>4 DEF IsHeard
  <1> DEFINE S == {k \in Nat : k <= Len(calls) => Continues(x, f[k]) /\ SameView(x, f[k])}
  <1>6. 0 \in S
    <2>1. SameView(x, x)
      BY DEF SameView
    <2> QED BY <1>2, <1>5, <2>1, StandingContinues
  <1>7. ASSUME NEW k \in S PROVE k + 1 \in S
    <2>0. k \in Nat
      OBVIOUS
    <2> SUFFICES ASSUME k + 1 <= Len(calls) PROVE Continues(x, f[k + 1]) /\ SameView(x, f[k + 1])
      BY <2>0
    <2>1. Continues(x, f[k]) /\ SameView(x, f[k])
      BY <2>0, <1>2
    <2> HIDE DEF S
    <2>2. PICK j : j = k + 1
      OBVIOUS
    <2>3. j \in 0..Len(calls) /\ j # 0 /\ j - 1 = k /\ calls[j] \in Calls
      BY <1>2, <2>0, <2>2
    <2>4. f[j] = ToolDelta(f[k], calls[j])
      BY <1>5, <2>3
    <2>5. PICK y, c : y = f[k] /\ c = calls[j]
      OBVIOUS
    <2>6. y \in Converter /\ Numbered(y) /\ c \in Calls
      BY <2>1, <2>3, <2>5 DEF Continues
    <2>7. Continues(y, ToolDelta(y, c)) /\ SameView(y, ToolDelta(y, c))
      BY <2>6, ToolContinues, ToolView
    <2>8. Continues(x, f[j]) /\ SameView(x, f[j])
      BY <2>1, <2>4, <2>5, <2>7, ContinuesOn, SameViewOn
    <2> QED BY <2>2, <2>8
  <1>8. S = Nat
    <2>1. S \in SUBSET Nat
      OBVIOUS
    <2> HIDE DEF S
    <2> QED BY <1>6, <1>7, <2>1, NaturalInduction
  <1> QED BY <1>2, <1>4, <1>8

(* Nor does the end of a tool call.                                          *)
LEMMA ToolFinishedView ==
    ASSUME NEW x \in Converter, Numbered(x), NEW n \in Tools
    PROVE  SameView(x, ToolFinished(x, n))
  <1>1. PICK k : k = Call(n)
    OBVIOUS
  <1>2. k \in Kinds /\ k # Text /\ k # Reasoning /\ \A m \in Tools : k = Call(m) => m = n
    BY <1>1, KindsDiffer
  <1>3. CASE ~ x.tool[n].seen \/ x.item[k].done > 0
    BY <1>1, <1>3 DEF ToolFinished, SameView
  <1>4. CASE ~ (~ x.tool[n].seen \/ x.item[k].done > 0)
    <2>1. PICK y : y = Added(x, k)
      OBVIOUS
    <2>2. y \in Converter /\ Numbered(y) /\ SameView(x, y)
      <3>1. CASE x.item[k].added > 0
        BY <2>1, <3>1 DEF Added, SameView
      <3>2. CASE ~ (x.item[k].added > 0)
        <4>1. x.item[k].added \in {0, 1}
          BY <1>2 DEF Converter, ItemState
        <4>2. x.item[k].added = 0
          BY <3>2, <4>1
        <4>3. y = Adding(x, k)
          BY <2>1, <3>2 DEF Added
        <4>4. \A m \in Tools : k = Call(m) => x.tool[m].seen
          BY <1>2, <1>4
        <4>5. y \in Converter
          BY <1>2, <4>2, <4>3, <4>4, AddingNumbers
        <4>6. Numbered(y)
          BY <1>2, <4>2, <4>3, <4>4, AddingNumbers
        <4> QED BY <1>2, <4>3, <4>5, <4>6, AddingView
      <3> QED BY <3>1, <3>2
    <2>3. PICK z : z = Finished(y, k)
      OBVIOUS
    <2>4. SameView(y, z) /\ z \in Converter
      BY <1>2, <2>2, <2>3, FinishedView, FinishedContinues
    <2>5. SameView(z, InputDelta(z, n))
      BY <2>4, ArgumentsView
    <2>6. ToolFinished(x, n) = InputDelta(z, n)
      BY <1>1, <1>4, <2>1, <2>3 DEF ToolFinished
    <2> QED BY <2>2, <2>4, <2>5, <2>6, SameViewOn
  <1> QED BY <1>3, <1>4

(* Nor the end of all of them.                                               *)
LEMMA ToolsFinishedView ==
    ASSUME NEW x \in Converter, Numbered(x)
    PROVE  SameView(x, ToolsFinished(x))
  <1>0. LastTool + 1 \in Nat
    BY StreamAssumption
  <1>1. ToolsFinished(x) = (CHOOSE f : IsFinishedUpTo(f, x, LastTool + 1))[LastTool + 1]
    BY DEF ToolsFinished, IsFinishedUpTo
  <1>2. \E f : IsFinishedUpTo(f, x, LastTool + 1)
    BY <1>0, FinishedUpToExists
  <1>3. PICK f : IsFinishedUpTo(f, x, LastTool + 1) /\ ToolsFinished(x) = f[LastTool + 1]
    BY <1>1, <1>2
  <1>4. \A i \in 0..(LastTool + 1) : f[i] = IF i = 0 THEN x ELSE ToolFinished(f[i - 1], i - 1)
    BY <1>3 DEF IsFinishedUpTo
  <1> DEFINE Seen(y) == y \in Converter /\ Numbered(y) /\ SameView(x, y)
             S == {k \in Nat : k <= LastTool + 1 => Seen(f[k])}
  <1>5. 0 \in S
    <2>1. SameView(x, x)
      BY DEF SameView
    <2> QED BY <1>0, <1>4, <2>1
  <1>6. ASSUME NEW k \in S PROVE k + 1 \in S
    <2>0. k \in Nat
      OBVIOUS
    <2> SUFFICES ASSUME k + 1 <= LastTool + 1 PROVE Seen(f[k + 1])
      BY <2>0
    <2>1. Seen(f[k])
      BY <1>0, <2>0
    <2> HIDE DEF S
    <2>2. PICK j : j = k + 1
      OBVIOUS
    <2>3. j \in 0..(LastTool + 1) /\ j # 0 /\ j - 1 = k /\ k \in Tools
      BY <1>0, <2>0, <2>2, StreamAssumption DEF Tools
    <2>4. f[j] = ToolFinished(f[k], k)
      BY <1>4, <2>3
    <2>5. PICK y : y = f[k]
      OBVIOUS
    <2>6. y \in Converter /\ Numbered(y) /\ SameView(x, y)
      BY <2>1, <2>5
    <2>7. PICK z : z = ToolFinished(y, k)
      OBVIOUS
    <2>8. z \in Converter /\ Numbered(z)
      BY <2>3, <2>6, <2>7, ToolFinishedDone
    <2>9. SameView(x, z)
      BY <2>3, <2>6, <2>7, ToolFinishedView, SameViewOn
    <2>10. f[k + 1] = z
      BY <2>2, <2>4, <2>5, <2>7
    <2> QED BY <2>8, <2>9, <2>10
  <1>7. S = Nat
    <2>1. S \in SUBSET Nat
      OBVIOUS
    <2> HIDE DEF S
    <2> QED BY <1>5, <1>6, <2>1, NaturalInduction
  <1>8. Seen(f[LastTool + 1])
    BY <1>0, <1>7
  <1> QED BY <1>3, <1>8

(* Nor the start, nor a failure.                                             *)
LEMMA StartedView ==
    ASSUME NEW x \in Converter
    PROVE  SameView(x, Started(x)) /\ SameView(x, Failed(x))
  <1>1. PICK y : y = Failed(x)
    OBVIOUS
  <1>2. y.mode = x.mode /\ y.buffer = x.buffer /\ y.item = x.item
    BY <1>1 DEF Failed, Converter
  <1>3. SameView(x, Started(x))
    <2>1. CASE x.started
      BY <2>1 DEF Started, SameView
    <2>2. CASE ~ x.started
      <3>1. PICK z : z = [x EXCEPT !.started = TRUE, !.verdicts = Append(x.verdicts, "created")]
        OBVIOUS
      <3>2. z.mode = x.mode /\ z.buffer = x.buffer /\ z.item = x.item
        BY <3>1 DEF Converter
      <3>3. Started(x) = z
        BY <2>2, <3>1 DEF Started
      <3> QED BY <3>2, <3>3 DEF SameView
    <2> QED BY <2>1, <2>2
  <1> QED BY <1>1, <1>2, <1>3 DEF SameView

(* The end of an answer shows what the flush of the buffer does.             *)
LEMMA FinalizedView ==
    ASSUME NEW x \in Converter, Numbered(x), ~ x.completed
    PROVE  SameView(Flushed(Started(x)), Finalized(x))
  <1>0. Text \in Kinds /\ Reasoning \in Kinds
    BY KindsDiffer
  <1>1. PICK s : s = Started(x)
    OBVIOUS
  <1>2. s \in Converter /\ Numbered(s)
    BY <1>1, StartedContinues
  <1>3. PICK a : a = Flushed(s)
    OBVIOUS
  <1>4. a \in Converter /\ Numbered(a)
    BY <1>2, <1>3, FlushedContinues DEF Continues
  <1>5. PICK b : b = Finished(a, Reasoning)
    OBVIOUS
  <1>6. b \in Converter /\ Numbered(b) /\ SameView(a, b)
    BY <1>0, <1>4, <1>5, FinishedContinues, FinishedView DEF Continues
  <1>7. PICK c : c = Finished(b, Text)
    OBVIOUS
  <1>8. c \in Converter /\ Numbered(c) /\ SameView(b, c)
    BY <1>0, <1>6, <1>7, FinishedContinues, FinishedView DEF Continues
  <1>9. PICK d : d = ToolsFinished(c)
    OBVIOUS
  <1>10. d \in Converter /\ SameView(c, d)
    BY <1>8, <1>9, ToolsFinishedDone, ToolsFinishedView
  <1>11. ItemsFinished(x) = d
    BY <1>1, <1>3, <1>5, <1>7, <1>9 DEF ItemsFinished
  <1>12. PICK e : e = Closed(d)
    OBVIOUS
  <1>13. SameView(d, e)
    <2>1. e.mode = d.mode /\ e.buffer = d.buffer /\ e.item = d.item
      BY <1>10, <1>12 DEF Closed, Converter
    <2> QED BY <2>1 DEF SameView
  <1>14. Finalized(x) = e
    BY <1>11, <1>12 DEF Finalized
  <1>15. SameView(a, e)
    BY <1>6, <1>8, <1>10, <1>13, SameViewOn
  <1> QED BY <1>1, <1>3, <1>14, <1>15

(*****************************************************************************)
(* What the whole content says, however it came.                             *)
(*****************************************************************************)

(* The pieces of a reasoning field.                                          *)
LEMMA PiecesAre ==
    /\ Pieces(0) = << >>
    /\ \A n \in Nat : Pieces(n) \in Seq(Words) /\ Len(Pieces(n)) = n
    /\ \A n \in Nat : Pieces(n) \o <<"r">> = Pieces(n + 1)
  <1>1. Pieces(0) = << >>
    <2>1. Pieces(0) \in Seq({"r"}) /\ Len(Pieces(0)) = 0
      BY DEF Pieces
    <2> QED BY <2>1, EmptySeq
  <1>2. ASSUME NEW n \in Nat PROVE Pieces(n) \in Seq(Words) /\ Len(Pieces(n)) = n
    BY DEF Pieces, Words
  <1>3. ASSUME NEW n \in Nat PROVE Pieces(n) \o <<"r">> = Pieces(n + 1)
    <2>1. PICK p, q, m : p = Pieces(n) /\ q = Pieces(m) /\ m = n + 1
      OBVIOUS
    <2>2. /\ p \in Seq({"r"}) /\ Len(p) = n /\ \A k \in 1 .. n : p[k] = "r"
      BY <2>1 DEF Pieces
    <2>3. /\ q \in Seq({"r"}) /\ Len(q) = n + 1 /\ \A k \in 1 .. n + 1 : q[k] = "r"
      BY <2>1 DEF Pieces
    <2>4. PICK r : r = p \o <<"r">>
      OBVIOUS
    <2>5. r \in Seq({"r"}) /\ Len(r) = n + 1
      BY <2>2, <2>4
    <2>6. \A k \in 1 .. Len(r) : r[k] = q[k]
      BY <2>3, <2>5
    <2>7. r = q
      BY <2>3, <2>5, <2>6, SeqEqual
    <2> QED BY <2>1, <2>4, <2>7
  <1> QED BY <1>1, <1>2, <1>3

(* Texts that differ in the blanks in front go on alike.                     *)
LEMMA TrimGoesOn ==
    ASSUME NEW s \in Seq(Tokens), NEW t \in Seq(Tokens), NEW d \in Seq(Tokens),
           TrimStart(s) = TrimStart(t)
    PROVE  TrimStart(s \o d) = TrimStart(t \o d)
  <1>1. CASE TrimStart(s) = << >>
    BY <1>1, TrimOfParts
  <1>2. CASE TrimStart(s) # << >>
    <2>1. TrimStart(s \o d) = TrimStart(s) \o d
      BY <1>2, TrimOfParts
    <2>2. TrimStart(t \o d) = TrimStart(t) \o d
      BY <1>2, TrimOfParts
    <2> QED BY <2>1, <2>2
  <1> QED BY <1>1, <1>2

(* What the whole content says is text.                                      *)
LEMMA WholeIsText ==
    ASSUME NEW c \in Seq(Tokens)
    PROVE  /\ WholeThought(c) \in Seq(Tokens) /\ WholeAnswer(c) \in Seq(Tokens)
           /\ Decision(c) = "text" => WholeThought(c) = << >> /\ WholeAnswer(c) = c
           /\ Decision(c) = "more" => WholeThought(c) = << >> /\ WholeAnswer(c) = c
           /\ HasThink(c) => WholeThought(c) = Thought(c) /\ WholeAnswer(c) = Answer(c)
  <1>1. << >> \in Seq(Tokens)
    OBVIOUS
  <1>2. WholeThought(c) \in Seq(Tokens) /\ WholeAnswer(c) \in Seq(Tokens)
    BY <1>1, PartsAreText DEF WholeThought, WholeAnswer
  <1>3. HasThink(c) => Decision(c) = "reasoning"
    BY Decisions
  <1> QED BY <1>2, <1>3 DEF WholeThought, WholeAnswer

(* Once the content has shown what it begins with, more of it is more of the *)
(* answer.                                                                   *)
LEMMA WholeGoesOn ==
    ASSUME NEW c \in Seq(Tokens), NEW d \in Seq(Tokens), HasThink(c) \/ Decision(c) = "text"
    PROVE  /\ HasThink(c \o d) \/ Decision(c \o d) = "text"
           /\ WholeThought(c \o d) = WholeThought(c)
           /\ TrimStart(WholeAnswer(c \o d)) = TrimStart(WholeAnswer(c) \o d)
  <1>1. PICK e : e = c \o d
    OBVIOUS
  <1>2. e \in Seq(Tokens)
    BY <1>1
  <1>3. CASE HasThink(c)
    <2>1. /\ HasThink(e) /\ Thought(e) = Thought(c)
          /\ Rest(c) \in Seq(Tokens) /\ Rest(e) = Rest(c) \o d
      BY <1>1, <1>3, ThinkStays
    <2>2. PICK r : r = Rest(c)
      OBVIOUS
    <2>3. Answer(c) = TrimStart(r) /\ Answer(e) = TrimStart(r \o d)
      BY <2>1, <2>2 DEF Answer, Rest
    <2>4. r \in Seq(Tokens) /\ r \o d \in Seq(Tokens)
      BY <2>1, <2>2
    <2>5. TrimStart(r) \in Seq(Tokens) /\ TrimStart(TrimStart(r)) = TrimStart(r)
      BY <2>4, TrimmedText, TrimTwice
    <2>6. TrimStart(TrimStart(r) \o d) = TrimStart(r \o d)
      BY <2>4, <2>5, TrimGoesOn
    <2>7. TrimStart(TrimStart(r \o d)) = TrimStart(r \o d)
      BY <2>4, TrimTwice
    <2>8. /\ WholeThought(e) = Thought(e) /\ WholeThought(c) = Thought(c)
          /\ WholeAnswer(e) = Answer(e) /\ WholeAnswer(c) = Answer(c)
      BY <1>2, <1>3, <2>1, WholeIsText
    <2> QED BY <1>1, <2>1, <2>3, <2>6, <2>7, <2>8
  <1>4. CASE Decision(c) = "text"
    <2>1. Decision(e) = "text"
      BY <1>1, <1>4, TextStays
    <2> QED BY <1>1, <1>2, <1>4, <2>1, WholeIsText
  <1> QED BY <1>3, <1>4

(*****************************************************************************)
(* What is shown of a content c, and of what followed it (f); b: nothing     *)
(* more of the content will come.                                            *)
(*****************************************************************************)
Told(x, c, f) ==
    /\ TrimStart(x.item[Text].said) = TrimStart(WholeAnswer(c) \o f)
    /\ \E i, j \in Nat : x.item[Reasoning].said = Pieces(i) \o WholeThought(c) \o Pieces(j)

Shows(x, c, f, b) ==
    /\ x.item[Text].said \in Seq(Tokens) /\ c \in Seq(Tokens) /\ f \in Seq(Tokens)
    /\ x.mode # "text" => /\ f = << >> /\ x.buffer = c /\ x.item[Text].said = << >>
                          /\ \E n \in Nat : x.item[Reasoning].said = Pieces(n)
    /\ x.mode = "detecting" => Decision(c) = "more"
    /\ x.mode = "reasoning" => Decision(c) = "reasoning" /\ ~ HasThink(c)
    /\ x.mode = "text" => Told(x, c, f)
    /\ x.mode = "text" /\ b = FALSE => f = << >> /\ (HasThink(c) \/ Decision(c) = "text")

(* The same view shows the same.                                             *)
LEMMA ShowsSame ==
    ASSUME NEW x, NEW y, NEW c, NEW f, NEW b, Shows(x, c, f, b), SameView(x, y)
    PROVE  Shows(y, c, f, b) /\ Shows(y, c, f, TRUE)
  <1>1. Told(x, c, f) => Told(y, c, f)
    BY DEF Told, SameView
  <1> QED BY <1>1 DEF Shows, SameView

(* In front of what was thought, or after it, comes another piece.           *)
LEMMA PieceAppended ==
    ASSUME NEW w \in Seq(Words), NEW i \in Nat, NEW j \in Nat
    PROVE  /\ Pieces(i) \o w \o Pieces(j) \in Seq(Words)
           /\ (Pieces(i) \o w \o Pieces(j)) \o <<"r">> = Pieces(i) \o w \o Pieces(j + 1)
  <1>1. PICK p, q : p = Pieces(i) /\ q = Pieces(j)
    OBVIOUS
  <1>2. p \in Seq(Words) /\ q \in Seq(Words)
    BY <1>1, PiecesAre
  <1>3. PICK u : u = p \o w
    OBVIOUS
  <1>4. u \in Seq(Words) /\ <<"r">> \in Seq(Words)
    <2>1. "r" \in Words
      BY DEF Words
    <2> QED BY <1>2, <1>3, <2>1
  <1>5. (u \o q) \o <<"r">> = u \o (q \o <<"r">>)
    BY <1>2, <1>4, ConcatAssociative
  <1>6. q \o <<"r">> = Pieces(j + 1)
    BY <1>1, PiecesAre
  <1>7. u \o q \in Seq(Words)
    BY <1>2, <1>4
  <1>8. Pieces(i) \o w \o Pieces(j) = u \o q /\ Pieces(i) \o w \o Pieces(j + 1) = u \o Pieces(j + 1)
    BY <1>1, <1>3
  <1> QED BY <1>5, <1>6, <1>7, <1>8

(* A piece of a reasoning field.                                             *)
LEMMA ThoughtShows ==
    ASSUME NEW x \in Converter, Numbered(x), NEW c, NEW f, NEW b, Shows(x, c, f, b),
           NEW m \in Messages
    PROVE  LET y == AfterThought(x, m)
           IN  Shows(y, c, f, b) /\ y.mode = x.mode
  <1>0. Text \in Kinds /\ Reasoning \in Kinds /\ "r" \in Words /\ m.thought \in {<< >>, <<"r">>}
    BY KindsDiffer DEF Words, Messages
  <1>1. CASE m.thought = << >>
    BY <1>1 DEF AfterThought
  <1>2. CASE m.thought # << >>
    <2>1. PICK y : y = Delta(x, Reasoning, <<"r">>)
      OBVIOUS
    <2>2. AfterThought(x, m) = y
      BY <1>0, <1>2, <2>1 DEF AfterThought
    <2>3. <<"r">> \in Seq(Words)
      BY <1>0
    <2>4. Says(x, y, << >>, <<"r">>)
      BY <2>1, <2>3, DeltaSays
    <2>5. x.item[Text].said \o << >> = x.item[Text].said
      <3>1. \A q \in Seq(Words) : q \o << >> = q
        BY ConcatEmptySeq
      <3> QED BY <1>0, <3>1, SaidIsWords
    <2>6. /\ y.mode = x.mode /\ y.buffer = x.buffer
          /\ y.item[Text].said = x.item[Text].said
          /\ y.item[Reasoning].said = x.item[Reasoning].said \o <<"r">>
      BY <2>4, <2>5 DEF Says
    <2>7. ASSUME x.mode = "text" PROVE Told(y, c, f)
      <3>1. PICK i \in Nat, j \in Nat :
               x.item[Reasoning].said = Pieces(i) \o WholeThought(c) \o Pieces(j)
        BY <2>7 DEF Shows, Told
      <3>2. PICK w : w = WholeThought(c)
        OBVIOUS
      <3>3. w \in Seq(Words)
        BY <3>2, WholeIsText, TokensAreWords DEF Shows
      <3>4. y.item[Reasoning].said = Pieces(i) \o WholeThought(c) \o Pieces(j + 1)
        <4>1. (Pieces(i) \o w \o Pieces(j)) \o <<"r">> = Pieces(i) \o w \o Pieces(j + 1)
          BY <3>3, PieceAppended
        <4>2. x.item[Reasoning].said = Pieces(i) \o w \o Pieces(j)
          BY <3>1, <3>2
        <4> QED BY <2>6, <3>2, <4>1, <4>2
      <3>5. j + 1 \in Nat
        OBVIOUS
      <3>6. TrimStart(y.item[Text].said) = TrimStart(WholeAnswer(c) \o f)
        BY <2>6, <2>7 DEF Shows, Told
      <3> QED BY <3>4, <3>5, <3>6 DEF Told
    <2>8. ASSUME x.mode # "text" PROVE \E n \in Nat : y.item[Reasoning].said = Pieces(n)
      <3>1. PICK n \in Nat : x.item[Reasoning].said = Pieces(n)
        BY <2>8 DEF Shows
      <3>2. y.item[Reasoning].said = Pieces(n + 1) /\ n + 1 \in Nat
        <4>1. Pieces(n) \o <<"r">> = Pieces(n + 1)
          BY PiecesAre
        <4> QED BY <2>6, <3>1, <4>1
      <3> QED BY <3>2
    <2>9. Shows(y, c, f, b)
      BY <2>6, <2>7, <2>8 DEF Shows
    <2> QED BY <2>2, <2>6, <2>9
  <1> QED BY <1>1, <1>2

(* A single piece of thinking that follows the pieces of the field.          *)
LEMMA ThoughtAfterPieces ==
    ASSUME NEW n \in Nat, NEW w \in Seq(Words)
    PROVE  \E i, j \in Nat : Pieces(n) \o w = Pieces(i) \o w \o Pieces(j)
  <1>1. PICK u : u = Pieces(n) \o w
    OBVIOUS
  <1>2. u \in Seq(Words)
    <2>1. Pieces(n) \in Seq(Words)
      BY PiecesAre
    <2> QED BY <1>1, <2>1
  <1>3. u \o << >> = u
    BY <1>2, ConcatEmptySeq
  <1>4. Pieces(n) \o w = Pieces(n) \o w \o Pieces(0)
    BY <1>1, <1>3, PiecesAre
  <1>5. 0 \in Nat
    OBVIOUS
  <1> QED BY <1>4, <1>5

(* Text alone follows nothing.                                               *)
LEMMA TextAfterNothing == ASSUME NEW t \in Seq(Tokens) PROVE << >> \o t = t /\ t \o << >> = t
  BY ConcatEmptySeq

(* Content that begins with an opening tag, drained.                         *)
LEMMA DrainedShows ==
    ASSUME NEW x \in Converter, Numbered(x), NEW c \in Seq(Tokens), NEW b,
           x.mode = "reasoning", x.buffer = c, x.item[Text].said = << >>,
           NEW n \in Nat, x.item[Reasoning].said = Pieces(n),
           Decision(c) = "reasoning"
    PROVE  Shows(Drained(x), c, << >>, b)
  <1>0. << >> \in Seq(Tokens)
    OBVIOUS
  <1>1. CASE ~ HasThink(c)
    <2>1. Drained(x) = x
      BY <1>1 DEF Drained
    <2> QED BY <1>0, <1>1, <2>1 DEF Shows
  <1>2. CASE HasThink(c)
    <2>1. PICK y : y = Split(x)
      OBVIOUS
    <2>2. Drained(x) = y
      BY <1>2, <2>1 DEF Drained
    <2>3. /\ y.mode = "text"
          /\ y.item[Text].said = << >> \o Answer(c)
          /\ y.item[Reasoning].said = Pieces(n) \o Thought(c)
      BY <1>2, <2>1, SplitSays
    <2>4. PICK u, v : u = Thought(c) /\ v = Answer(c)
      OBVIOUS
    <2>5. u \in Seq(Tokens) /\ v \in Seq(Tokens) /\ WholeThought(c) = u /\ WholeAnswer(c) = v
      BY <1>2, <2>4, PartsAreText, WholeIsText
    <2>6. y.item[Text].said = v /\ v \o << >> = v
      BY <2>3, <2>4, <2>5, TextAfterNothing
    <2>7. \E i, j \in Nat : y.item[Reasoning].said = Pieces(i) \o u \o Pieces(j)
      <3>1. u \in Seq(Words)
        BY <2>5, TokensAreWords
      <3>2. \E i, j \in Nat : Pieces(n) \o u = Pieces(i) \o u \o Pieces(j)
        BY <3>1, ThoughtAfterPieces
      <3>3. y.item[Reasoning].said = Pieces(n) \o u
        BY <2>3, <2>4
      <3> QED BY <3>2, <3>3
    <2>8. Told(y, c, << >>)
      BY <2>5, <2>6, <2>7 DEF Told
    <2>9. Shows(y, c, << >>, b)
      BY <1>0, <1>2, <2>3, <2>5, <2>6, <2>8 DEF Shows
    <2> QED BY <2>2, <2>9
  <1> QED BY <1>1, <1>2

(* Text that follows the pieces, without inline thinking.                    *)
LEMMA PlainTold ==
    ASSUME NEW y, NEW c \in Seq(Tokens), NEW n \in Nat,
           y.item[Text].said = c, y.item[Reasoning].said = Pieces(n),
           Decision(c) \in {"text", "more"}
    PROVE  Told(y, c, << >>)
  <1>1. WholeThought(c) = << >> /\ WholeAnswer(c) = c /\ c \o << >> = c
    BY WholeIsText, TextAfterNothing
  <1>2. << >> \in Seq(Words) /\ Pieces(n) \in Seq(Words)
    BY PiecesAre
  <1>3. Pieces(n) \o << >> = Pieces(n)
    BY <1>2, ConcatEmptySeq
  <1>4. \E i, j \in Nat : Pieces(n) \o << >> = Pieces(i) \o << >> \o Pieces(j)
    BY <1>2, ThoughtAfterPieces
  <1> QED BY <1>1, <1>3, <1>4 DEF Told

(* A piece of the content, while the content lasts.                          *)
LEMMA ContentShows ==
    ASSUME NEW x \in Converter, Numbered(x), NEW c, NEW f, Shows(x, c, f, FALSE),
           NEW d \in Seq(Tokens)
    PROVE  Shows(ContentDelta(x, d), c \o d, f, FALSE)
  <1>0. /\ Text \in Kinds /\ Reasoning \in Kinds /\ << >> \in Seq(Tokens)
        /\ x.mode \in {"detecting", "reasoning", "text"}
        /\ c \in Seq(Tokens) /\ f = << >> /\ d \in Seq(Words)
        /\ x.item[Text].said \in Seq(Tokens) /\ x.item[Reasoning].said \in Seq(Words)
    BY KindsDiffer, SaidIsWords, TokensAreWords DEF Converter, Shows
  <1>1. PICK e : e = c \o d
    OBVIOUS
  <1>2. e \in Seq(Tokens) /\ e \in Seq(Words)
    BY <1>0, <1>1, TokensAreWords
  <1>3. PICK z : z = ContentDelta(x, d)
    OBVIOUS
  <1>4. \A q \in Seq(Words) : q \o << >> = q
    BY ConcatEmptySeq
  <1>5. CASE x.mode = "text"
    <2>1. z = TextAfterReasoning(x, d)
      BY <1>3, <1>5 DEF ContentDelta
    <2>2. Says(x, z, d, << >>)
      BY <1>0, <2>1, HelpersSay
    <2>3. PICK s, w : s = x.item[Text].said /\ w = WholeAnswer(c)
      OBVIOUS
    <2>4. s \in Seq(Tokens) /\ w \in Seq(Tokens) /\ s \o d \in Seq(Tokens)
      BY <1>0, <2>3, WholeIsText
    <2>5. TrimStart(s) = TrimStart(w)
      BY <1>0, <1>5, <2>3, <2>4, TextAfterNothing DEF Shows, Told
    <2>6. TrimStart(s \o d) = TrimStart(w \o d)
      BY <2>4, <2>5, TrimGoesOn
    <2>7. HasThink(c) \/ Decision(c) = "text"
      BY <1>5 DEF Shows
    <2>8. /\ HasThink(e) \/ Decision(e) = "text"
          /\ WholeThought(e) = WholeThought(c)
          /\ TrimStart(WholeAnswer(e)) = TrimStart(w \o d)
      BY <1>0, <1>1, <2>3, <2>7, WholeGoesOn
    <2>9. /\ z.mode = "text" /\ z.item[Text].said = s \o d
          /\ z.item[Reasoning].said = x.item[Reasoning].said
      BY <1>0, <1>4, <1>5, <2>2, <2>3 DEF Says
    <2>10. WholeAnswer(e) \o << >> = WholeAnswer(e)
      BY <1>2, WholeIsText, TextAfterNothing
    <2>11. Told(z, e, << >>)
      <3>1. \E i, j \in Nat : z.item[Reasoning].said = Pieces(i) \o WholeThought(e) \o Pieces(j)
        BY <1>5, <2>8, <2>9 DEF Shows, Told
      <3> QED BY <2>6, <2>8, <2>9, <2>10, <3>1 DEF Told
    <2>12. Shows(z, e, << >>, FALSE)
      BY <1>0, <1>2, <2>4, <2>8, <2>9, <2>11 DEF Shows
    <2> QED BY <1>0, <1>1, <1>3, <2>12
  <1>6. CASE x.mode # "text"
    <2>1. x.buffer = c /\ x.item[Text].said = << >>
      BY <1>6 DEF Shows
    <2>2. PICK n \in Nat : x.item[Reasoning].said = Pieces(n)
      BY <1>6 DEF Shows
    <2>3. PICK y : y = [x EXCEPT !.buffer = e]
      OBVIOUS
    <2>4. /\ y.mode = x.mode /\ y.buffer = e /\ y.item = x.item
          /\ y \in Converter /\ Numbered(y)
      <3>1. y.mode = x.mode /\ y.buffer = e /\ y.item = x.item
        BY <2>3 DEF Converter
      <3>2. PICK m : m = x.mode
        OBVIOUS
      <3>3. y = [x EXCEPT !.mode = m, !.buffer = e]
        BY <2>3, <3>2 DEF Converter
      <3>4. m \in {"detecting", "reasoning", "text"}
        BY <1>0, <3>2
      <3>5. Continues(x, y)
        BY <1>2, <3>3, <3>4, BufferContinues
      <3> QED BY <3>1, <3>5 DEF Continues
    <2>5. [x EXCEPT !.buffer = x.buffer \o d] = y
      BY <1>1, <2>1, <2>3
    <2>6. CASE x.mode = "reasoning"
      <3>1. z = Drained(y)
        BY <1>3, <2>5, <2>6 DEF ContentDelta
      <3>2. Decision(e) = "reasoning"
        <4>1. IsPrefix(Open, TrimStart(c))
          BY <1>0, <2>6, Decisions DEF Shows
        <4>2. IsPrefix(Open, TrimStart(e))
          BY <1>0, <1>1, <4>1, OpenStays
        <4> QED BY <1>2, <4>2, Decisions
      <3>3. Shows(z, e, << >>, FALSE)
        BY <1>2, <2>1, <2>2, <2>4, <2>6, <3>1, <3>2, DrainedShows
      <3> QED BY <1>0, <1>1, <1>3, <3>3
    <2>7. CASE x.mode = "detecting" /\ Decision(e) = "more"
      <3>1. z = y
        BY <1>3, <2>4, <2>5, <2>7 DEF ContentDelta
      <3>2. Shows(z, e, << >>, FALSE)
        BY <1>0, <1>2, <2>1, <2>2, <2>4, <2>7, <3>1 DEF Shows
      <3> QED BY <1>0, <1>1, <1>3, <3>2
    <2>8. CASE x.mode = "detecting" /\ Decision(e) = "reasoning"
      <3>1. PICK u : u = [y EXCEPT !.mode = "reasoning"]
        OBVIOUS
      <3>2. u.mode = "reasoning" /\ u.buffer = e /\ u.item = x.item
        BY <2>4, <3>1 DEF Converter
      <3>3. u \in Converter /\ Numbered(u)
        <4>1. u = [y EXCEPT !.mode = "reasoning", !.buffer = e]
          BY <2>4, <3>1 DEF Converter
        <4>2. "reasoning" \in {"detecting", "reasoning", "text"}
          OBVIOUS
        <4>3. Continues(y, u)
          BY <1>2, <2>4, <4>1, <4>2, BufferContinues
        <4> QED BY <4>3 DEF Continues
      <3>4. z = Drained(u)
        BY <1>3, <2>4, <2>5, <2>8, <3>1 DEF ContentDelta
      <3>5. Shows(z, e, << >>, FALSE)
        BY <1>2, <2>1, <2>2, <2>8, <3>2, <3>3, <3>4, DrainedShows
      <3> QED BY <1>0, <1>1, <1>3, <3>5
    <2>9. CASE x.mode = "detecting" /\ Decision(e) = "text"
      <3>1. PICK u : u = [y EXCEPT !.mode = "text", !.buffer = << >>]
        OBVIOUS
      <3>2. u.mode = "text" /\ u.item = x.item
        BY <2>4, <3>1 DEF Converter
      <3>3. u \in Converter /\ Numbered(u)
        <4>1. "text" \in {"detecting", "reasoning", "text"}
          OBVIOUS
        <4>2. Continues(y, u)
          BY <1>0, <2>4, <3>1, <4>1, BufferContinues
        <4> QED BY <4>2 DEF Continues
      <3>4. z = TextAfterReasoning(u, e)
        BY <1>3, <2>4, <2>5, <2>9, <3>1 DEF ContentDelta
      <3>5. Says(u, z, e, << >>)
        BY <1>2, <3>3, <3>4, HelpersSay
      <3>6. << >> \o e = e
        BY <1>2, TextAfterNothing
      <3>7. z.mode = "text" /\ z.item[Text].said = e /\ z.item[Reasoning].said = Pieces(n)
        BY <1>0, <1>4, <2>1, <2>2, <3>2, <3>5, <3>6 DEF Says
      <3>8. Told(z, e, << >>)
        BY <1>2, <2>9, <3>7, PlainTold
      <3>9. Shows(z, e, << >>, FALSE)
        BY <1>0, <1>2, <2>9, <3>7, <3>8 DEF Shows
      <3> QED BY <1>0, <1>1, <1>3, <3>9
    <2> QED BY <1>0, <1>2, <1>6, <2>6, <2>7, <2>8, <2>9, Decisions
  <1> QED BY <1>5, <1>6

(* A piece of what follows the content.                                      *)
LEMMA FollowingShows ==
    ASSUME NEW x \in Converter, Numbered(x), NEW c, NEW f, NEW b, Shows(x, c, f, b),
           x.mode = "text", NEW d \in Seq(Tokens)
    PROVE  LET z == ContentDelta(x, d)
           IN  Shows(z, c, f \o d, TRUE) /\ z.mode = "text"
  <1>0. /\ Text \in Kinds /\ Reasoning \in Kinds
        /\ c \in Seq(Tokens) /\ f \in Seq(Tokens) /\ d \in Seq(Words)
        /\ x.item[Text].said \in Seq(Tokens) /\ x.item[Reasoning].said \in Seq(Words)
    BY KindsDiffer, SaidIsWords, TokensAreWords DEF Shows
  <1>1. PICK z : z = ContentDelta(x, d)
    OBVIOUS
  <1>2. z = TextAfterReasoning(x, d)
    BY <1>1 DEF ContentDelta
  <1>3. Says(x, z, d, << >>)
    BY <1>0, <1>2, HelpersSay
  <1>4. PICK s, w : s = x.item[Text].said /\ w = WholeAnswer(c)
    OBVIOUS
  <1>5. s \in Seq(Tokens) /\ w \in Seq(Tokens) /\ s \o d \in Seq(Tokens) /\ w \o f \in Seq(Tokens)
        /\ f \o d \in Seq(Tokens)
    BY <1>0, <1>4, WholeIsText
  <1>6. TrimStart(s) = TrimStart(w \o f)
    BY <1>4 DEF Shows, Told
  <1>7. TrimStart(s \o d) = TrimStart((w \o f) \o d)
    BY <1>5, <1>6, TrimGoesOn
  <1>8. (w \o f) \o d = w \o (f \o d)
    BY <1>0, <1>5, ConcatAssociative
  <1>9. /\ z.mode = "text" /\ z.item[Text].said = s \o d
        /\ z.item[Reasoning].said = x.item[Reasoning].said
    <2>1. \A q \in Seq(Words) : q \o << >> = q
      BY ConcatEmptySeq
    <2> QED BY <1>0, <1>3, <1>4, <2>1 DEF Says
  <1>10. Told(z, c, f \o d)
    <2>1. \E i, j \in Nat : z.item[Reasoning].said = Pieces(i) \o WholeThought(c) \o Pieces(j)
      BY <1>9 DEF Shows, Told
    <2> QED BY <1>4, <1>7, <1>8, <1>9, <2>1 DEF Told
  <1>11. Shows(z, c, f \o d, TRUE)
    BY <1>0, <1>5, <1>9, <1>10 DEF Shows
  <1> QED BY <1>1, <1>9, <1>11

(* The boundary shows what is still buffered.                                *)
LEMMA FlushedShows ==
    ASSUME NEW x \in Converter, Numbered(x), NEW c, NEW f, NEW b, Shows(x, c, f, b)
    PROVE  LET z == Flushed(x)
           IN  Shows(z, c, f, TRUE) /\ z.mode = "text"
  <1>0. /\ Text \in Kinds /\ Reasoning \in Kinds /\ << >> \in Seq(Tokens)
        /\ x.mode \in {"detecting", "reasoning", "text"}
        /\ c \in Seq(Tokens) /\ f \in Seq(Tokens)
        /\ x.item[Text].said \in Seq(Tokens) /\ x.item[Reasoning].said \in Seq(Words)
    <2>1. x.mode \in {"detecting", "reasoning", "text"}
      BY DEF Converter
    <2>2. c \in Seq(Tokens) /\ f \in Seq(Tokens) /\ x.item[Text].said \in Seq(Tokens)
      BY DEF Shows
    <2> QED BY <2>1, <2>2, KindsDiffer, SaidIsWords
  <1>1. PICK z : z = Flushed(x)
    OBVIOUS
  <1>2. PICK y : y = [x EXCEPT !.mode = "text", !.buffer = << >>]
    OBVIOUS
  <1>3. y.mode = "text" /\ y.item = x.item
    BY <1>2 DEF Converter
  <1>4. y \in Converter /\ Numbered(y)
    <2>1. "text" \in {"detecting", "reasoning", "text"}
      OBVIOUS
    <2>2. Continues(x, y)
      BY <1>0, <1>2, <2>1, BufferContinues
    <2> QED BY <2>2 DEF Continues
  <1>5. \A q \in Seq(Words) : q \o << >> = q
    BY ConcatEmptySeq
  <1>6. CASE x.mode = "text"
    <2>1. z = y
      BY <1>1, <1>2, <1>6 DEF Flushed
    <2>2. Told(z, c, f)
      BY <1>3, <1>6, <2>1 DEF Shows, Told
    <2>3. Shows(z, c, f, TRUE) /\ z.mode = "text"
      BY <1>0, <1>3, <2>1, <2>2 DEF Shows
    <2> QED BY <1>1, <2>3
  <1>7. CASE x.mode # "text"
    <2>1. x.buffer = c /\ x.item[Text].said = << >> /\ f = << >>
      BY <1>7 DEF Shows
    <2>2. PICK n \in Nat : x.item[Reasoning].said = Pieces(n)
      BY <1>7 DEF Shows
    <2>3. CASE x.mode = "detecting"
      <3>1. Decision(c) = "more" /\ c \in Seq(Words)
        BY <1>0, <2>3, TokensAreWords DEF Shows
      <3>2. z.mode = "text" /\ z.item[Text].said = c /\ z.item[Reasoning].said = Pieces(n)
        <4>1. CASE c = << >>
          <5>1. z = y
            BY <1>1, <1>2, <2>1, <4>1 DEF Flushed
          <5> QED BY <1>3, <2>1, <2>2, <4>1, <5>1
        <4>2. CASE c # << >>
          <5>1. z = TextAfterReasoning(y, c)
            BY <1>1, <1>2, <2>1, <2>3, <4>2 DEF Flushed
          <5>2. Says(y, z, c, << >>)
            BY <1>4, <3>1, <5>1, HelpersSay
          <5>3. << >> \o c = c
            BY <1>0, TextAfterNothing
          <5> QED BY <1>0, <1>3, <1>5, <2>1, <2>2, <5>2, <5>3 DEF Says
        <4> QED BY <4>1, <4>2
      <3>3. Told(z, c, << >>)
        BY <1>0, <2>2, <3>1, <3>2, PlainTold
      <3>4. Shows(z, c, << >>, TRUE)
        BY <1>0, <3>2, <3>3 DEF Shows
      <3> QED BY <1>1, <2>1, <3>2, <3>4
    <2>4. CASE x.mode = "reasoning"
      <3>1. Decision(c) = "reasoning" /\ ~ HasThink(c)
        BY <2>4 DEF Shows
      <3>2. c # << >>
        <4>1. IsPrefix(Open, TrimStart(c))
          BY <1>0, <3>1, Decisions
        <4>2. TrimStart(c) # << >>
          <5>1. PICK u : u = TrimStart(c)
            OBVIOUS
          <5>2. u \in Seq(Tokens) /\ Len(u) >= 2
            BY <1>0, <4>1, <5>1, TrimmedText, OpenPrefixes
          <5>3. u # << >>
            BY <5>2
          <5> QED BY <5>1, <5>3
        <4>3. TrimStart(<< >>) = << >>
          BY <1>0, NothingToTrim
        <4> QED BY <4>2, <4>3
      <3>3. PICK w : w = Trim(Body(c))
        OBVIOUS
      <3>4. z = ReasoningDelta(y, w)
        BY <1>1, <1>2, <2>1, <2>4, <3>1, <3>2, <3>3 DEF Flushed
      <3>5. w \in Seq(Tokens) /\ w \in Seq(Words)
        BY <1>0, <3>3, PartsAreText, TokensAreWords
      <3>6. Says(y, z, << >>, w)
        BY <1>4, <3>4, <3>5, HelpersSay
      <3>7. << >> \o << >> = << >>
        BY <1>0, TextAfterNothing
      <3>8. z.mode = "text" /\ z.item[Text].said = << >> /\ z.item[Reasoning].said = Pieces(n) \o w
        BY <1>3, <2>1, <2>2, <3>6, <3>7 DEF Says
      <3>9. WholeThought(c) = w /\ WholeAnswer(c) = << >>
        BY <3>1, <3>3 DEF WholeThought, WholeAnswer
      <3>10. \E i, j \in Nat : Pieces(n) \o w = Pieces(i) \o w \o Pieces(j)
        BY <2>2, <3>5, ThoughtAfterPieces
      <3>11. Told(z, c, << >>)
        BY <3>7, <3>8, <3>9, <3>10 DEF Told
      <3>12. Shows(z, c, << >>, TRUE)
        BY <1>0, <3>8, <3>11 DEF Shows
      <3> QED BY <1>1, <2>1, <3>8, <3>12
    <2> QED BY <1>0, <1>7, <2>3, <2>4
  <1> QED BY <1>6, <1>7

(* What a chunk's reasoning and content keep.                                *)
LEMMA ThoughtContinues ==
    ASSUME NEW x \in Converter, Numbered(x), NEW m \in Messages
    PROVE  Continues(x, AfterThought(x, m))
  <1>1. CASE m.thought = << >>
    BY <1>1, StandingContinues DEF AfterThought
  <1>2. CASE m.thought # << >>
    <2>1. "r" \in Words /\ m.thought \in {<< >>, <<"r">>} /\ Reasoning \in {Text, Reasoning}
      BY DEF Words, Messages
    <2>2. <<"r">> \in Seq(Words)
      BY <2>1
    <2>3. AfterThought(x, m) = Delta(x, Reasoning, <<"r">>)
      BY <1>2, <2>1 DEF AfterThought
    <2> QED BY <2>1, <2>2, <2>3, DeltaContinues
  <1> QED BY <1>1, <1>2

(* And its content.                                                          *)
LEMMA ContentOfContinues ==
    ASSUME NEW x \in Converter, Numbered(x), NEW m \in Messages
    PROVE  Continues(x, AfterContent(x, m))
  <1>1. CASE m.content = << >>
    BY <1>1, StandingContinues DEF AfterContent
  <1>2. CASE m.content # << >>
    <2>1. PICK d : d = m.content
      OBVIOUS
    <2>2. d \in Seq(Tokens) /\ AfterContent(x, m) = ContentDelta(x, d)
      BY <1>2, <2>1 DEF AfterContent, Messages
    <2> QED BY <2>2, ContentContinues
  <1> QED BY <1>1, <1>2

(* The content of a chunk before the boundary.                               *)
LEMMA ContentBefore ==
    ASSUME NEW x \in Converter, Numbered(x), NEW c, NEW f, Shows(x, c, f, FALSE),
           NEW m \in Messages, NEW d, d = m.content, NEW y, y = AfterContent(x, m)
    PROVE  Shows(y, c \o d, f, FALSE)
  <1>1. d \in Seq(Tokens) /\ c \in Seq(Tokens)
    BY DEF Messages, Shows
  <1>2. CASE d = << >>
    <2>1. y = x
      BY <1>2 DEF AfterContent
    <2>2. c \o d = c
      BY <1>1, <1>2, TextAfterNothing
    <2> QED BY <2>1, <2>2
  <1>3. CASE d # << >>
    <2>1. y = ContentDelta(x, d)
      BY <1>3 DEF AfterContent
    <2> QED BY <1>1, <2>1, ContentShows
  <1> QED BY <1>2, <1>3

(* The content of a chunk after the boundary.                                *)
LEMMA ContentAfter ==
    ASSUME NEW x \in Converter, Numbered(x), NEW c, NEW f, NEW b, Shows(x, c, f, b),
           x.mode = "text",
           NEW m \in Messages, NEW d, d = m.content, NEW y, y = AfterContent(x, m)
    PROVE  Shows(y, c, f \o d, TRUE) /\ y.mode = "text"
  <1>1. d \in Seq(Tokens) /\ f \in Seq(Tokens)
    BY DEF Messages, Shows
  <1>2. CASE d = << >>
    <2>1. y = x
      BY <1>2 DEF AfterContent
    <2>2. f \o d = f
      BY <1>1, <1>2, TextAfterNothing
    <2>3. Shows(x, c, f, TRUE)
      BY DEF Shows
    <2> QED BY <2>1, <2>2, <2>3
  <1>3. CASE d # << >>
    <2>1. y = ContentDelta(x, d)
      BY <1>3 DEF AfterContent
    <2> QED BY <1>1, <2>1, FollowingShows
  <1> QED BY <1>2, <1>3

(* The tool calls of a chunk are a boundary.                                 *)
LEMMA AfterCallsShows ==
    ASSUME NEW x \in Converter, Numbered(x), NEW c, NEW f, NEW b, Shows(x, c, f, b),
           NEW m \in Messages
    PROVE  LET y == AfterCalls(x, m)
           IN  /\ ~ m.hasCalls => y = x
               /\ m.hasCalls => Shows(y, c, f, TRUE) /\ y.mode = "text"
  <1>1. ASSUME ~ m.hasCalls PROVE AfterCalls(x, m) = x
    BY <1>1 DEF AfterCalls
  <1>2. ASSUME m.hasCalls
        PROVE  Shows(AfterCalls(x, m), c, f, TRUE) /\ AfterCalls(x, m).mode = "text"
    <2>1. PICK u : u = Flushed(x)
      OBVIOUS
    <2>2. Shows(u, c, f, TRUE) /\ u.mode = "text" /\ u \in Converter /\ Numbered(u)
      BY <2>1, FlushedShows, FlushedContinues DEF Continues
    <2>3. PICK v : v = Finished(u, Reasoning)
      OBVIOUS
    <2>4. SameView(u, v) /\ v \in Converter /\ Numbered(v)
      BY <2>2, <2>3, FinishedView, FinishedContinues, KindsDiffer DEF Continues
    <2>5. PICK q : q = m.calls
      OBVIOUS
    <2>6. q \in Seq(Calls)
      BY <2>5 DEF Messages
    <2>7. PICK w : w = CallsHeard(v, q)
      OBVIOUS
    <2>8. SameView(v, w)
      BY <2>4, <2>6, <2>7, CallsView
    <2>9. AfterCalls(x, m) = w
      BY <1>2, <2>1, <2>3, <2>5, <2>7 DEF AfterCalls
    <2>10. SameView(u, w)
      BY <2>4, <2>8, SameViewOn
    <2>11. Shows(w, c, f, TRUE) /\ w.mode = "text"
      BY <2>2, <2>10, ShowsSame DEF SameView
    <2> QED BY <2>9, <2>11
  <1> QED BY <1>1, <1>2

(* A chunk up to its content.                                                *)
LEMMA ChunkBegins ==
    ASSUME NEW x \in Converter, Numbered(x), NEW c, NEW f, NEW b, Shows(x, c, f, b),
           NEW m \in Messages, NEW t, t = AfterThought(Started(x), m)
    PROVE  t \in Converter /\ Numbered(t) /\ Shows(t, c, f, b) /\ t.mode = x.mode
  <1>1. PICK s : s = Started(x)
    OBVIOUS
  <1>2. s \in Converter /\ Numbered(s) /\ SameView(x, s)
    BY <1>1, StartedContinues, StartedView
  <1>3. Shows(s, c, f, b) /\ s.mode = x.mode
    BY <1>2, ShowsSame DEF SameView
  <1>4. t = AfterThought(s, m)
    BY <1>1
  <1>5. Shows(t, c, f, b) /\ t.mode = x.mode
    BY <1>2, <1>3, <1>4, ThoughtShows
  <1>6. t \in Converter /\ Numbered(t)
    BY <1>2, <1>4, ThoughtContinues DEF Continues
  <1> QED BY <1>5, <1>6

(* A chunk before the boundary, which its tool calls are.                    *)
LEMMA ChunkBefore ==
    ASSUME NEW x \in Converter, Numbered(x), NEW c, NEW f, Shows(x, c, f, FALSE),
           NEW m \in Messages, NEW d, d = m.content,
           NEW y, y = AfterCalls(AfterContent(AfterThought(Started(x), m), m), m)
    PROVE  Shows(y, c \o d, f, m.hasCalls) /\ (m.hasCalls => y.mode = "text")
  <1>1. PICK t : t = AfterThought(Started(x), m)
    OBVIOUS
  <1>2. t \in Converter /\ Numbered(t) /\ Shows(t, c, f, FALSE)
    BY <1>1, ChunkBegins
  <1>3. PICK u : u = AfterContent(t, m)
    OBVIOUS
  <1>4. u \in Converter /\ Numbered(u)
    BY <1>2, <1>3, ContentOfContinues DEF Continues
  <1>5. Shows(u, c \o d, f, FALSE)
    BY <1>2, <1>3, ContentBefore
  <1>6. y = AfterCalls(u, m)
    BY <1>1, <1>3
  <1>7. m.hasCalls \in BOOLEAN
    BY DEF Messages
  <1>8. CASE ~ m.hasCalls
    <2>1. y = u
      BY <1>4, <1>5, <1>6, <1>8, AfterCallsShows
    <2>2. m.hasCalls = FALSE
      BY <1>7, <1>8
    <2> QED BY <1>5, <2>1, <2>2
  <1>9. CASE m.hasCalls
    <2>1. Shows(y, c \o d, f, TRUE) /\ y.mode = "text"
      BY <1>4, <1>5, <1>6, <1>9, AfterCallsShows
    <2>2. m.hasCalls = TRUE
      BY <1>7, <1>9
    <2> QED BY <2>1, <2>2
  <1> QED BY <1>8, <1>9

(* A chunk after the boundary.                                               *)
LEMMA ChunkAfter ==
    ASSUME NEW x \in Converter, Numbered(x), NEW c, NEW f, NEW b, Shows(x, c, f, b),
           x.mode = "text", NEW m \in Messages, NEW d, d = m.content,
           NEW y, y = AfterCalls(AfterContent(AfterThought(Started(x), m), m), m)
    PROVE  Shows(y, c, f \o d, TRUE) /\ y.mode = "text"
  <1>1. PICK t : t = AfterThought(Started(x), m)
    OBVIOUS
  <1>2. t \in Converter /\ Numbered(t) /\ Shows(t, c, f, b) /\ t.mode = "text"
    BY <1>1, ChunkBegins
  <1>3. PICK u : u = AfterContent(t, m)
    OBVIOUS
  <1>4. u \in Converter /\ Numbered(u)
    BY <1>2, <1>3, ContentOfContinues DEF Continues
  <1>5. Shows(u, c, f \o d, TRUE) /\ u.mode = "text"
    BY <1>2, <1>3, ContentAfter
  <1>6. y = AfterCalls(u, m)
    BY <1>1, <1>3
  <1> QED BY <1>4, <1>5, <1>6, AfterCallsShows

(* The end of an answer that is not complete yet.                            *)
LEMMA FinalizedShows ==
    ASSUME NEW x \in Converter, Numbered(x), ~ x.completed,
           NEW c, NEW f, NEW b, Shows(x, c, f, b)
    PROVE  LET y == Finalized(x)
           IN  Shows(y, c, f, TRUE) /\ y.mode = "text"
  <1>1. PICK s : s = Started(x)
    OBVIOUS
  <1>2. s \in Converter /\ Numbered(s) /\ Shows(s, c, f, b)
    BY <1>1, StartedContinues, StartedView, ShowsSame
  <1>3. PICK a : a = Flushed(s)
    OBVIOUS
  <1>4. Shows(a, c, f, TRUE) /\ a.mode = "text"
    BY <1>2, <1>3, FlushedShows
  <1>5. PICK y : y = Finalized(x)
    OBVIOUS
  <1>6. SameView(a, y)
    BY <1>1, <1>3, <1>5, FinalizedView
  <1>7. Shows(y, c, f, TRUE) /\ y.mode = "text"
    BY <1>4, <1>6, ShowsSame DEF SameView
  <1> QED BY <1>5, <1>7

(*****************************************************************************)
(* The inductive invariant of what is shown.                                 *)
(*****************************************************************************)
Shown ==
    /\ Shows(answer, content, follows, cut \/ over)
    /\ cut => answer.mode = "text"

(* The first state.                                                          *)
LEMMA StreamInitShown == StreamInit => Shown
  <1> SUFFICES ASSUME StreamInit PROVE Shown
    OBVIOUS
  <1>1. << >> \in Seq(Tokens) /\ Text \in Kinds /\ Reasoning \in Kinds
    BY KindsDiffer
  <1>2. /\ Initial.mode = "detecting" /\ Initial.buffer = << >>
        /\ Initial.item[Text].said = << >> /\ Initial.item[Reasoning].said = << >>
    BY <1>1 DEF Initial, NoItem
  <1>3. Decision(<< >>) = "more"
    <2>1. TrimStart(<< >>) = << >>
      BY <1>1, NothingToTrim
    <2>2. ~ IsPrefix(Open, << >>) /\ IsPrefix(<< >>, Open)
      <3>1. PICK u : u = << >>
        OBVIOUS
      <3>2. u \in Seq(Tokens) /\ ~ (Len(u) >= 2)
        BY <1>1, <3>1
      <3>3. ~ IsPrefix(Open, u) /\ IsPrefix(u, Open)
        BY <3>1, <3>2, OpenPrefixes
      <3> QED BY <3>1, <3>3
    <2> QED BY <2>1, <2>2 DEF Decision
  <1>4. \E n \in Nat : << >> = Pieces(n)
    BY PiecesAre
  <1>5. PICK x : x = Initial
    OBVIOUS
  <1>6. Shows(x, << >>, << >>, FALSE)
    BY <1>1, <1>2, <1>3, <1>4, <1>5 DEF Shows
  <1>7. /\ answer = x /\ content = << >> /\ follows = << >>
        /\ cut = FALSE /\ (cut \/ over) = FALSE
    BY <1>5 DEF StreamInit
  <1> QED BY <1>6, <1>7 DEF Shown

(* A step keeps it.                                                          *)
LEMMA StreamNextShown == ConversionInv /\ Shown /\ [StreamNext]_streamVars => Shown'
  <1> SUFFICES ASSUME ConversionInv, Shown, [StreamNext]_streamVars PROVE Shown'
    OBVIOUS
  <1>0. PICK x, c, f, b : x = answer /\ c = content /\ f = follows /\ b = (cut \/ over)
    OBVIOUS
  <1>1. /\ x \in Converter /\ Numbered(x) /\ Shows(x, c, f, b) /\ (cut => x.mode = "text")
        /\ cut \in BOOLEAN /\ over \in BOOLEAN
    BY <1>0 DEF ConversionInv, Shown
  <1>2. Shows(x, c, f, TRUE)
    BY <1>1 DEF Shows
  <1>3. CASE Chunk
    <2>1. PICK m \in Chunks :
             /\ answer' = AfterCalls(AfterContent(AfterThought(Started(x), m), m), m)
             /\ content' = IF cut THEN c ELSE c \o m.content
             /\ follows' = IF cut THEN f \o m.content ELSE f
             /\ cut' = (cut \/ m.hasCalls)
      BY <1>0, <1>3 DEF Chunk
    <2>2. ~ over /\ over' = over
      BY <1>3 DEF Chunk, Receiving
    <2>3. m \in Messages /\ m.hasCalls \in BOOLEAN
      BY ChunksAreMessages DEF Messages
    <2>4. PICK y, d : /\ y = AfterCalls(AfterContent(AfterThought(Started(x), m), m), m)
                      /\ d = m.content
      OBVIOUS
    <2>6. CASE cut
      <3>1. answer' = y /\ content' = c /\ follows' = f \o d /\ (cut' \/ over') = TRUE
        BY <2>1, <2>4, <2>6
      <3>2. Shows(y, c, f \o d, TRUE) /\ y.mode = "text"
        BY <1>1, <2>3, <2>4, <2>6, ChunkAfter
      <3> QED BY <3>1, <3>2 DEF Shown
    <2>7. CASE ~ cut
      <3>1. /\ answer' = y /\ content' = c \o d /\ follows' = f
            /\ cut' = m.hasCalls /\ (cut' \/ over') = m.hasCalls
        BY <1>1, <2>1, <2>2, <2>3, <2>4, <2>7
      <3>2. Shows(x, c, f, FALSE)
        <4>1. b = FALSE
          BY <1>0, <2>2, <2>7
        <4> QED BY <1>1, <4>1
      <3>3. Shows(y, c \o d, f, m.hasCalls) /\ (m.hasCalls => y.mode = "text")
        BY <1>1, <2>3, <2>4, <3>2, ChunkBefore
      <3> QED BY <3>1, <3>3 DEF Shown
    <2> QED BY <2>6, <2>7
  <1>4. CASE SaysDone
    <2>1. /\ answer' = Finalized(x) /\ cut' = (cut \/ ~ x.completed)
          /\ over' = over /\ content' = c /\ follows' = f
      BY <1>0, <1>4 DEF SaysDone
    <2>2. CASE x.completed
      <3>1. answer' = x
        BY <2>1, <2>2 DEF Finalized
      <3>2. cut' = cut /\ (cut' \/ over') = b
        BY <1>0, <1>1, <2>1, <2>2
      <3> QED BY <1>1, <2>1, <3>1, <3>2 DEF Shown
    <2>3. CASE ~ x.completed
      <3>1. PICK y : y = Finalized(x)
        OBVIOUS
      <3>2. Shows(y, c, f, TRUE) /\ y.mode = "text"
        BY <1>1, <2>3, <3>1, FinalizedShows
      <3>3. answer' = y /\ (cut' \/ over') = TRUE
        BY <2>1, <2>3, <3>1
      <3> QED BY <2>1, <3>2, <3>3 DEF Shown
    <2> QED BY <2>2, <2>3
  <1>5. CASE SaysError
    <2>1. PICK y : y = Failed(x)
      OBVIOUS
    <2>2. Shows(y, c, f, b) /\ y.mode = x.mode
      BY <1>1, <2>1, StartedView, ShowsSame DEF SameView
    <2>3. /\ answer' = y /\ content' = c /\ follows' = f
          /\ cut' = cut /\ (cut' \/ over') = b
      BY <1>0, <1>5, <2>1 DEF SaysError, ghosts
    <2> QED BY <1>1, <2>2, <2>3 DEF Shown
  <1>6. CASE Breaks
    <2>1. PICK y : y = Failed(x)
      OBVIOUS
    <2>2. Shows(y, c, f, TRUE) /\ y.mode = x.mode
      BY <1>1, <2>1, StartedView, ShowsSame DEF SameView
    <2>3. /\ answer' = y /\ content' = c /\ follows' = f
          /\ cut' = cut /\ (cut' \/ over') = TRUE
      BY <1>0, <1>6, <2>1 DEF Breaks, ghosts
    <2> QED BY <1>1, <2>2, <2>3 DEF Shown
  <1>7. CASE Ends
    <2>1. PICK y : y = IF x.failed THEN x ELSE Finalized(x)
      OBVIOUS
    <2>2. Shows(y, c, f, TRUE) /\ (cut => y.mode = "text")
      <3>1. CASE x.failed \/ x.completed
        <4>1. y = x
          BY <2>1, <3>1 DEF Finalized
        <4> QED BY <1>1, <1>2, <4>1
      <3>2. CASE ~ (x.failed \/ x.completed)
        <4>1. y = Finalized(x)
          BY <2>1, <3>2
        <4> QED BY <1>1, <3>2, <4>1, FinalizedShows
      <3> QED BY <3>1, <3>2
    <2>3. /\ answer' = y /\ content' = c /\ follows' = f
          /\ cut' = cut /\ (cut' \/ over') = TRUE
      BY <1>0, <1>7, <2>1 DEF Ends, ghosts
    <2> QED BY <2>2, <2>3 DEF Shown
  <1>8. CASE UNCHANGED streamVars
    <2>1. /\ answer' = x /\ content' = c /\ follows' = f
          /\ cut' = cut /\ (cut' \/ over') = b
      BY <1>0, <1>8 DEF streamVars, ghosts
    <2> QED BY <1>1, <2>1 DEF Shown
  <1> QED BY <1>3, <1>4, <1>5, <1>6, <1>7, <1>8 DEF StreamNext

(* How the content is cut does not change what is shown of it.               *)
THEOREM ChunksAgree == StreamSpec => []ChunksDoNotMatter
  <1>1. ConversionInv /\ Shown => ChunksDoNotMatter
    <2> SUFFICES ASSUME ConversionInv, Shown, answer.mode = "text"
                 PROVE  /\ TrimStart(answer.item[Text].said) = TrimStart(WholeAnswer(content) \o follows)
                        /\ \E i, j \in 0 .. Len(answer.item[Reasoning].said) :
                              answer.item[Reasoning].said
                                  = Pieces(i) \o WholeThought(content) \o Pieces(j)
      BY DEF ChunksDoNotMatter
    <2>1. Told(answer, content, follows) /\ content \in Seq(Tokens)
      BY DEF Shown, Shows
    <2>2. PICK i \in Nat, j \in Nat :
             answer.item[Reasoning].said = Pieces(i) \o WholeThought(content) \o Pieces(j)
      BY <2>1 DEF Told
    <2>3. PICK w, p, q, s : /\ w = WholeThought(content) /\ p = Pieces(i) /\ q = Pieces(j)
                            /\ s = answer.item[Reasoning].said
      OBVIOUS
    <2>4. w \in Seq(Words) /\ p \in Seq(Words) /\ q \in Seq(Words) /\ Len(p) = i /\ Len(q) = j
      BY <2>1, <2>3, WholeIsText, TokensAreWords, PiecesAre
    <2>5. s = p \o w \o q
      BY <2>2, <2>3
    <2>6. Len(s) = i + Len(w) + j /\ Len(w) \in Nat
      <3>1. PICK u : u = p \o w
        OBVIOUS
      <3>2. u \in Seq(Words) /\ Len(u) = Len(p) + Len(w) /\ Len(w) \in Nat
        <4>1. Len(p \o w) = Len(p) + Len(w)
          BY <2>4, ConcatProperties
        <4> QED BY <2>4, <3>1, <4>1
      <3>3. Len(u \o q) = Len(u) + Len(q)
        BY <2>4, <3>2, ConcatProperties
      <3> QED BY <2>4, <2>5, <3>1, <3>2, <3>3
    <2>7. i \in 0 .. Len(s) /\ j \in 0 .. Len(s)
      BY <2>6
    <2>8. \E k, l \in 0 .. Len(s) : s = Pieces(k) \o w \o Pieces(l)
      BY <2>3, <2>5, <2>7
    <2> QED BY <2>1, <2>3, <2>8 DEF Told
  <1>2. StreamSpec => []Shown
    BY StreamInitShown, StreamNextShown, ConversionInvHolds, PTL DEF StreamSpec
  <1> QED BY <1>1, <1>2, ConversionInvHolds, PTL
================================================================================
