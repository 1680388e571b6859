------------------------- MODULE PhoneRemoteProofs -------------------------
(***************************************************************************)
(* What holds of phone remote for any number of flows, commands and        *)
(* registrations and any choice of faults: no flow leaves its pair process *)
(* running, the panel never waits for a flow that is gone, and no prompt   *)
(* is forgotten on the phone.  IInv is inductive.                          *)
(***************************************************************************)
EXTENDS PhoneRemote, TLAPS

IInv == TypeOK /\ PanelFollowsFlow /\ NoForgottenPrompt

-----------------------------------------------------------------------------
\* What a flow holds is a record or nothing.
LEMMA HeldTypes ==
    ASSUME Types, NEW f \in Flows
    PROVE  {pairId[f]} \ {0} \subseteq Records
    BY PhoneAssumption DEF Types, Records

\* A flow that leaves its pairing gives up its process, record and answer.
LEMMA LeaveTypes ==
    ASSUME Types, NEW f \in Flows, NEW stage \in Stages, Leave(f, stage)
    PROVE  /\ flow' \in [Flows -> Stages]
           /\ child' \in [Flows -> {"none", "dead", "orphan"} \cup Alive]
           /\ pairId' \in [Flows -> 0..MaxRecords] /\ settled' \in [Flows -> BOOLEAN]
           /\ withdrawing' \subseteq Records
<1> USE PhoneAssumption DEF Types, Flows, Records, Goto
<1>1. withdrawing' \subseteq withdrawing \cup ({pairId[f]} \ {0})
    BY Zenon DEF Leave
<1>2. withdrawing' \subseteq Records
    BY <1>1, HeldTypes
<1>. QED BY <1>2 DEF Leave, Alive

\* A registration is one more, and the records it finds keep their kind.
LEMMA RegisterTypes ==
    ASSUME Types, Register
    PROVE  /\ made' \in 0..MaxRecords /\ made + 1 \in Records
           /\ record' \in [Records -> {"none", "pending", "approved", "rejected", "gone"}]
    BY PhoneAssumption DEF Types, Register, Records

\* Every step keeps the types.
LEMMA TypesNext == Types /\ [Next]_vars => Types'
<1> SUFFICES ASSUME Types, [Next]_vars PROVE Types'
    OBVIOUS
<1> USE PhoneAssumption DEF Types, Phases, Stages, Alive, controller, tasks, device, backend, Stale, Apply, Goto, Flows, Records
<1>1. CASE UNCHANGED vars
    BY <1>1 DEF vars, controller, tasks, device, backend
<1>2. CASE Start
    BY <1>2 DEF Start, Begin
<1>3. CASE Startup
  <2>1. launched' = TRUE /\ UNCHANGED follow
    BY <1>3 DEF Startup
  <2>2. CASE Begin("startup")
    BY <2>1, <2>2 DEF Begin
  <2>3. CASE UNCHANGED <<controller, tasks, command, withdrawing, device, child, backend>>
    BY <2>1, <2>3
  <2>. QED BY <1>3, <2>2, <2>3 DEF Startup
<1>4. CASE Cancel
    BY <1>4 DEF Cancel, CancelCurrent
<1>5. CASE Restart
  <2>1. /\ child' \in [Flows -> {"none", "dead", "orphan"} \cup Alive]
        /\ flow' \in [Flows -> Stages]
    BY <1>5 DEF Restart
  <2>2. lost' \subseteq Records
    <3>1. {pairId[f] : f \in Flows} \ {0} \subseteq Records
      BY HeldTypes
    <3>. QED BY <1>5, <3>1 DEF Restart
  <2>3. how' \in [Flows -> {"none", "connect", "repair", "startup", "cancel", "off"}]
    BY <1>5 DEF Restart
  <2>4. /\ phase' = "idle" /\ generation' \in 0..MaxGen /\ launched' = FALSE
        /\ withdrawing' = {} /\ pairId' \in [Flows -> 0..MaxRecords]
        /\ settled' \in [Flows -> BOOLEAN]
        /\ command' \in [Commands -> {"none", "disable", "disabling", "unpair", "unpairing"}]
        /\ UNCHANGED <<follow, device, made, record>>
    BY <1>5 DEF Restart
  <2>. QED BY <2>1, <2>2, <2>3, <2>4
<1>6. ASSUME NEW c \in Commands,
             SwitchOff(c) \/ SwitchOffDaemon(c) \/ SwitchOffAutostart(c) \/ CommandDropped(c)
      PROVE  Types'
  <2>1. CASE SwitchOff(c)
    <3>1. /\ CancelCurrent("off") /\ follow' \in {FALSE, follow}
          /\ UNCHANGED <<launched, pairId, settled, withdrawing, device, child, backend>>
      BY <2>1, Zenon DEF SwitchOff
    <3>2. \E x \in {"none", "disable", "disabling", "unpair", "unpairing"} :
            command' = [command EXCEPT ![c] = x]
      <4>1. PICK kind \in {"disable", "unpair"} :
              \/ command' = [command EXCEPT ![c] =
                    IF installed THEN kind
                    ELSE IF kind = "disable" THEN "disabling" ELSE "unpairing"]
              \/ command' = [command EXCEPT ![c] =
                    IF kind = "disable" THEN "none"
                    ELSE IF installed THEN "unpair" ELSE "unpairing"]
        BY <2>1, Zenon DEF SwitchOff
      <4>. QED BY <4>1
    <3>3. follow' \in BOOLEAN
      BY <3>1
    <3>. QED BY <3>1, <3>2, <3>3 DEF CancelCurrent
  <2>2. CASE SwitchOffDaemon(c)
    BY <2>2 DEF SwitchOffDaemon, MayFail
  <2>3. CASE SwitchOffAutostart(c)
    BY <2>3 DEF SwitchOffAutostart, MayFail
  <2>4. CASE CommandDropped(c)
    BY <2>4 DEF CommandDropped
  <2>. QED BY <1>6, <2>1, <2>2, <2>3, <2>4
<1>7. ASSUME NEW f \in Flows, FlowStep(f) PROVE Types'
  <2>1. CASE Ensure(f)
    BY <2>1 DEF Ensure
  <2>2. CASE Status(f)
    <3>1. phase' \in Phases /\ flow' \in [Flows -> Stages]
      BY <2>2 DEF Status
    <3>2. child' \in [Flows -> {"none", "dead", "orphan"} \cup Alive]
      BY <2>2 DEF Status
    <3>3. UNCHANGED <<generation, follow, launched, how, pairId, settled, command,
                      withdrawing, device, backend>>
      BY <2>2 DEF Status
    <3>. QED BY <3>1, <3>2, <3>3
  <2>3. CASE Check(f)
    BY <2>3 DEF Check
  <2>4. CASE DaemonStatus(f)
    BY <2>4 DEF DaemonStatus
  <2>5. CASE DaemonStart(f)
    BY <2>5 DEF DaemonStart
  <2>6. CASE Recheck(f)
    BY <2>6 DEF Recheck
  <2>7. CASE AutostartInstall(f)
    BY <2>7 DEF AutostartInstall, MayFail
  <2>. QED BY <1>7, <2>1, <2>2, <2>3, <2>4, <2>5, <2>6, <2>7 DEF FlowStep
<1>8. ASSUME NEW f \in Flows,
             PairCancelled(f) \/ PairTimedOut(f) \/ PairFailed(f) \/ PairDone(f)
      PROVE  Types'
  <2>1. CASE PairCancelled(f)
    <3>1. /\ Leave(f, "ended") /\ phase' \in Phases
          /\ UNCHANGED <<generation, follow, launched, how, command, device, backend>>
      BY <2>1 DEF PairCancelled
    <3>. QED BY <3>1, LeaveTypes
  <2>2. CASE PairTimedOut(f)
    <3>1. /\ Leave(f, "ended") /\ phase' \in Phases
          /\ UNCHANGED <<generation, follow, launched, how, command, device, backend>>
      BY <2>2 DEF PairTimedOut
    <3>. QED BY <3>1, LeaveTypes
  <2>3. CASE PairFailed(f)
    <3>1. /\ Leave(f, "ended") /\ phase' \in Phases
          /\ UNCHANGED <<generation, follow, launched, how, command, device, backend>>
      BY <2>3 DEF PairFailed
    <3>. QED BY <3>1, LeaveTypes
  <2>4. CASE PairDone(f)
    <3>1. /\ Leave(f, "check") /\ phase' \in Phases
          /\ UNCHANGED <<generation, follow, launched, how, command, device, backend>>
      BY <2>4 DEF PairDone
    <3>. QED BY <3>1, LeaveTypes
  <2>. QED BY <1>8, <2>1, <2>2, <2>3, <2>4
<1>9. ASSUME NEW f \in Flows, PairWaiting(f) PROVE Types'
  <2>0. UNCHANGED <<generation, follow, launched, how, command, device>>
    BY <1>9 DEF PairWaiting
  <2>1. CASE KeyRegistered(f)
    <3>1. Register /\ UNCHANGED <<flow, lost>>
      BY <2>1 DEF KeyRegistered
    <3>2. made + 1 \in Records
      BY <3>1, RegisterTypes
    <3>3. withdrawing' \subseteq Records
      BY <2>1, HeldTypes DEF KeyRegistered
    <3>4. /\ pairId' \in [Flows -> 0..MaxRecords] /\ settled' \in [Flows -> BOOLEAN]
          /\ child' \in [Flows -> {"none", "dead", "orphan"} \cup Alive]
          /\ phase' \in Phases
      BY <2>1, <3>2 DEF KeyRegistered
    <3>. QED BY <2>0, <3>1, <3>3, <3>4, RegisterTypes
  <2>2. CASE KeyUnbound(f)
    <3>1. UNCHANGED backend \/ Register
      BY <2>2 DEF KeyUnbound
    <3>2. withdrawing' \subseteq Records /\ lost' \subseteq Records
      <4>1. CASE UNCHANGED backend /\ withdrawing' = withdrawing \cup ({pairId[f]} \ {0})
        BY <4>1, HeldTypes
      <4>2. CASE /\ Register /\ UNCHANGED lost
                 /\ withdrawing' = withdrawing \cup ({pairId[f], made + 1} \ {0})
        <5>1. made + 1 \in Records
          BY <4>2, RegisterTypes
        <5>. QED BY <4>2, <5>1, HeldTypes
      <4>3. CASE /\ Register /\ lost' = lost \cup {made + 1}
                 /\ withdrawing' = withdrawing \cup ({pairId[f]} \ {0})
        <5>1. made + 1 \in Records
          BY <4>3, RegisterTypes
        <5>. QED BY <4>3, <5>1, HeldTypes
      <4>. QED BY <2>2, <4>1, <4>2, <4>3, Zenon DEF KeyUnbound
    <3>3. /\ pairId' \in [Flows -> 0..MaxRecords] /\ settled' \in [Flows -> BOOLEAN]
          /\ child' \in [Flows -> {"none", "dead", "orphan"} \cup Alive]
          /\ phase' \in Phases /\ UNCHANGED flow
      BY <2>2 DEF KeyUnbound
    <3>. QED BY <2>0, <3>1, <3>2, <3>3, RegisterTypes
  <2>3. CASE KeyRefused(f)
    <3>1. UNCHANGED backend \/ Register
      BY <2>3 DEF KeyRefused
    <3>2. withdrawing' \subseteq Records /\ lost' \subseteq Records
      <4>1. /\ withdrawing' \subseteq withdrawing \cup {made + 1} \cup ({pairId[f]} \ {0})
            /\ UNCHANGED backend => withdrawing' \subseteq withdrawing \cup ({pairId[f]} \ {0})
            /\ lost' \subseteq lost \cup {made + 1}
            /\ UNCHANGED backend \/ Register
        BY <2>3 DEF KeyRefused, Register
      <4>2. CASE UNCHANGED backend
        BY <4>1, <4>2, HeldTypes
      <4>3. CASE Register
        <5>1. made + 1 \in Records
          BY <4>3, RegisterTypes
        <5>. QED BY <4>1, <5>1, HeldTypes
      <4>. QED BY <4>1, <4>2, <4>3
    <3>3. /\ pairId' \in [Flows -> 0..MaxRecords] /\ settled' \in [Flows -> BOOLEAN]
          /\ child' \in [Flows -> {"none", "dead", "orphan"} \cup Alive]
          /\ phase' \in Phases /\ flow' \in [Flows -> Stages]
      BY <2>3 DEF KeyRefused
    <3>. QED BY <2>0, <3>1, <3>2, <3>3, RegisterTypes
  <2>. QED BY <1>9, <2>1, <2>2, <2>3 DEF PairWaiting
<1>10. ASSUME NEW f \in Flows, Poll(f) PROVE Types'
  <2>0. UNCHANGED <<generation, launched, how, command, device, backend>>
    BY <1>10 DEF Poll
  <2>1. CASE PollApproved(f)
    <3>1. /\ child' \in [Flows -> {"none", "dead", "orphan"} \cup Alive]
          /\ settled' \in [Flows -> BOOLEAN] /\ pairId' \in [Flows -> 0..MaxRecords]
      <4>1. CASE /\ settled' = [settled EXCEPT ![f] = TRUE]
                 /\ child' = [child EXCEPT ![f] = IF @ = "heard" THEN "told" ELSE @]
                 /\ UNCHANGED pairId
        BY <4>1
      <4>2. CASE /\ child' = [child EXCEPT ![f] = "dead"]
                 /\ pairId' = [pairId EXCEPT ![f] = 0]
                 /\ UNCHANGED settled
        BY <4>2
      <4>. QED BY <2>1, <4>1, <4>2, Zenon DEF PollApproved
    <3>2. phase' \in Phases /\ flow' \in [Flows -> Stages] /\ UNCHANGED withdrawing
      BY <2>1 DEF PollApproved
    <3>3. UNCHANGED follow
      BY <2>1, Zenon DEF PollApproved
    <3>. QED BY <2>0, <3>1, <3>2, <3>3
  <2>2. CASE PollEnded(f)
    <3>1. /\ child' \in [Flows -> {"none", "dead", "orphan"} \cup Alive]
          /\ settled' \in [Flows -> BOOLEAN] /\ pairId' \in [Flows -> 0..MaxRecords]
          /\ phase' \in Phases /\ flow' \in [Flows -> Stages] /\ UNCHANGED withdrawing
      BY <2>2 DEF PollEnded
    <3>2. follow' \in {FALSE, follow}
      BY <2>2, Zenon DEF PollEnded
    <3>3. follow' \in BOOLEAN
      BY <3>2
    <3>. QED BY <2>0, <3>1, <3>3
  <2>. QED BY <1>10, <2>1, <2>2 DEF Poll
<1>11. ASSUME NEW f \in Flows, ChildPrintsKey(f) \/ ChildPairs(f) \/ ChildFails(f)
       PROVE  Types'
  <2>1. CASE ChildPrintsKey(f)
    BY <2>1 DEF ChildPrintsKey
  <2>2. CASE ChildPairs(f)
    BY <2>2 DEF ChildPairs
  <2>3. CASE ChildFails(f)
    BY <2>3 DEF ChildFails
  <2>. QED BY <1>11, <2>1, <2>2, <2>3
<1>12. ASSUME NEW r \in Records, PhoneAnswers(r) \/ Withdraw(r)
       PROVE  Types'
  <2>1. CASE PhoneAnswers(r)
    BY <2>1 DEF PhoneAnswers
  <2>2. CASE Withdraw(r)
    <3>1. /\ record' \in [Records -> {"none", "pending", "approved", "rejected", "gone"}]
          /\ lost' \subseteq Records /\ withdrawing' \subseteq Records
      BY <2>2 DEF Withdraw
    <3>. QED BY <2>2, <3>1 DEF Withdraw
  <2>. QED BY <1>12, <2>1, <2>2
<1>. QED BY <1>1, <1>2, <1>3, <1>4, <1>5, <1>6, <1>7, <1>8, <1>9, <1>10, <1>11, <1>12 DEF Next

\* What Ensure and DaemonStart do, the device left aside.
LEMMA EnsureEffect ==
    ASSUME NEW f \in Flows, Ensure(f)
    PROVE  /\ flow[f] = "ensure"
           /\ \/ Stale(f) /\ Goto(f, "ended") /\ UNCHANGED phase
              \/ Apply(f, "error") /\ Goto(f, "ended")
              \/ Goto(f, "status") /\ UNCHANGED phase
           /\ UNCHANGED <<generation, pairId, settled, child, withdrawing, made, record, lost>>
<1>1. flow[f] = "ensure"
    BY DEF Ensure
<1>2. \/ Stale(f) /\ Goto(f, "ended") /\ UNCHANGED phase
      \/ Apply(f, "error") /\ Goto(f, "ended")
      \/ Goto(f, "status") /\ UNCHANGED phase
    BY Zenon DEF Ensure
<1>3. UNCHANGED <<generation, pairId, settled, child, withdrawing, backend>>
    BY DEF Ensure
<1>. QED BY <1>1, <1>2, <1>3 DEF backend

LEMMA DaemonStartEffect ==
    ASSUME NEW f \in Flows, DaemonStart(f)
    PROVE  /\ flow[f] = "start"
           /\ \/ Goto(f, "recheck") /\ UNCHANGED phase
              \/ Apply(f, "error") /\ Goto(f, "ended")
           /\ UNCHANGED <<generation, pairId, settled, child, withdrawing, made, record, lost>>
<1>1. flow[f] = "start"
    BY DEF DaemonStart
<1>2. \/ Goto(f, "recheck") /\ UNCHANGED phase
      \/ Apply(f, "error") /\ Goto(f, "ended")
    BY Zenon DEF DaemonStart
<1>3. UNCHANGED <<generation, pairId, settled, child, withdrawing, backend>>
    BY DEF DaemonStart
<1>. QED BY <1>1, <1>2, <1>3 DEF backend

\* A flow that stops pairing kills its process and gives up its record.
LEMMA NumberedNext == Types /\ FlowsNumbered /\ [Next]_vars => FlowsNumbered'
<1> SUFFICES ASSUME Types /\ FlowsNumbered, [Next]_vars PROVE FlowsNumbered'
    OBVIOUS
<1> USE PhoneAssumption DEF FlowsNumbered, Types, Phases, Stages, Alive, controller, tasks, device, backend, Stale, Apply, Goto, Flows, Records
<1>1. CASE UNCHANGED vars
    BY <1>1 DEF vars, controller, tasks, device, backend
<1>2. CASE Start
    BY <1>2 DEF Start, Begin
<1>3. CASE Startup
    BY <1>3 DEF Startup, Begin
<1>4. CASE Cancel
    BY <1>4 DEF Cancel, CancelCurrent
<1>5. CASE Restart
    BY <1>5 DEF Restart
<1>6. ASSUME NEW c \in Commands,
             SwitchOff(c) \/ SwitchOffDaemon(c) \/ SwitchOffAutostart(c) \/ CommandDropped(c)
      PROVE  FlowsNumbered'
  <2>1. CASE SwitchOff(c)
    BY <2>1 DEF SwitchOff, CancelCurrent
  <2>2. CASE SwitchOffDaemon(c)
    BY <2>2 DEF SwitchOffDaemon, MayFail
  <2>3. CASE SwitchOffAutostart(c)
    BY <2>3 DEF SwitchOffAutostart, MayFail
  <2>4. CASE CommandDropped(c)
    BY <2>4 DEF CommandDropped
  <2>. QED BY <1>6, <2>1, <2>2, <2>3, <2>4
<1>7. ASSUME NEW f \in Flows, FlowStep(f) PROVE FlowsNumbered'
  <2>1. CASE Ensure(f)
    <3>1. PICK s \in {"ended", "status"} : flow' = [flow EXCEPT ![f] = s]
      BY <2>1, EnsureEffect
    <3>2. flow[f] \notin {"pair", "unused"} /\ UNCHANGED <<generation, pairId, child>>
      BY <2>1, EnsureEffect
    <3>. QED BY <3>1, <3>2
  <2>2. CASE Status(f)
    BY <2>2 DEF Status
  <2>3. CASE Check(f)
    BY <2>3 DEF Check
  <2>4. CASE DaemonStatus(f)
    BY <2>4 DEF DaemonStatus
  <2>5. CASE DaemonStart(f)
    BY <2>5, DaemonStartEffect
  <2>6. CASE Recheck(f)
    BY <2>6 DEF Recheck
  <2>7. CASE AutostartInstall(f)
    BY <2>7 DEF AutostartInstall, MayFail
  <2>. QED BY <1>7, <2>1, <2>2, <2>3, <2>4, <2>5, <2>6, <2>7 DEF FlowStep
<1>8. ASSUME NEW f \in Flows,
             PairCancelled(f) \/ PairTimedOut(f) \/ PairFailed(f) \/ PairDone(f)
      PROVE  FlowsNumbered'
  <2>1. CASE PairCancelled(f)
    BY <2>1 DEF PairCancelled, Leave
  <2>2. CASE PairTimedOut(f)
    BY <2>2 DEF PairTimedOut, Leave
  <2>3. CASE PairFailed(f)
    BY <2>3 DEF PairFailed, Leave
  <2>4. CASE PairDone(f)
    BY <2>4 DEF PairDone, Leave
  <2>. QED BY <1>8, <2>1, <2>2, <2>3, <2>4
<1>9. ASSUME NEW f \in Flows, PairWaiting(f) PROVE FlowsNumbered'
  <2>1. CASE KeyRegistered(f)
    BY <1>9, <2>1 DEF PairWaiting, KeyRegistered, Register
  <2>2. CASE KeyUnbound(f)
    BY <1>9, <2>2 DEF PairWaiting, KeyUnbound, Register
  <2>3. CASE KeyRefused(f)
    BY <1>9, <2>3 DEF PairWaiting, KeyRefused, Register
  <2>. QED BY <1>9, <2>1, <2>2, <2>3 DEF PairWaiting
<1>10. ASSUME NEW f \in Flows, Poll(f) PROVE FlowsNumbered'
  <2>1. CASE PollApproved(f)
    BY <1>10, <2>1 DEF Poll, PollApproved
  <2>2. CASE PollEnded(f)
    BY <1>10, <2>2 DEF Poll, PollEnded
  <2>. QED BY <1>10, <2>1, <2>2 DEF Poll
<1>11. ASSUME NEW f \in Flows, ChildPrintsKey(f) \/ ChildPairs(f) \/ ChildFails(f)
       PROVE  FlowsNumbered'
    BY <1>11 DEF ChildPrintsKey, ChildPairs, ChildFails
<1>12. ASSUME NEW r \in Records, PhoneAnswers(r) \/ Withdraw(r)
       PROVE  FlowsNumbered'
    BY <1>12 DEF PhoneAnswers, Withdraw
<1>. QED BY <1>1, <1>2, <1>3, <1>4, <1>5, <1>6, <1>7, <1>8, <1>9, <1>10, <1>11, <1>12 DEF Next

\* Only the current flow shows its progress, and it leaves the panel at rest.
LEMMA PanelNext == TypeOK /\ PanelFollowsFlow /\ [Next]_vars => PanelFollowsFlow'
<1> SUFFICES ASSUME TypeOK /\ PanelFollowsFlow, [Next]_vars PROVE PanelFollowsFlow'
    OBVIOUS
<1> USE PhoneAssumption DEF TypeOK, FlowsNumbered, PanelFollowsFlow, Busy, Types, Phases, Stages, Alive, controller, tasks, device, backend, Stale, Apply, Goto, Flows, Records
<1>1. CASE UNCHANGED vars
    BY <1>1 DEF vars, controller, tasks, device, backend
<1>2. CASE Start
    BY <1>2 DEF Start, Begin
<1>3. CASE Startup
    BY <1>3 DEF Startup, Begin
<1>4. CASE Cancel
    BY <1>4 DEF Cancel, CancelCurrent
<1>5. CASE Restart
    BY <1>5 DEF Restart
<1>6. ASSUME NEW c \in Commands,
             SwitchOff(c) \/ SwitchOffDaemon(c) \/ SwitchOffAutostart(c) \/ CommandDropped(c)
      PROVE  PanelFollowsFlow'
  <2>1. CASE SwitchOff(c)
    BY <2>1 DEF SwitchOff, CancelCurrent
  <2>2. CASE SwitchOffDaemon(c)
    BY <2>2 DEF SwitchOffDaemon, MayFail
  <2>3. CASE SwitchOffAutostart(c)
    BY <2>3 DEF SwitchOffAutostart, MayFail
  <2>4. CASE CommandDropped(c)
    BY <2>4 DEF CommandDropped
  <2>. QED BY <1>6, <2>1, <2>2, <2>3, <2>4
<1>7. ASSUME NEW f \in Flows, FlowStep(f) PROVE PanelFollowsFlow'
  <2>1. CASE Ensure(f)
    BY <2>1, EnsureEffect
  <2>2. CASE Status(f)
    BY <2>2 DEF Status
  <2>3. CASE Check(f)
    BY <2>3 DEF Check
  <2>4. CASE DaemonStatus(f)
    BY <2>4 DEF DaemonStatus
  <2>5. CASE DaemonStart(f)
    <3>1. UNCHANGED generation /\ flow[f] = "start"
      BY <2>5, DaemonStartEffect
    <3>2. CASE Goto(f, "recheck") /\ UNCHANGED phase
      BY <3>1, <3>2
    <3>3. CASE Apply(f, "error") /\ Goto(f, "ended")
      BY <3>1, <3>3
    <3>. QED BY <2>5, <3>2, <3>3, DaemonStartEffect
  <2>6. CASE Recheck(f)
    BY <2>6 DEF Recheck
  <2>7. CASE AutostartInstall(f)
    BY <2>7 DEF AutostartInstall, MayFail
  <2>. QED BY <1>7, <2>1, <2>2, <2>3, <2>4, <2>5, <2>6, <2>7 DEF FlowStep
<1>8. ASSUME NEW f \in Flows,
             PairCancelled(f) \/ PairTimedOut(f) \/ PairFailed(f) \/ PairDone(f)
      PROVE  PanelFollowsFlow'
  <2>1. CASE PairCancelled(f)
    BY <2>1 DEF PairCancelled, Leave
  <2>2. CASE PairTimedOut(f)
    BY <2>2 DEF PairTimedOut, Leave
  <2>3. CASE PairFailed(f)
    BY <2>3 DEF PairFailed, Leave
  <2>4. CASE PairDone(f)
    BY <2>4 DEF PairDone, Leave
  <2>. QED BY <1>8, <2>1, <2>2, <2>3, <2>4
<1>9. ASSUME NEW f \in Flows, PairWaiting(f) PROVE PanelFollowsFlow'
  <2>1. CASE KeyRegistered(f)
    BY <1>9, <2>1 DEF PairWaiting, KeyRegistered, Register
  <2>2. CASE KeyUnbound(f)
    BY <1>9, <2>2 DEF PairWaiting, KeyUnbound, Register
  <2>3. CASE KeyRefused(f)
    BY <1>9, <2>3 DEF PairWaiting, KeyRefused, Register
  <2>. QED BY <1>9, <2>1, <2>2, <2>3 DEF PairWaiting
<1>10. ASSUME NEW f \in Flows, Poll(f) PROVE PanelFollowsFlow'
  <2>1. CASE PollApproved(f)
    BY <1>10, <2>1 DEF Poll, PollApproved
  <2>2. CASE PollEnded(f)
    BY <1>10, <2>2 DEF Poll, PollEnded
  <2>. QED BY <1>10, <2>1, <2>2 DEF Poll
<1>11. ASSUME NEW f \in Flows, ChildPrintsKey(f) \/ ChildPairs(f) \/ ChildFails(f)
       PROVE  PanelFollowsFlow'
    BY <1>11 DEF ChildPrintsKey, ChildPairs, ChildFails
<1>12. ASSUME NEW r \in Records, PhoneAnswers(r) \/ Withdraw(r)
       PROVE  PanelFollowsFlow'
    BY <1>12 DEF PhoneAnswers, Withdraw
<1>. QED BY <1>1, <1>2, <1>3, <1>4, <1>5, <1>6, <1>7, <1>8, <1>9, <1>10, <1>11, <1>12 DEF Next

\* Whoever stops waiting for a record has it withdrawn.
LEMMA PromptNext == TypeOK /\ NoForgottenPrompt /\ [Next]_vars => NoForgottenPrompt'
<1> SUFFICES ASSUME TypeOK /\ NoForgottenPrompt, [Next]_vars PROVE NoForgottenPrompt'
    OBVIOUS
<1> USE PhoneAssumption DEF TypeOK, FlowsNumbered, NoForgottenPrompt, Types, Phases, Stages, Alive, controller, tasks, device, backend, Stale, Apply, Goto, Flows, Records
<1>1. CASE UNCHANGED vars
    BY <1>1 DEF vars, controller, tasks, device, backend
<1>2. CASE Start
    BY <1>2 DEF Start, Begin
<1>3. CASE Startup
  <2>1. UNCHANGED <<pairId, settled, withdrawing, made, record, lost>>
    BY <1>3 DEF Startup, Begin
  <2>2. CASE Begin("startup")
    BY <2>1, <2>2 DEF Begin
  <2>3. CASE UNCHANGED <<controller, tasks, command, withdrawing, device, child, backend>>
    BY <2>1, <2>3
  <2>. QED BY <1>3, <2>2, <2>3 DEF Startup
<1>4. CASE Cancel
    BY <1>4 DEF Cancel, CancelCurrent
<1>5. CASE Restart
    BY <1>5 DEF Restart
<1>6. ASSUME NEW c \in Commands,
             SwitchOff(c) \/ SwitchOffDaemon(c) \/ SwitchOffAutostart(c) \/ CommandDropped(c)
      PROVE  NoForgottenPrompt'
  <2>1. CASE SwitchOff(c)
    BY <2>1 DEF SwitchOff, CancelCurrent
  <2>2. CASE SwitchOffDaemon(c)
    BY <2>2 DEF SwitchOffDaemon, MayFail
  <2>3. CASE SwitchOffAutostart(c)
    BY <2>3 DEF SwitchOffAutostart, MayFail
  <2>4. CASE CommandDropped(c)
    BY <2>4 DEF CommandDropped
  <2>. QED BY <1>6, <2>1, <2>2, <2>3, <2>4
<1>7. ASSUME NEW f \in Flows, FlowStep(f) PROVE NoForgottenPrompt'
  <2>1. CASE Ensure(f)
    <3>1. PICK s \in {"ended", "status"} : flow' = [flow EXCEPT ![f] = s]
      BY <2>1, EnsureEffect
    <3>2. flow[f] \notin {"pair", "unused"} /\ UNCHANGED <<pairId, settled, withdrawing, record, lost>>
      BY <2>1, EnsureEffect
    <3>. QED BY <3>1, <3>2
  <2>2. CASE Status(f)
    BY <2>2 DEF Status
  <2>3. CASE Check(f)
    BY <2>3 DEF Check
  <2>4. CASE DaemonStatus(f)
    BY <2>4 DEF DaemonStatus
  <2>5. CASE DaemonStart(f)
    <3>1. PICK s \in {"ended", "recheck"} : flow' = [flow EXCEPT ![f] = s]
      BY <2>5, DaemonStartEffect
    <3>2. flow[f] \notin {"pair", "unused"} /\ UNCHANGED <<pairId, settled, withdrawing, record, lost>>
      BY <2>5, DaemonStartEffect
    <3>. QED BY <3>1, <3>2
  <2>6. CASE Recheck(f)
    BY <2>6 DEF Recheck
  <2>7. CASE AutostartInstall(f)
    BY <2>7 DEF AutostartInstall, MayFail
  <2>. QED BY <1>7, <2>1, <2>2, <2>3, <2>4, <2>5, <2>6, <2>7 DEF FlowStep
<1>8. ASSUME NEW f \in Flows,
             PairCancelled(f) \/ PairTimedOut(f) \/ PairFailed(f) \/ PairDone(f)
      PROVE  NoForgottenPrompt'
  <2>1. CASE PairCancelled(f)
    BY <2>1 DEF PairCancelled, Leave
  <2>2. CASE PairTimedOut(f)
    BY <2>2 DEF PairTimedOut, Leave
  <2>3. CASE PairFailed(f)
    BY <2>3 DEF PairFailed, Leave
  <2>4. CASE PairDone(f)
    BY <2>4 DEF PairDone, Leave
  <2>. QED BY <1>8, <2>1, <2>2, <2>3, <2>4
<1>9. ASSUME NEW f \in Flows, PairWaiting(f) PROVE NoForgottenPrompt'
  <2>1. CASE KeyRegistered(f)
    BY <1>9, <2>1 DEF PairWaiting, KeyRegistered, Register
  <2>2. CASE KeyUnbound(f)
    BY <1>9, <2>2 DEF PairWaiting, KeyUnbound, Register
  <2>3. CASE KeyRefused(f)
    <3>1. /\ flow' = [flow EXCEPT ![f] = "ended"] /\ pairId' = [pairId EXCEPT ![f] = 0]
          /\ settled' = [settled EXCEPT ![f] = FALSE]
          /\ withdrawing \subseteq withdrawing'
          /\ ~settled[f] /\ pairId[f] # 0 => pairId[f] \in withdrawing'
      BY <2>3 DEF KeyRefused
    <3>2. CASE UNCHANGED backend
      BY <3>1, <3>2
    <3>3. CASE Register /\ made + 1 \in withdrawing' \cup lost' /\ lost \subseteq lost'
      BY <3>1, <3>3 DEF Register
    <3>. QED BY <2>3, <3>2, <3>3, Zenon DEF KeyRefused
  <2>. QED BY <1>9, <2>1, <2>2, <2>3 DEF PairWaiting
<1>10. ASSUME NEW f \in Flows, Poll(f) PROVE NoForgottenPrompt'
  <2>1. CASE PollApproved(f)
    <3>1. UNCHANGED <<withdrawing, backend>> /\ record[pairId[f]] = "approved"
      BY <1>10, <2>1 DEF Poll, PollApproved
    <3>2. /\ \A g \in Flows \ {f} : /\ flow'[g] = flow[g] /\ pairId'[g] = pairId[g]
                                   /\ settled'[g] = settled[g]
      BY <2>1 DEF PollApproved
    <3>3. ASSUME NEW r \in Records, record[r] = "pending", r \notin withdrawing \cup lost
          PROVE  \E g \in Flows : flow'[g] = "pair" /\ pairId'[g] = r /\ ~settled'[g]
      <4>1. PICK g \in Flows : flow[g] = "pair" /\ pairId[g] = r /\ ~settled[g]
        BY <3>3
      <4>2. g # f
        BY <3>1, <3>3, <4>1
      <4>. QED BY <3>2, <4>1, <4>2
    <3>. QED BY <3>1, <3>3
  <2>2. CASE PollEnded(f)
    BY <1>10, <2>2 DEF Poll, PollEnded
  <2>. QED BY <1>10, <2>1, <2>2 DEF Poll
<1>11. ASSUME NEW f \in Flows, ChildPrintsKey(f) \/ ChildPairs(f) \/ ChildFails(f)
       PROVE  NoForgottenPrompt'
  <2>. UNCHANGED <<tasks, withdrawing, backend>>
    BY <1>11 DEF ChildPrintsKey, ChildPairs, ChildFails
  <2>. QED OBVIOUS
<1>12. ASSUME NEW r \in Records, PhoneAnswers(r) \/ Withdraw(r)
       PROVE  NoForgottenPrompt'
  <2>1. CASE PhoneAnswers(r)
    BY <2>1 DEF PhoneAnswers
  <2>2. CASE Withdraw(r)
    BY <2>2 DEF Withdraw
  <2>. QED BY <1>12, <2>1, <2>2
<1>. QED BY <1>1, <1>2, <1>3, <1>4, <1>5, <1>6, <1>7, <1>8, <1>9, <1>10, <1>11, <1>12 DEF Next

-----------------------------------------------------------------------------
LEMMA InitIInv == Init => IInv
<1> SUFFICES ASSUME Init PROVE IInv
    OBVIOUS
<1> USE PhoneAssumption DEF Init, Flows, Records
<1>1. /\ launched \in BOOLEAN /\ installed \in BOOLEAN /\ paired \in BOOLEAN
      /\ follow \in BOOLEAN /\ daemon \in BOOLEAN /\ autostart \in BOOLEAN
  <2>1. installed \in BOOLEAN /\ launched = FALSE
    BY Zenon
  <2>2. paired \in BOOLEAN
    <3>1. paired \in {FALSE, installed}
      BY Zenon
    <3>. QED BY <2>1, <3>1, Zenon
  <2>3. follow \in BOOLEAN
    <3>1. follow \in {FALSE, paired}
      BY Zenon
    <3>. QED BY <2>2, <3>1, Zenon
  <2>4. daemon = follow /\ autostart = follow
    BY Zenon
  <2>. QED BY <2>1, <2>2, <2>3, <2>4, Zenon
<1>2. Types
  <2>1. /\ phase \in Phases /\ generation \in 0..MaxGen
        /\ flow \in [Flows -> Stages]
        /\ how \in [Flows -> {"none", "connect", "repair", "startup", "cancel", "off"}]
        /\ pairId \in [Flows -> 0..MaxRecords] /\ settled \in [Flows -> BOOLEAN]
    BY DEF Phases, Stages
  <2>2. /\ command \in [Commands -> {"none", "disable", "disabling", "unpair", "unpairing"}]
        /\ withdrawing \subseteq Records /\ lost \subseteq Records
        /\ child \in [Flows -> {"none", "dead", "orphan"} \cup Alive]
        /\ made \in 0..MaxRecords
        /\ record \in [Records -> {"none", "pending", "approved", "rejected", "gone"}]
    BY DEF Alive
  <2>. QED BY <1>1, <2>1, <2>2, Zenon DEF Types
<1>3. FlowsNumbered
    BY DEF FlowsNumbered, Alive
<1>4. PanelFollowsFlow /\ NoForgottenPrompt
    BY DEF PanelFollowsFlow, NoForgottenPrompt, Busy
<1>. QED BY <1>2, <1>3, <1>4 DEF IInv, TypeOK

LEMMA NextIInv == IInv /\ [Next]_vars => IInv'
    BY TypesNext, NumberedNext, PanelNext, PromptNext DEF IInv, TypeOK

\* IInv holds in every state.
THEOREM PhoneInvariant == Spec => []IInv
    BY InitIInv, NextIInv, PTL DEF Spec

\* Every variable has its type; a pair process lives and a record is waited for
\* exactly as long as the flow they belong to pairs.
THEOREM PhoneTypes == Spec => []TypeOK
    BY PhoneInvariant, PTL DEF IInv

\* A panel that shows a flow under way shows one that runs (mod.rs:304).
THEOREM PanelIsNeverLeftBusy == Spec => []PanelFollowsFlow
    BY PhoneInvariant, PTL DEF IInv

\* Every prompt that the phone can still answer is waited for or is being
\* withdrawn, unless a message about it or the launcher was lost (mod.rs:766).
THEOREM NoPromptIsForgotten == Spec => []NoForgottenPrompt
    BY PhoneInvariant, PTL DEF IInv
=============================================================================
