---------------------------- MODULE LauncherProofs ----------------------------
(***************************************************************************)
(* For any number of launcher processes: the backend follows the lock, a    *)
(* page that holds a bridge is answered, and the status file says running   *)
(* for the launcher that is.  And of the thread of the launcher that        *)
(* uploads the diagnostic log, for any number of writers and entries: it    *)
(* passes over nothing and tells the server of nothing twice without need.  *)
(***************************************************************************)
EXTENDS Launcher, DiagnosticsFlush, SequenceTheorems, WellFoundedInduction, TLAPS

(* What the three invariants rest on.  The holder of the lock and the       *)
(* primary are one and the same process; a helper runs from the step that   *)
(* starts it to the one that shuts it down, and does run at every step that *)
(* injects or watches; a page's bridge is that of such a process.           *)
Codices == [kind : {"none", "plain", "debug"}, window : BOOLEAN,
            served : Launchers \cup {NoOne}, fresh : BOOLEAN]
Types ==
    /\ pc \in [Launchers -> Steps]
    /\ lock \in Launchers \cup {NoOne}
    /\ helper \in [Launchers -> {"none", "asked", "other"}]
    /\ settings \in [enhance : BOOLEAN, proxy : BOOLEAN]
    /\ codex \in Codices

Injecting == {"inject", "bridged", "degraded", "watch", "recover", "failKill"}
MayHelp   == Injecting \cup {"launch", "plain", "idle", "failKeep", "leaving", "closing"}

LockIsPrimary == \A l \in Launchers : lock = l <=> pc[l] \in Primary
HelperWhile   == \A l \in Launchers : helper[l] # "none" => pc[l] \in MayHelp
HelperAt      == \A l \in Launchers :
                    /\ pc[l] \in Injecting => helper[l] # "none"
                    /\ pc[l] = "launch" /\ (settings.enhance \/ settings.proxy) => helper[l] # "none"
ServedAt      == \A l \in Launchers : codex.served = l => pc[l] \in {"bridged", "watch", "recover", "failKill"}

ProxyAt       == \A l \in Launchers :
                    /\ settings.proxy
                    /\ pc[l] \in {"launch", "inject", "bridged", "degraded", "plain", "watch", "idle", "recover"}
                    => helper[l] = "asked"
ServedIfThere == codex.kind = "none" => codex.served = NoOne

IInv == Types /\ LockIsPrimary /\ HelperWhile /\ HelperAt /\ ServedAt /\ ProxyAt /\ ServedIfThere

-----------------------------------------------------------------------------
(* The values Codex takes: none and newly opened ones have no bridge.       *)
LEMMA CodexValues ==
  /\ NoCodex \in Codices /\ NoCodex.served = NoOne
  /\ \A k \in {"plain", "debug"} :
        Opened(k) \in Codices /\ Opened(k).served = NoOne /\ Opened(k).kind = k
  BY DEF NoCodex, Opened, Codices

(* What an update of some of its fields keeps.                              *)
LEMMA CodexUpdates ==
  ASSUME NEW c \in Codices
  PROVE  /\ \A w \in BOOLEAN : LET d == [c EXCEPT !.window = w]
                               IN  d \in Codices /\ d.kind = c.kind /\ d.served = c.served
         /\ \A w \in BOOLEAN : LET d == [c EXCEPT !.window = w, !.served = NoOne]
                               IN  d \in Codices /\ d.kind = c.kind /\ d.served = NoOne
         /\ \A f \in BOOLEAN : LET d == [c EXCEPT !.fresh = f]
                               IN  d \in Codices /\ d.kind = c.kind /\ d.served = c.served
         /\ \A l \in Launchers, f \in BOOLEAN :
               LET d == [c EXCEPT !.served = l, !.fresh = f]
               IN  d \in Codices /\ d.kind = c.kind /\ d.served = l
         /\ LET d == [c EXCEPT !.served = NoOne]
            IN  d \in Codices /\ d.kind = c.kind /\ d.served = NoOne
  BY DEF Codices

(* The invariant holds at the start.                                        *)
LEMMA InitIInv == Init => IInv
<1> SUFFICES ASSUME Init PROVE IInv
  OBVIOUS
<1>0. codex \in Codices
  BY CodexValues DEF Init
<1>1. Types
  BY <1>0 DEF Init, Types, Steps
<1>2. codex.served = NoOne
  BY DEF Init, NoCodex, Opened
<1>3. LockIsPrimary /\ HelperWhile /\ HelperAt /\ ServedAt /\ ProxyAt /\ ServedIfThere
  BY <1>2, IdentitiesDiffer
  DEF Init, LockIsPrimary, HelperWhile, HelperAt, ServedAt, ProxyAt, ServedIfThere, Primary, Starting, Running, Ending,
      Dropping, Injecting
<1> QED BY <1>1, <1>3 DEF IInv

(* The steps at the guard: whoever takes it held nothing before, and a      *)
(* stale launcher is stopped with its helper and its lock.                  *)
LEMMA GuardIInv ==
  ASSUME IInv, NEW l \in Launchers, Guard(l) PROVE IInv'
<1> USE IdentitiesDiffer
       DEF IInv, Types, LockIsPrimary, HelperWhile, HelperAt, ServedAt, ProxyAt, ServedIfThere, Steps, Waiting, Starting,
           Running, Ending, Dropping, Primary, MayHelp, Injecting, Goto, guardVars, watchVars, appVars
<1>1. CASE GuardTaken(l)
  BY <1>1 DEF GuardTaken, TakeGuard, GuardIsFree
<1>2. CASE GuardRefused(l)
  BY <1>2 DEF GuardRefused
<1>3. CASE PortTaken(l)
  BY <1>3 DEF PortTaken, TryAgain
<1>7. CASE GuardFailed(l)
  BY <1>7 DEF GuardFailed
<1>4. CASE StaleStopped(l)
  <2>1. pc' = [k \in Launchers |-> IF k = l THEN "retry" ELSE "off"]
    BY <1>4 DEF StaleStopped
  <2>2. helper' = [k \in Launchers |-> "none"] /\ lock' = NoOne
    BY <1>4 DEF StaleStopped
  <2>3. codex' = codex /\ settings' = settings /\ codex.served \notin Launchers
    BY <1>4 DEF StaleStopped
  <2> QED BY <2>1, <2>2, <2>3
<1>5. CASE StaleKept(l)
  BY <1>5 DEF StaleKept, TryAgain
<1> QED BY <1>1, <1>2, <1>3, <1>4, <1>5, <1>7 DEF Guard

(* A second instance holds nothing; it leaves, or becomes the primary.      *)
LEMMA SecondIInv ==
  ASSUME IInv, NEW l \in Launchers, Second(l) PROVE IInv'
<1> USE IdentitiesDiffer
       DEF IInv, Types, LockIsPrimary, HelperWhile, HelperAt, ServedAt, ProxyAt, ServedIfThere, Steps, Waiting, Starting,
           Running, Ending, Dropping, Primary, MayHelp, Injecting, Goto, Gone, guardVars, watchVars, appVars
<1>1. CASE WindowActivated(l)
  BY <1>1 DEF WindowActivated
<1>2. CASE ActivationDecided(l)
  BY <1>2 DEF ActivationDecided
<1>3. CASE AppActivated(l)
  <2>1. codex' \in Codices /\ codex'.served \in {codex.served, NoOne} /\ codex'.kind # "none"
    BY <1>3, CodexValues DEF AppActivated, Codices
  <2> QED BY <1>3, <2>1 DEF AppActivated
<1>4. CASE SecondFailed(l)
  BY <1>4 DEF SecondFailed
<1>5. CASE TookOver(l)
  BY <1>5 DEF TookOver, TakeGuard, GuardIsFree
<1>6. CASE GaveUpWaiting(l)
  BY <1>6 DEF GaveUpWaiting
<1> QED BY <1>1, <1>2, <1>3, <1>4, <1>5, <1>6 DEF Second

(* The launch: the helper is up before Codex is, the injection comes after  *)
(* both, and a launch given up shuts the helper down with the Codex it      *)
(* injected.                                                                *)
LEMMA LaunchIInv ==
  ASSUME IInv, NEW l \in Launchers, Launch(l) PROVE IInv'
<1> USE IdentitiesDiffer
       DEF IInv, Types, LockIsPrimary, HelperWhile, HelperAt, ServedAt, ProxyAt, ServedIfThere, Steps, Waiting, Starting,
           Running, Ending, Dropping, Primary, MayHelp, Injecting, Goto, guardVars, watchVars, appVars
<1>1. CASE Prepared(l)
  BY <1>1 DEF Prepared
<1>2. CASE AppNotFound(l)
  BY <1>2 DEF AppNotFound
<1>3. CASE PrepareFailed(l)
  BY <1>3 DEF PrepareFailed
<1>4. CASE HelperStarted(l)
  BY <1>4 DEF HelperStarted, HelperFallbackIsSafe
<1>5. CASE HelperSkipped(l)
  BY <1>5 DEF HelperSkipped
<1>6. CASE CodexLaunched(l)
  <2>1. codex' \in Codices /\ codex'.served \in {codex.served, NoOne} /\ codex'.kind # "none"
    <3>1. CASE codex' = [codex EXCEPT !.window = TRUE] /\ codex.kind = "debug"
      BY <3>1 DEF Codices
    <3>2. CASE \E k \in {"debug", "plain"} : codex' = Opened(k)
      BY <3>2, CodexValues
    <3> QED BY <1>6, <3>1, <3>2 DEF CodexLaunched
  <2>2. CASE settings.enhance
    BY <1>6, <2>1, <2>2 DEF CodexLaunched
  <2>3. CASE ~settings.enhance
    BY <1>6, <2>1, <2>3 DEF CodexLaunched
  <2> QED BY <2>2, <2>3
<1>7. CASE LaunchFailed(l)
  BY <1>7, CodexValues DEF LaunchFailed
<1>8. CASE Injected(l)
  <2>1. codex' \in Codices /\ codex'.served = l /\ codex'.kind # "none"
    BY <1>8 DEF Injected, Codices
  <2> QED BY <1>8, <2>1 DEF Injected
<1>9. CASE InjectionExhausted(l)
  BY <1>9 DEF InjectionExhausted
<1>10. CASE StatusSaved(l)
  BY <1>10 DEF StatusSaved
<1>11. CASE StatusNotSaved(l)
  BY <1>11 DEF StatusNotSaved
<1>12. CASE LaunchGivenUp(l)
  BY <1>12, CodexValues DEF LaunchGivenUp, CountersReset
<1> QED BY <1>1, <1>2, <1>3, <1>4, <1>5, <1>6, <1>7, <1>8, <1>9, <1>10, <1>11, <1>12 DEF Launch

(* The watchdog serves a page in its own name only, and kills Codex before  *)
(* it hands over.                                                           *)
LEMMA WatchIInv ==
  ASSUME IInv, NEW l \in Launchers,
         Tick(l) \/ Recover(l) \/ PanelRestarts(l) \/ PanelQuits(l) \/ ExitPolled(l)
  PROVE  IInv'
<1> USE IdentitiesDiffer
       DEF IInv, Types, LockIsPrimary, HelperWhile, HelperAt, ServedAt, ProxyAt, ServedIfThere, Steps, Waiting, Starting,
           Running, Ending, Dropping, Primary, MayHelp, Injecting, Goto, guardVars, watchVars, appVars
<1>1. CASE TickHealthy(l)
  BY <1>1 DEF TickHealthy
<1>2. CASE TickIndeterminate(l)
  BY <1>2 DEF TickIndeterminate
<1>3. CASE TickDeferred(l)
  BY <1>3 DEF TickDeferred
<1>4. CASE TickReinjected(l)
  <2>1. codex' \in Codices /\ codex'.served = l /\ codex'.kind # "none"
    BY <1>4 DEF TickReinjected, Codices
  <2> QED BY <1>4, <2>1 DEF TickReinjected, Unhealthy
<1>5. CASE TickFailed(l)
  <2>1. codex' \in Codices /\ codex'.served = codex.served /\ codex'.kind = codex.kind
    BY <1>5, CodexUpdates DEF TickFailed
  <2>2. pc[l] = "watch" /\ \E s \in {"recover", "watch"} : pc' = [pc EXCEPT ![l] = s]
    BY <1>5 DEF TickFailed, Unhealthy
  <2>3. UNCHANGED <<lock, helper, settings>>
    BY <1>5 DEF TickFailed
  <2> HIDE DEF Codices
  <2> QED BY <2>1, <2>2, <2>3
<1>6. CASE Recovered(l)
  BY <1>6, CodexValues DEF Recovered, HandedOver
<1>7. CASE RecoveryFailed(l)
  BY <1>7, CodexValues DEF RecoveryFailed
<1>8. CASE PanelRestarts(l)
  BY <1>8, CodexValues DEF PanelRestarts, HandedOver
<1>9. CASE PanelQuits(l)
  BY <1>9, CodexValues DEF PanelQuits
<1>10. CASE ExitPolled(l)
  <2>1. pc[l] \in Running
    BY <1>10 DEF ExitPolled
  <2>2. UNCHANGED <<lock, helper, settings, codex>>
    BY <1>10 DEF ExitPolled
  <2>0. \/ pc' = [pc EXCEPT ![l] = "closing"] /\ codex.kind = "none"
        \/ pc' = [pc EXCEPT ![l] = pc[l]]
    <3>1. CASE codex.kind = "none"
      BY <1>10, <3>1 DEF ExitPolled
    <3>2. CASE codex.kind # "none"
      <4>1. ~(0 >= EmptyPolls)
        BY ThresholdsPositive
      <4>2. streak' = 0
        BY <1>10, <3>2 DEF ExitPolled
      <4>3. pc' = [pc EXCEPT ![l] = pc[l]]
        BY <1>10, <4>1, <4>2 DEF ExitPolled
      <4> QED BY <4>3
    <3> QED BY <3>1, <3>2
  <2>3. CASE pc' = [pc EXCEPT ![l] = "closing"] /\ codex.kind = "none"
    <3>1. pc' \in [Launchers -> Steps] /\ pc'[l] = "closing"
      BY <2>3
    <3>2. \A k \in Launchers \ {l} : pc'[k] = pc[k]
      BY <2>3
    <3>3. Types' /\ LockIsPrimary'
      BY <2>1, <2>2, <3>1, <3>2
    <3>4. HelperWhile' /\ HelperAt' /\ ProxyAt'
      BY <2>1, <2>2, <3>1, <3>2
    <3>5. ServedAt' /\ ServedIfThere'
      BY <2>2, <2>3
    <3> QED BY <3>3, <3>4, <3>5
  <2>4. CASE pc' = [pc EXCEPT ![l] = pc[l]]
    <3>1. pc' = pc
      BY <2>4
    <3> QED BY <2>2, <3>1
  <2> QED BY <2>0, <2>3, <2>4
<1> QED BY <1>1, <1>2, <1>3, <1>4, <1>5, <1>6, <1>7, <1>8, <1>9, <1>10 DEF Tick, Recover

(* The way out: the helper goes before the lock.                            *)
LEMMA ExitIInv ==
  ASSUME IInv, NEW l \in Launchers, Exit(l) PROVE IInv'
<1> USE IdentitiesDiffer
       DEF IInv, Types, LockIsPrimary, HelperWhile, HelperAt, ServedAt, ProxyAt, ServedIfThere, Steps, Waiting, Starting,
           Running, Ending, Dropping, Primary, MayHelp, Injecting, Goto, Gone, guardVars, watchVars, appVars
<1>1. CASE LeftAtOnce(l)
  BY <1>1 DEF LeftAtOnce
<1>2. CASE HelperShutDown(l)
  BY <1>2 DEF HelperShutDown
<1>3. CASE LockDropped(l)
  BY <1>3 DEF LockDropped
<1>4. CASE PortDropped(l)
  BY <1>4 DEF PortDropped
<1>5. CASE FailureRecorded(l)
  BY <1>5 DEF FailureRecorded
<1> QED BY <1>1, <1>2, <1>3, <1>4, <1>5 DEF Exit

(* Codex comes and goes: it never takes up a bridge by itself.              *)
LEMMA OutsideIInv ==
  ASSUME IInv, CodexActs \/ OldLeaves PROVE IInv'
<1> USE IdentitiesDiffer
       DEF IInv, Types, LockIsPrimary, HelperWhile, HelperAt, ServedAt, ProxyAt, ServedIfThere, guardVars, watchVars, appVars
<1>1. CASE CodexActs
  <2>1. codex' \in Codices
    <3>1. CASE CodexOpened
      BY <3>1, CodexValues DEF CodexOpened
    <3>2. CASE CodexRelaunched
      <4>1. PICK k \in {"debug", "plain"} :
              codex' = [Opened(k) EXCEPT !.fresh = k = "debug" /\ \E l \in Launchers : pc[l] = "watch"]
        BY <3>2 DEF CodexRelaunched
      <4>2. (k = "debug" /\ \E l \in Launchers : pc[l] = "watch") \in BOOLEAN
        OBVIOUS
      <4>3. Opened(k) \in Codices
        BY CodexValues
      <4> HIDE DEF Types
      <4> QED BY <4>1, <4>2, <4>3 DEF Codices
    <3>3. CASE CodexClosing
      BY <3>3, CodexUpdates DEF CodexClosing
    <3>4. CASE CodexClosed
      BY <3>4, CodexValues DEF CodexClosed
    <3>5. CASE PageReloaded
      BY <3>5, CodexUpdates DEF PageReloaded
    <3> QED BY <1>1, <3>1, <3>2, <3>3, <3>4, <3>5 DEF CodexActs
  <2>2. codex'.served = NoOne
    <3>1. CASE CodexOpened
      BY <3>1, CodexValues DEF CodexOpened
    <3>2. CASE CodexRelaunched
      <4>1. PICK k \in {"debug", "plain"} :
              codex' = [Opened(k) EXCEPT !.fresh = k = "debug" /\ \E l \in Launchers : pc[l] = "watch"]
        BY <3>2 DEF CodexRelaunched
      <4>2. (k = "debug" /\ \E l \in Launchers : pc[l] = "watch") \in BOOLEAN
        OBVIOUS
      <4>3. Opened(k) \in Codices /\ Opened(k).served = NoOne
        BY CodexValues
      <4> HIDE DEF Types
      <4> QED BY <4>1, <4>2, <4>3 DEF Codices
    <3>3. CASE CodexClosing
      BY <3>3, CodexUpdates DEF CodexClosing
    <3>4. CASE CodexClosed
      BY <3>4, CodexValues DEF CodexClosed
    <3>5. CASE PageReloaded
      BY <3>5, CodexUpdates DEF PageReloaded
    <3> QED BY <1>1, <3>1, <3>2, <3>3, <3>4, <3>5 DEF CodexActs
  <2>3. UNCHANGED <<pc, lock, helper, settings>>
    BY <1>1 DEF CodexActs
  <2> QED BY <2>1, <2>2, <2>3
<1>2. CASE OldLeaves
  BY <1>2 DEF OldLeaves
<1> QED BY <1>1, <1>2

LEMMA StartIInv ==
  ASSUME IInv, NEW l \in Launchers, UserStarts(l) PROVE IInv'
  BY IdentitiesDiffer
  DEF IInv, Types, LockIsPrimary, HelperWhile, HelperAt, ServedAt, ProxyAt, ServedIfThere, Steps, Waiting, Starting,
      Running, Ending, Dropping, Primary, MayHelp, Injecting, Goto, guardVars, watchVars, appVars, UserStarts

LEMMA StepIInv == IInv /\ [Next]_vars => IInv'
<1> SUFFICES ASSUME IInv, [Next]_vars PROVE IInv'
  OBVIOUS
<1>1. CASE UNCHANGED vars
  BY <1>1 DEF vars, guardVars, watchVars, appVars, IInv, Types, LockIsPrimary, HelperWhile, HelperAt,
              ServedAt, ProxyAt, ServedIfThere
<1>2. CASE Next
  BY <1>2, StartIInv, GuardIInv, SecondIInv, LaunchIInv, WatchIInv, ExitIInv, OutsideIInv DEF Next
<1> QED BY <1>1, <1>2

LEMMA AlwaysIInv == Spec => []IInv
<1>1. Init => IInv
  BY InitIInv
<1>2. IInv /\ [Next]_vars => IInv'
  BY StepIInv
<1> QED BY <1>1, <1>2, PTL DEF Spec

(* A page that holds a bridge is answered by a launcher that runs, or its   *)
(* Codex is about to be terminated by that launcher.                        *)
THEOREM BridgeIsAnswered == Spec => []ServedByLive
<1>1. IInv => ServedByLive
  BY DEF IInv, HelperAt, ServedAt, ServedByLive, Injecting, Running
<1> QED BY <1>1, AlwaysIInv, PTL

(* While the protocol proxy is on, a launcher that runs has the port that   *)
(* Codex knows from its configuration.                                      *)
THEOREM ProxyIsReachable == Spec => []ProxyPortKept
<1>1. IInv => ProxyPortKept
  BY DEF IInv, ProxyAt, ProxyPortKept, Running
<1> QED BY <1>1, AlwaysIInv, PTL
-----------------------------------------------------------------------------
(* The status and the counters, which need the lock's invariant but not the *)
(* other way round.  The status that a launcher has written as it began to  *)
(* run stays until it runs no more, but for the failures at the guard:      *)
(* nobody else is the primary, and a failed launch that records itself      *)
(* after it gave the guard back has done so by then.  A watchdog that has   *)
(* killed Codex once counts past the threshold, and past it the user knows. *)
Reporting   == Running \cup {"recover"}
RecordsLate == {"portFail", "late"}

OtherTypes ==
    /\ heir \subseteq Launchers
    /\ guardPort \in Launchers \cup {NoOne, Old, Reserved}
    /\ told \subseteq Launchers
    /\ status \in [by : Launchers \cup {NoOne}, kind : {"none", "running", "degraded", "failed", "noGuard"}]
Counters ==
    /\ fails \in 0 .. RecoverAfter + 1
    /\ health \in 0 .. HealthThreshold
    /\ streak \in 0 .. EmptyPolls
    /\ mended \in 0 .. 1
CountersAt ==
    \A l \in Launchers :
       /\ pc[l] = "bridged" => mended = 0 /\ fails = 0
       /\ pc[l] = "watch" /\ mended = 1 => fails >= RecoverAfter
       /\ pc[l] = "watch" /\ fails >= RecoverAfter => l \in told
       /\ pc[l] = "recover" => mended = 0 /\ fails = RecoverAfter
       /\ pc[l] \in Reporting => streak < EmptyPolls
StatusAt ==
    \A l \in Launchers :
       pc[l] \in Reporting => /\ OwnStatus(l) \/ status.kind = "noGuard"
                              /\ \A k \in Launchers : pc[k] \notin RecordsLate
SInv == OtherTypes /\ Counters /\ CountersAt /\ StatusAt

(* Two processes are never the primary at the same time.                    *)
LEMMA OnePrimary ==
  ASSUME IInv, NEW l \in Launchers, NEW k \in Launchers, pc[l] \in Primary, pc[k] \in Primary
  PROVE  l = k
  BY IdentitiesDiffer DEF IInv, LockIsPrimary

LEMMA InitSInv == Init => SInv
  BY ThresholdsPositive
  DEF Init, SInv, OtherTypes, Counters, CountersAt, StatusAt, Reporting, Running

(* Whoever waits or starts leaves the status and the counters as they are;  *)
(* a stale launcher is stopped with all the others.                         *)
LEMMA GuardSInv ==
  ASSUME IInv, SInv, NEW l \in Launchers, Guard(l) \/ UserStarts(l) PROVE SInv'
<1> USE ThresholdsPositive
       DEF IInv, Types, SInv, OtherTypes, Counters, CountersAt, StatusAt, OwnStatus, Reporting, RecordsLate, Running,
           Goto, guardVars, watchVars, appVars
<1>1. CASE GuardTaken(l)
  BY <1>1 DEF GuardTaken, TakeGuard, GuardIsFree
<1>2. CASE GuardRefused(l)
  BY <1>2 DEF GuardRefused
<1>3. CASE PortTaken(l)
  BY <1>3 DEF PortTaken, TryAgain
<1>7. CASE GuardFailed(l)
  BY <1>7 DEF GuardFailed
<1>4. CASE StaleStopped(l)
  BY <1>4 DEF StaleStopped, CountersReset
<1>5. CASE StaleKept(l)
  BY <1>5 DEF StaleKept, TryAgain
<1>6. CASE UserStarts(l)
  BY <1>6 DEF UserStarts
<1> QED BY <1>1, <1>2, <1>3, <1>4, <1>5, <1>6, <1>7 DEF Guard

LEMMA SecondSInv ==
  ASSUME IInv, SInv, NEW l \in Launchers, Second(l) PROVE SInv'
<1> USE ThresholdsPositive
       DEF IInv, Types, SInv, OtherTypes, Counters, CountersAt, StatusAt, OwnStatus, Reporting, RecordsLate, Running,
           Goto, Gone, guardVars, watchVars, appVars
<1>1. CASE WindowActivated(l)
  BY <1>1 DEF WindowActivated
<1>2. CASE ActivationDecided(l)
  BY <1>2 DEF ActivationDecided
<1>3. CASE AppActivated(l)
  BY <1>3 DEF AppActivated
<1>4. CASE SecondFailed(l)
  BY <1>4 DEF SecondFailed
<1>5. CASE TookOver(l)
  BY <1>5 DEF TookOver, TakeGuard, GuardIsFree
<1>6. CASE GaveUpWaiting(l)
  BY <1>6 DEF GaveUpWaiting
<1> QED BY <1>1, <1>2, <1>3, <1>4, <1>5, <1>6 DEF Second

(* A launch writes the status as the primary, so no other runs.             *)
LEMMA LaunchSInv ==
  ASSUME IInv, SInv, NEW l \in Launchers, Launch(l) PROVE SInv'
<1>0. \A k \in Launchers : pc[l] \in Primary /\ pc[k] \in Reporting => k = l
  BY OnePrimary DEF Reporting, Primary, Ending
<1> USE ThresholdsPositive
       DEF IInv, Types, SInv, OtherTypes, Counters, CountersAt, StatusAt, OwnStatus, Reporting, RecordsLate, Running,
           Goto, guardVars, watchVars, appVars
<1>1. CASE Prepared(l)
  BY <1>1 DEF Prepared
<1>2. CASE AppNotFound(l)
  BY <1>2 DEF AppNotFound
<1>3. CASE PrepareFailed(l)
  BY <1>3 DEF PrepareFailed
<1>4. CASE HelperStarted(l)
  BY <1>4 DEF HelperStarted, HelperFallbackIsSafe
<1>5. CASE HelperSkipped(l)
  BY <1>5 DEF HelperSkipped
<1>6. CASE CodexLaunched(l)
  BY <1>6 DEF CodexLaunched
<1>7. CASE LaunchFailed(l)
  BY <1>7 DEF LaunchFailed
<1>8. CASE Injected(l)
  <2>1. \A k \in Launchers : pc[k] \in Reporting => k = l
    BY <1>0, <1>8 DEF Injected, Primary, Starting
  <2> QED BY <1>8, <2>1 DEF Injected
<1>9. CASE InjectionExhausted(l)
  BY <1>9 DEF InjectionExhausted
<1>10. CASE StatusSaved(l)
  <2>1. \A k \in Launchers : pc[k] \in Reporting => k = l
    BY <1>0, <1>10 DEF StatusSaved, Primary, Starting
  <2>2. pc[l] = "bridged" => mended = 0
    OBVIOUS
  <2>3. \A k \in Launchers \ {l} : pc'[k] = pc[k]
    BY <1>10 DEF StatusSaved
  <2>4. pc'[l] = (IF pc[l] = "bridged" THEN "watch" ELSE "idle") /\ pc' \in [Launchers -> Steps]
    BY <1>10 DEF StatusSaved, Steps
  <2>5. /\ status'.by = l /\ status'.kind \in {"running", "degraded"} /\ streak' = 0
        /\ status' \in [by : Launchers \cup {NoOne}, kind : {"none", "running", "degraded", "failed", "noGuard"}]
    BY <1>10 DEF StatusSaved
  <2>6. OtherTypes' /\ Counters'
    BY <1>10, <2>5 DEF StatusSaved
  <2>7. CountersAt'
    BY <1>10, <2>1, <2>2, <2>3, <2>4, <2>5 DEF StatusSaved
  <2>8. StatusAt'
    BY <1>10, <2>1, <2>3, <2>4, <2>5 DEF StatusSaved, LateWriteIsQuick
  <2> QED BY <2>6, <2>7, <2>8
<1>11. CASE StatusNotSaved(l)
  BY <1>11 DEF StatusNotSaved
<1>12. CASE LaunchGivenUp(l)
  <2>1. \A k \in Launchers : pc[k] \in Reporting => k = l
    BY <1>0, <1>12 DEF LaunchGivenUp, Primary, Ending
  <2> QED BY <1>12, <2>1 DEF LaunchGivenUp, CountersReset
<1> QED BY <1>1, <1>2, <1>3, <1>4, <1>5, <1>6, <1>7, <1>8, <1>9, <1>10, <1>11, <1>12 DEF Launch

(* The watchdog and the exit monitor count for the one process that runs.   *)
LEMMA WatchSInv ==
  ASSUME IInv, SInv, NEW l \in Launchers,
         Tick(l) \/ Recover(l) \/ PanelRestarts(l) \/ PanelQuits(l) \/ ExitPolled(l)
  PROVE  SInv'
<1>0. \A k \in Launchers : pc[l] \in Primary /\ pc[k] \in Reporting \cup {"bridged"} => k = l
  BY OnePrimary DEF Reporting, Primary, Ending, Starting
<1>00. \A k \in Launchers : pc[l] \in Reporting /\ pc[k] \in Reporting \cup {"bridged"} => k = l
  BY <1>0 DEF Primary, Reporting, Ending
<1> USE ThresholdsPositive
       DEF IInv, Types, SInv, OtherTypes, Counters, CountersAt, StatusAt, OwnStatus, Reporting, RecordsLate, Running,
           Goto, guardVars, watchVars, appVars
<1>1. CASE TickHealthy(l)
  BY <1>1, <1>00 DEF TickHealthy, Usable
<1>2. CASE TickIndeterminate(l)
  BY <1>2, <1>00 DEF TickIndeterminate, Usable
<1>h. NewHealth \in 0 .. HealthThreshold
  BY DEF NewHealth
<1>3. CASE TickDeferred(l)
  BY <1>3, <1>h, <1>00 DEF TickDeferred, Usable, Unhealthy
<1>4. CASE TickReinjected(l)
  BY <1>4, <1>h, <1>00 DEF TickReinjected, Usable, Unhealthy
<1>5. CASE TickFailed(l)
  <2>1. pc[l] = "watch" /\ health' \in 0 .. HealthThreshold
    BY <1>5, <1>h DEF TickFailed, Unhealthy
  <2>2. \A k \in Launchers : pc[k] \in Reporting \cup {"bridged"} => k = l
    BY <1>00, <2>1
  <2>3. fails' = (IF fails <= RecoverAfter THEN fails + 1 ELSE fails)
    BY <1>5 DEF TickFailed
  <2>4. pc' = [pc EXCEPT ![l] = IF fails' = RecoverAfter THEN "recover" ELSE "watch"]
    BY <1>5 DEF TickFailed, ShouldRecover
  <2>5. UNCHANGED <<heir, guardPort, streak, status, told, mended>>
    BY <1>5 DEF TickFailed
  <2>6. OtherTypes' /\ Counters'
    BY <2>1, <2>3, <2>5
  <2>7. CountersAt'
    BY <2>1, <2>2, <2>3, <2>4, <2>5
  <2>8. StatusAt'
    BY <2>1, <2>2, <2>4, <2>5
  <2> QED BY <2>6, <2>7, <2>8
<1>6. CASE Recovered(l)
  BY <1>6, <1>00 DEF Recovered, HandedOver
<1>7. CASE RecoveryFailed(l)
  BY <1>7, <1>00 DEF RecoveryFailed
<1>8. CASE PanelRestarts(l)
  BY <1>8, <1>00 DEF PanelRestarts, HandedOver
<1>9. CASE PanelQuits(l)
  BY <1>9, <1>00 DEF PanelQuits
<1>10. CASE ExitPolled(l)
  <2>1. pc[l] \in Running
    BY <1>10 DEF ExitPolled
  <2>2. \A k \in Launchers : pc[k] \in Reporting \cup {"bridged"} => k = l
    BY <1>00, <2>1
  <2>3. streak' \in 0 .. EmptyPolls
    BY <1>10, <2>1 DEF ExitPolled
  <2>4. pc' = [pc EXCEPT ![l] = IF streak' >= EmptyPolls THEN "closing" ELSE pc[l]]
    BY <1>10 DEF ExitPolled
  <2>5. UNCHANGED <<heir, guardPort, fails, health, status, told, mended>>
    BY <1>10 DEF ExitPolled
  <2>6. OtherTypes' /\ Counters'
    BY <2>3, <2>5
  <2>7. CountersAt'
    BY <2>1, <2>2, <2>3, <2>4, <2>5
  <2>8. StatusAt'
    BY <2>1, <2>2, <2>4, <2>5
  <2> QED BY <2>6, <2>7, <2>8
<1> QED BY <1>1, <1>2, <1>3, <1>4, <1>5, <1>6, <1>7, <1>8, <1>9, <1>10 DEF Tick, Recover

(* A process on its way out was the primary until it gave the lock back;    *)
(* a failure is recorded late only while nobody reports.                    *)
LEMMA ExitSInv ==
  ASSUME IInv, SInv, NEW l \in Launchers, Exit(l) PROVE SInv'
<1>0. \A k \in Launchers : pc[l] \in Primary /\ pc[k] \in Reporting \cup {"bridged"} => k = l
  BY OnePrimary DEF Reporting, Primary, Ending, Starting
<1> USE ThresholdsPositive
       DEF IInv, Types, SInv, OtherTypes, Counters, CountersAt, StatusAt, OwnStatus, Reporting, RecordsLate, Running,
           Goto, Gone, guardVars, watchVars, appVars
<1>1. CASE LeftAtOnce(l)
  BY <1>0, <1>1 DEF LeftAtOnce, CountersReset, Primary, Ending
<1>2. CASE HelperShutDown(l)
  BY <1>0, <1>2 DEF HelperShutDown, CountersReset, Primary, Ending
<1>3. CASE LockDropped(l)
  BY <1>0, <1>3 DEF LockDropped, Primary, Dropping
<1>4. CASE PortDropped(l)
  BY <1>4 DEF PortDropped
<1>5. CASE FailureRecorded(l)
  BY <1>5 DEF FailureRecorded
<1> QED BY <1>1, <1>2, <1>3, <1>4, <1>5 DEF Exit

LEMMA StepSInv == IInv /\ SInv /\ [Next]_vars => SInv'
<1> SUFFICES ASSUME IInv, SInv, [Next]_vars PROVE SInv'
  OBVIOUS
<1>1. CASE UNCHANGED vars
  BY <1>1 DEF vars, guardVars, watchVars, appVars, SInv, OtherTypes, Counters, CountersAt, StatusAt,
              OwnStatus
<1>2. CASE CodexActs \/ OldLeaves
  BY <1>2 DEF CodexActs, OldLeaves, guardVars, watchVars, appVars, SInv, OtherTypes, Counters, CountersAt,
              StatusAt, OwnStatus
<1> QED BY <1>1, <1>2, GuardSInv, SecondSInv, LaunchSInv, WatchSInv, ExitSInv DEF Next

LEMMA AlwaysSInv == Spec => []SInv
<1>1. Init => SInv
  BY InitSInv
<1>2. IInv /\ SInv /\ [Next]_vars => SInv'
  BY StepSInv
<1> QED BY <1>1, <1>2, AlwaysIInv, PTL DEF Spec

(* A process is rid of its helper and its watchdog before it gives the lock *)
(* to the next one, however its launch or its run ends; and that watchdog   *)
(* kills Codex once at most in one run of failures, and has told the user   *)
(* when it does not stop there.                                             *)
THEOREM BackendFollowsTheLock == Spec => []BackendHoldsLock
<1>1. IInv => \A l \in Launchers : (helper[l] # "none" \/ pc[l] \in Primary) => lock = l
  BY DEF IInv, LockIsPrimary, HelperWhile, MayHelp, Injecting, Primary, Starting, Running, Ending, Dropping
<1>2. SInv => RecoversOnce
  BY DEF SInv, Counters, CountersAt, RecoversOnce
<1>3. IInv /\ SInv => BackendHoldsLock
  BY <1>1, <1>2 DEF BackendHoldsLock
<1> QED BY <1>3, AlwaysIInv, AlwaysSInv, PTL

(* A second instance that reads the status learns of the launcher that runs, *)
(* or of a process that could not have the guard at all: neither a launch    *)
(* that fails at the same time nor the one before nor a second instance that *)
(* fails replaces it.                                                        *)
THEOREM StatusIsTheRunningLaunchers == Spec => []StatusOfPrimary
<1>1. IInv /\ SInv => TypeOK
  BY DEF IInv, Types, Codices, SInv, OtherTypes, Counters, TypeOK
<1>2. IInv /\ SInv => StatusOfPrimary
  BY <1>1 DEF SInv, StatusAt, Reporting, OwnStatus, StatusOfPrimary
<1> QED BY <1>1, <1>2, AlwaysIInv, AlwaysSInv, PTL

(*****************************************************************************)
(* The upload of the diagnostic log, which a thread of the launcher does.     *)
(*****************************************************************************)

(* The bytes of the file, what a writer and what the flusher hold.            *)
Bytes == All \cup {Newline}
WriterStates ==
    [at : {"idle", "open", "replace", "line", "newline"}, pending : Seq(All), on : Nat, tail : Seq(Bytes)]
FlusherStates ==
    [at : {"wait", "off", "lines", "save"}, bytes : Seq(Bytes), on : Nat, start : Nat, consumed : Nat,
     cursor : Nat, seen : SUBSET {Kind[e] : e \in All}, uploaded : Nat, sent : SUBSET All]

LogTypes ==
    /\ log \in Seq(Bytes) /\ gen \in Nat /\ mark \in Nat /\ todo \subseteq Entries
    /\ wr \in [Writers -> WriterStates] /\ fl \in FlusherStates
    /\ heard \in [All -> 0 .. 2] /\ refused \subseteq All
    /\ stale \in BOOLEAN /\ excused \subseteq All /\ unsure \subseteq All

(* A writer has something to write, and no file that is not there yet.        *)
WritersInv ==
    \A w \in Writers : wr[w].on <= gen /\ (wr[w].at # "idle" => wr[w].pending # << >>)

(* Where a line begins; the lines up to a place are dealt with.               *)
AtLine(text, i) == i = 0 \/ (i \in DOMAIN text /\ text[i] = Newline)
Done == excused \cup {e \in All : Settled(e)}
Dealt(text, upto, done) == \A l \in Lines(text) : l[3] <= upto /\ l[1] \in Reportable => l[1] \in done
Prefix(p, t) == Len(p) <= Len(t) /\ \A i \in 1 .. Len(p) : p[i] = t[i]

(* The watermark, unless the file was cut since it was saved.                 *)
MarkInv == stale \/ (AtLine(log, mark) /\ Dealt(log, mark, Done))

(* The round under way: it reads a file that was there when it began, from    *)
(* the beginning of a line or, with a stale watermark, from the middle of one *)
(* that is excused.                                                           *)
InRound == fl.at \in {"lines", "save"}
Excuses(text, start, done) == AtLine(text, start) \/ \A l \in Lines(text) : l[2] <= start => l[1] \in done
KindsSeen == \A k \in fl.seen : \E d \in All : Kind[d] = k /\ (heard[d] > 0 \/ d \in refused)
RoundInv ==
    /\ fl.on <= gen
    /\ fl.start <= fl.consumed /\ fl.consumed = fl.cursor /\ fl.cursor <= Len(fl.bytes)
    /\ InRound =>
        /\ fl.on # gen => stale
        /\ fl.on = gen => Prefix(fl.bytes, log)
        /\ fl.consumed # fl.start => AtLine(fl.bytes, fl.consumed)
        /\ Excuses(fl.bytes, fl.start, Done)
        /\ Dealt(fl.bytes, fl.consumed, Done)
    /\ fl.at = "lines" => KindsSeen

FlushInv == LogTypes /\ WritersInv /\ MarkInv /\ RoundInv

(* The end of a line is the first newline behind its beginning.               *)
LEMMA LineEndIsLeast ==
    ASSUME NEW text \in Seq(Bytes), NEW from \in Nat, NewlinesAfter(text, from) # {}
    PROVE  /\ LineEnd(text, from) \in NewlinesAfter(text, from)
           /\ \A j \in NewlinesAfter(text, from) : LineEnd(text, from) <= j
  <1> DEFINE R == OpToRel(<, Nat)
             ends == NewlinesAfter(text, from)
  <1>1. IsWellFoundedOn(R, Nat)
    BY NatLessThanWellFounded
  <1>2. \A x, y \in Nat : y < x => <<y, x>> \in R
    BY DEF OpToRel
  <1>3. ends \subseteq Nat
    BY DEF NewlinesAfter
  <1> HIDE DEF R
  <1>4. \E x \in ends : \A y \in ends : ~ (<<y, x>> \in R)
    <2> HIDE DEF ends
    <2> QED BY <1>1, <1>3, WFMin DEF ends
  <1>5. PICK x \in ends : \A y \in ends : ~ (<<y, x>> \in R)
    BY <1>4
  <1>6. ASSUME NEW y \in ends PROVE x <= y
    <2>1. ~ (<<y, x>> \in R) /\ x \in Nat /\ y \in Nat
      BY <1>3, <1>5
    <2>2. ~ (y < x)
      BY <1>2, <2>1
    <2> QED BY <2>1, <2>2
  <1> QED BY <1>6 DEF LineEnd

(* It is the only one that no other newline behind the beginning precedes.    *)
LEMMA LineEndIs ==
    ASSUME NEW text \in Seq(Bytes), NEW from \in Nat, NEW z \in NewlinesAfter(text, from),
           \A j \in NewlinesAfter(text, from) : z <= j
    PROVE  LineEnd(text, from) = z
  <1>1. /\ LineEnd(text, from) \in NewlinesAfter(text, from)
        /\ \A j \in NewlinesAfter(text, from) : LineEnd(text, from) <= j
    BY LineEndIsLeast
  <1>2. NewlinesAfter(text, from) \subseteq Nat
    BY DEF NewlinesAfter
  <1> QED BY <1>1, <1>2

(* A line of a text: where it begins, where it ends and what it says.         *)
IsLine(text, e, i, z) ==
    /\ AtLine(text, i)
    /\ z \in NewlinesAfter(text, i) /\ \A j \in NewlinesAfter(text, i) : z <= j
    /\ e \in EntriesOf(SubSeq(text, i + 1, z - 1))

(* Lines is the set of them.                                                  *)
LEMMA LinesAre ==
    ASSUME NEW text \in Seq(Bytes), NEW l \in Lines(text)
    PROVE  \E e \in All, i \in Nat, z \in Nat : l = <<e, i + 1, z>> /\ IsLine(text, e, i, z)
  <1> DEFINE starts == {0} \cup {i \in DOMAIN text : text[i] = Newline}
  <1>1. PICK i \in starts : /\ NewlinesAfter(text, i) # {}
                            /\ l \in {<<e, i + 1, LineEnd(text, i)>> :
                                      e \in EntriesOf(SubSeq(text, i + 1, LineEnd(text, i) - 1))}
    BY DEF Lines
  <1>2. PICK e \in EntriesOf(SubSeq(text, i + 1, LineEnd(text, i) - 1)) : l = <<e, i + 1, LineEnd(text, i)>>
    BY <1>1
  <1>3. i \in Nat /\ AtLine(text, i)
    BY DEF AtLine
  <1>4. /\ LineEnd(text, i) \in NewlinesAfter(text, i)
        /\ \A j \in NewlinesAfter(text, i) : LineEnd(text, i) <= j
    BY <1>1, <1>3, LineEndIsLeast
  <1>5. LineEnd(text, i) \in Nat /\ e \in All
    BY <1>3, <1>4 DEF NewlinesAfter, EntriesOf
  <1> QED BY <1>2, <1>3, <1>4, <1>5 DEF IsLine

(* And each of them is in it.                                                 *)
LEMMA LineIsThere ==
    ASSUME NEW text \in Seq(Bytes), NEW e \in All, NEW i \in Nat, NEW z \in Nat, IsLine(text, e, i, z)
    PROVE  <<e, i + 1, z>> \in Lines(text)
  <1> DEFINE starts == {0} \cup {s \in DOMAIN text : text[s] = Newline}
  <1>1. LineEnd(text, i) = z /\ NewlinesAfter(text, i) # {}
    BY LineEndIs DEF IsLine
  <1>2. i \in starts
    BY DEF IsLine, AtLine
  <1>3. <<e, i + 1, z>> \in {<<d, i + 1, LineEnd(text, i)>> :
                             d \in EntriesOf(SubSeq(text, i + 1, LineEnd(text, i) - 1))}
    BY <1>1 DEF IsLine
  <1> QED BY <1>1, <1>2, <1>3 DEF Lines

(* Two texts that agree between two places say the same there.                *)
LEMMA SamePart ==
    ASSUME NEW p \in Seq(Bytes), NEW t \in Seq(Bytes), NEW a \in Nat, NEW b \in Int,
           1 <= a, b <= Len(p), b <= Len(t), \A i \in a .. b : p[i] = t[i]
    PROVE  SubSeq(p, a, b) = SubSeq(t, a, b)
  <1>1. \A i \in a .. b : p[i] \in Bytes /\ t[i] \in Bytes
    OBVIOUS
  <1>2. /\ SubSeq(p, a, b) \in Seq(Bytes)
        /\ Len(SubSeq(p, a, b)) = (IF a <= b THEN b - a + 1 ELSE 0)
        /\ \A i \in 1 .. b - a + 1 : SubSeq(p, a, b)[i] = p[a + i - 1]
    BY <1>1, SubSeqProperties
  <1>3. /\ SubSeq(t, a, b) \in Seq(Bytes)
        /\ Len(SubSeq(t, a, b)) = (IF a <= b THEN b - a + 1 ELSE 0)
        /\ \A i \in 1 .. b - a + 1 : SubSeq(t, a, b)[i] = t[a + i - 1]
    BY <1>1, SubSeqProperties
  <1>4. \A i \in 1 .. b - a + 1 : SubSeq(p, a, b)[i] = SubSeq(t, a, b)[i]
    <2> TAKE i \in 1 .. b - a + 1
    <2>1. a + i - 1 \in a .. b
      OBVIOUS
    <2> QED BY <1>2, <1>3, <2>1
  <1>5. \A i \in 1 .. Len(SubSeq(p, a, b)) : SubSeq(p, a, b)[i] = SubSeq(t, a, b)[i]
    BY <1>2, <1>4
  <1> QED BY <1>2, <1>3, <1>5, SeqEqual

(* The lines of a text that end in a prefix of it are lines of the prefix.    *)
LEMMA LineOfPrefix ==
    ASSUME NEW p \in Seq(Bytes), NEW t \in Seq(Bytes), Prefix(p, t),
           NEW e \in All, NEW i \in Nat, NEW z \in Nat, IsLine(t, e, i, z), z <= Len(p)
    PROVE  IsLine(p, e, i, z)
  <1>1. z \in i + 1 .. Len(p) /\ t[z] = Newline
    BY DEF IsLine, NewlinesAfter
  <1>2. p[z] = Newline
    BY <1>1 DEF Prefix
  <1>3. \A j \in NewlinesAfter(p, i) : j \in NewlinesAfter(t, i)
    BY DEF Prefix, NewlinesAfter
  <1>4. z \in NewlinesAfter(p, i) /\ \A j \in NewlinesAfter(p, i) : z <= j
    BY <1>1, <1>2, <1>3 DEF IsLine, NewlinesAfter
  <1>5. AtLine(p, i)
    BY <1>1 DEF IsLine, AtLine, Prefix
  <1>6. SubSeq(p, i + 1, z - 1) = SubSeq(t, i + 1, z - 1)
    <2>1. \A j \in i + 1 .. z - 1 : p[j] = t[j]
      BY <1>1 DEF Prefix
    <2> QED BY <1>1, <2>1, SamePart DEF Prefix
  <1> QED BY <1>4, <1>5, <1>6 DEF IsLine

(* Up to a place in a prefix, a text is dealt with when the prefix is.        *)
LEMMA DealtInPrefix ==
    ASSUME NEW p \in Seq(Bytes), NEW t \in Seq(Bytes), Prefix(p, t), NEW n \in Nat, n <= Len(p),
           NEW done, Dealt(p, n, done)
    PROVE  Dealt(t, n, done)
  <1> SUFFICES ASSUME NEW l \in Lines(t), l[3] <= n, l[1] \in Reportable
               PROVE  l[1] \in done
    BY DEF Dealt
  <1>1. PICK e \in All, i \in Nat, z \in Nat : l = <<e, i + 1, z>> /\ IsLine(t, e, i, z)
    BY LinesAre
  <1>2. z <= n /\ e \in Reportable
    BY <1>1
  <1>3. IsLine(p, e, i, z)
    BY <1>1, <1>2, LineOfPrefix
  <1>4. <<e, i + 1, z>> \in Lines(p)
    BY <1>3, LineIsThere
  <1> QED BY <1>1, <1>2, <1>4 DEF Dealt

(* The line that begins at the place to which the lines are dealt with.       *)
LEMMA LineBetween ==
    ASSUME NEW text \in Seq(Bytes), NEW c \in Nat, NewlinesAfter(text, c) # {},
           NEW e \in All, NEW i \in Nat, NEW z \in Nat, IsLine(text, e, i, z), c < z, z <= LineEnd(text, c)
    PROVE  IF AtLine(text, c) THEN e \in EntriesOf(SubSeq(text, c + 1, LineEnd(text, c) - 1)) ELSE i < c
  <1>1. /\ LineEnd(text, c) \in NewlinesAfter(text, c)
        /\ \A j \in NewlinesAfter(text, c) : LineEnd(text, c) <= j
    BY LineEndIsLeast
  <1>2. z \in NewlinesAfter(text, c)
    BY DEF IsLine, NewlinesAfter
  <1>3. z = LineEnd(text, c)
    BY <1>1, <1>2 DEF NewlinesAfter
  <1>4. i <= c
    <2> SUFFICES ASSUME c < i PROVE FALSE
      OBVIOUS
    <2>1. i < z
      BY DEF IsLine, NewlinesAfter
    <2>2. i \in NewlinesAfter(text, c)
      BY DEF IsLine, AtLine, NewlinesAfter
    <2> QED BY <1>1, <1>3, <2>1, <2>2
  <1>5. ASSUME AtLine(text, c) PROVE i = c
    <2> SUFFICES ASSUME i < c PROVE FALSE
      BY <1>4
    <2>1. c \in NewlinesAfter(text, i)
      BY <1>5 DEF AtLine, NewlinesAfter
    <2> QED BY <2>1 DEF IsLine
  <1>6. ASSUME ~ AtLine(text, c) PROVE i # c
    BY <1>6 DEF IsLine
  <1> QED BY <1>3, <1>4, <1>5, <1>6 DEF IsLine

(* An entry of a line is the whole of it.                                     *)
LEMMA OneEntry ==
    ASSUME NEW line \in Seq(Bytes), NEW d \in EntriesOf(line), NEW e \in EntriesOf(line)
    PROVE  d = e
  <1>1. line[1] = d /\ line[1] = e
    BY DEF EntriesOf, Body
  <1> QED BY <1>1

(* To pass a line is to deal with what it says; one that began before the     *)
(* place from which the round reads is excused.                               *)
LEMMA PassedIsDealt ==
    ASSUME NEW text \in Seq(Bytes), NEW start \in Nat, NEW c \in Nat, NEW done,
           start <= c, c # start => AtLine(text, c), NewlinesAfter(text, c) # {},
           Excuses(text, start, done), Dealt(text, c, done),
           \A e \in EntriesOf(SubSeq(text, c + 1, LineEnd(text, c) - 1)) \cap Reportable : e \in done
    PROVE  Dealt(text, LineEnd(text, c), done)
  <1> SUFFICES ASSUME NEW l \in Lines(text), l[3] <= LineEnd(text, c), l[1] \in Reportable
               PROVE  l[1] \in done
    BY DEF Dealt
  <1>1. PICK e \in All, i \in Nat, z \in Nat : l = <<e, i + 1, z>> /\ IsLine(text, e, i, z)
    BY LinesAre
  <1>2. l[1] = e /\ l[2] = i + 1 /\ l[3] = z
    BY <1>1
  <1>3. CASE z <= c
    BY <1>2, <1>3 DEF Dealt
  <1>4. CASE c < z /\ AtLine(text, c)
    <2>1. e \in EntriesOf(SubSeq(text, c + 1, LineEnd(text, c) - 1))
      BY <1>1, <1>2, <1>4, LineBetween
    <2> QED BY <1>2, <2>1
  <1>5. CASE c < z /\ ~ AtLine(text, c)
    <2>1. i < c
      BY <1>1, <1>2, <1>5, LineBetween
    <2>2. c = start
      BY <1>5
    <2> QED BY <1>2, <1>5, <2>1, <2>2 DEF Excuses
  <1> QED BY <1>3, <1>4, <1>5

(* What is kept of a log that is too long is a part of it.                    *)
LEMMA KeptIsText ==
    ASSUME NEW text \in Seq(Bytes), MaxBytes < Len(text)
    PROVE  KeptTail(text) \in Seq(Bytes)
  <1> DEFINE kept == SubSeq(text, Len(text) - KeptBytes + 1, Len(text))
  <1>1. KeptBytes \in Nat /\ MaxBytes \in Nat /\ KeptBytes <= MaxBytes
    BY BytesAssumption
  <1>2. kept \in Seq(Bytes)
    <2>1. \A i \in Len(text) - KeptBytes + 1 .. Len(text) : text[i] \in Bytes
      BY <1>1
    <2> QED BY <1>1, <2>1, SubSeqProperties
  <1> HIDE DEF kept
  <1>3. ASSUME NewlinesAfter(kept, 0) # {}
        PROVE  SubSeq(kept, LineEnd(kept, 0) + 1, Len(kept)) \in Seq(Bytes)
    <2>1. LineEnd(kept, 0) \in Nat
      BY <1>2, <1>3, LineEndIsLeast DEF NewlinesAfter
    <2>2. \A i \in LineEnd(kept, 0) + 1 .. Len(kept) : kept[i] \in Bytes
      BY <1>2, <2>1
    <2> QED BY <1>2, <2>1, <2>2, SubSeqProperties
  <1> QED BY <1>2, <1>3 DEF KeptTail, kept

(* What is dealt with stays so.                                               *)
LEMMA DealtByMore ==
    ASSUME NEW text, NEW n, NEW done, NEW more, done \subseteq more
    PROVE  /\ Dealt(text, n, done) => Dealt(text, n, more)
           /\ Excuses(text, n, done) => Excuses(text, n, more)
  BY DEF Dealt, Excuses

(* A state of a writer or of the flusher in which nothing is under way.       *)
LEMMA QuietStates == NotWriting \in WriterStates /\ BetweenRounds \in FlusherStates /\ Off \in FlusherStates
  <1>1. << >> \in Seq(All) /\ << >> \in Seq(Bytes)
    OBVIOUS
  <1> QED BY <1>1 DEF NotWriting, BetweenRounds, Off, WriterStates, FlusherStates

(* The log begins empty, and nothing is under way.                            *)
LEMMA InitFlushInv == DiagnosticsInit => FlushInv
  <1> SUFFICES ASSUME DiagnosticsInit PROVE FlushInv
    OBVIOUS
  <1>1. LogTypes
    <2>1. wr \in [Writers -> WriterStates] /\ fl \in FlusherStates
      BY QuietStates DEF DiagnosticsInit
    <2>2. log \in Seq(Bytes) /\ heard \in [All -> 0 .. 2]
      BY DEF DiagnosticsInit
    <2> QED BY <2>1, <2>2 DEF DiagnosticsInit, LogTypes
  <1>2. WritersInv
    <2>1. NotWriting.on = 0 /\ NotWriting.at = "idle"
      BY DEF NotWriting
    <2>2. gen = 0 /\ \A w \in Writers : wr[w] = NotWriting
      BY DEF DiagnosticsInit
    <2>3. ASSUME NEW w \in Writers PROVE wr[w].on <= gen /\ wr[w].at = "idle"
      BY <2>1, <2>2
    <2>4. ASSUME NEW w \in Writers PROVE wr[w].at # "idle" => wr[w].pending # << >>
      BY <2>3
    <2> QED BY <2>3, <2>4 DEF WritersInv
  <1>3. MarkInv
    <2>1. \A l : l \notin Lines(<< >>)
      BY DEF Lines, NewlinesAfter
    <2> QED BY <2>1 DEF DiagnosticsInit, MarkInv, AtLine, Dealt
  <1>4. RoundInv
    BY DEF DiagnosticsInit, RoundInv, InRound, BetweenRounds
  <1> QED BY <1>1, <1>2, <1>3, <1>4 DEF FlushInv

(* One writer at a time changes what it does.                                 *)
LEMMA WriterBecomes ==
    ASSUME LogTypes, NEW w \in Writers, NEW r \in WriterStates, Becomes(w, r)
    PROVE  /\ wr' \in [Writers -> WriterStates]
           /\ wr'[w] = r /\ \A v \in Writers : v # w => wr'[v] = wr[v]
  BY DEF LogTypes, Becomes

(* Who only turns to its next step leaves the rest as it is.                  *)
LEMMA WriterTurns ==
    ASSUME FlushInv, NEW w \in Writers, NEW r \in WriterStates, Becomes(w, r),
           r.on <= gen, r.at # "idle" => r.pending # << >>,
           todo' \subseteq Entries, UNCHANGED <<log, gen, mark, fl, server, history>>
    PROVE  FlushInv'
  <1>1. LogTypes'
    BY WriterBecomes DEF FlushInv, LogTypes, server, history
  <1>2. WritersInv'
    BY WriterBecomes DEF FlushInv, WritersInv
  <1>3. MarkInv'
    BY DEF FlushInv, MarkInv, Done, Settled, server, history
  <1>4. RoundInv'
    BY DEF FlushInv, RoundInv, InRound, KindsSeen, Done, Settled, server, history
  <1> QED BY <1>1, <1>2, <1>3, <1>4 DEF FlushInv

(* The steps of a writer that leave the file alone.                           *)
LEMMA QuietWriters ==
    ASSUME FlushInv, NEW w \in Writers,
           (\E e \in Entries : AppendBegins(w, e)) \/ Open(w) \/ ReadTail(w) \/ WriterDies(w)
    PROVE  FlushInv'
  <1>1. NotWriting \in WriterStates /\ wr[w] \in WriterStates /\ gen \in Nat /\ log \in Seq(Bytes)
    BY QuietStates DEF FlushInv, LogTypes
  <1>2. CASE \E e \in Entries : AppendBegins(w, e)
    <2>1. PICK e \in Entries : AppendBegins(w, e)
      BY <1>2
    <2> DEFINE r == [NotWriting EXCEPT !.at = "open", !.pending = <<e>>]
    <2>2. r \in WriterStates /\ r.on = 0 /\ r.pending # << >>
      <3>1. <<e>> \in Seq(All) /\ <<e>> # << >>
        BY DEF All
      <3> QED BY <1>1, <3>1 DEF NotWriting, WriterStates
    <2>3. Becomes(w, r) /\ todo' \subseteq Entries /\ UNCHANGED <<log, gen, mark, fl, server, history>>
      BY <2>1 DEF AppendBegins, FlushInv, LogTypes
    <2> HIDE DEF r
    <2> QED BY <1>1, <2>2, <2>3, WriterTurns
  <1>3. CASE Open(w)
    <2> DEFINE r == [wr[w] EXCEPT !.at = "line", !.on = gen]
    <2>1. r \in WriterStates /\ r.on = gen /\ r.pending # << >>
      BY <1>1, <1>3 DEF WriterStates, Open, FlushInv, WritersInv
    <2>2. Becomes(w, r) /\ todo' \subseteq Entries /\ UNCHANGED <<log, gen, mark, fl, server, history>>
      BY <1>3 DEF Open, FlushInv, LogTypes
    <2> HIDE DEF r
    <2> QED BY <1>1, <2>1, <2>2, WriterTurns
  <1>4. CASE ReadTail(w)
    <2> DEFINE r == [wr[w] EXCEPT !.at = "replace", !.tail = KeptTail(log)]
    <2>1. KeptTail(log) \in Seq(Bytes)
      BY <1>1, <1>4, KeptIsText DEF ReadTail
    <2>2. r \in WriterStates /\ r.on <= gen /\ r.pending # << >>
      BY <1>1, <1>4, <2>1 DEF WriterStates, ReadTail, FlushInv, WritersInv
    <2>3. Becomes(w, r) /\ todo' \subseteq Entries /\ UNCHANGED <<log, gen, mark, fl, server, history>>
      BY <1>4 DEF ReadTail, FlushInv, LogTypes
    <2> HIDE DEF r
    <2> QED BY <1>1, <2>2, <2>3, WriterTurns
  <1>5. CASE WriterDies(w)
    <2>1. Becomes(w, NotWriting) /\ todo' \subseteq Entries /\ UNCHANGED <<log, gen, mark, fl, server, history>>
      BY <1>5 DEF WriterDies, FlushInv, LogTypes
    <2>2. NotWriting.on = 0 /\ NotWriting.at = "idle"
      BY DEF NotWriting
    <2> QED BY <1>1, <2>1, <2>2, WriterTurns
  <1> QED BY <1>2, <1>3, <1>4, <1>5

(* A text to which more is added begins with it.                              *)
LEMMA PrefixGrows ==
    ASSUME NEW p \in Seq(Bytes), NEW t \in Seq(Bytes), NEW b \in Seq(Bytes), Prefix(p, t)
    PROVE  t \o b \in Seq(Bytes) /\ Prefix(p, t \o b)
  <1>1. /\ t \o b \in Seq(Bytes)
        /\ Len(t \o b) = Len(t) + Len(b)
        /\ \A i \in 1 .. Len(t) + Len(b) : (t \o b)[i] = IF i <= Len(t) THEN t[i] ELSE b[i - Len(t)]
    BY ConcatProperties
  <1>2. Len(p) <= Len(t \o b)
    BY <1>1 DEF Prefix
  <1>3. ASSUME NEW i \in 1 .. Len(p) PROVE p[i] = (t \o b)[i]
    <2>1. i <= Len(t) /\ i \in 1 .. Len(t) + Len(b)
      BY DEF Prefix
    <2>2. (t \o b)[i] = t[i]
      BY <1>1, <2>1
    <2> QED BY <2>2 DEF Prefix
  <1> QED BY <1>1, <1>2, <1>3 DEF Prefix

(* A place in a text is the same place in one that begins with it.            *)
LEMMA PlaceInPrefix ==
    ASSUME NEW p \in Seq(Bytes), NEW t \in Seq(Bytes), Prefix(p, t), NEW i \in Nat, AtLine(p, i)
    PROVE  AtLine(t, i) /\ i <= Len(p)
  BY DEF AtLine, Prefix

(* What is added at the end of the log changes nothing before it.             *)
LEMMA LogGrows ==
    ASSUME FlushInv, NEW w \in Writers, NEW r \in WriterStates, Becomes(w, r),
           r.on <= gen, r.at # "idle" => r.pending # << >>,
           NEW b \in Seq(Bytes), Adds(w, b), UNCHANGED <<gen, todo, mark, fl, server, history>>
    PROVE  FlushInv'
  <1>1. log \in Seq(Bytes) /\ fl.bytes \in Seq(Bytes) /\ mark \in Nat
    BY DEF FlushInv, LogTypes, FlusherStates
  <1>2. Prefix(log, log)
    BY <1>1 DEF Prefix
  <1>3. log' \in Seq(Bytes) /\ Prefix(log, log')
    BY <1>1, <1>2, PrefixGrows DEF Adds
  <1>4. LogTypes'
    BY <1>3, WriterBecomes DEF FlushInv, LogTypes, server, history
  <1>5. WritersInv'
    BY WriterBecomes DEF FlushInv, WritersInv
  <1>6. Done' = Done
    BY DEF Done, Settled, server, history
  <1>7. MarkInv'
    <2>1. CASE stale
      BY <2>1 DEF MarkInv, history
    <2>2. CASE ~ stale
      <3>1. AtLine(log, mark) /\ Dealt(log, mark, Done)
        BY <2>2 DEF FlushInv, MarkInv
      <3>2. AtLine(log', mark) /\ mark <= Len(log)
        BY <1>1, <1>3, <3>1, PlaceInPrefix
      <3>3. Dealt(log', mark, Done)
        BY <1>1, <1>3, <3>1, <3>2, DealtInPrefix
      <3> QED BY <1>6, <3>2, <3>3 DEF MarkInv
    <2> QED BY <2>1, <2>2
  <1>8. RoundInv'
    <2>1. Prefix(fl.bytes, log) => Prefix(fl.bytes, log')
      BY <1>1, PrefixGrows DEF Adds
    <2>2. KindsSeen' = KindsSeen
      BY DEF KindsSeen, server
    <2> QED BY <1>6, <2>1, <2>2 DEF FlushInv, RoundInv, InRound, history
  <1> QED BY <1>4, <1>5, <1>7, <1>8 DEF FlushInv

(* The steps that write.                                                      *)
LEMMA LoudWriters ==
    ASSUME FlushInv, NEW w \in Writers, WriteLine(w) \/ WriteNewline(w)
    PROVE  FlushInv'
  <1>1. wr[w] \in WriterStates /\ gen \in Nat /\ wr[w].on <= gen /\ NotWriting \in WriterStates
    BY QuietStates DEF FlushInv, LogTypes, WritersInv
  <1>2. wr[w].at # "idle"
    BY DEF WriteLine, WriteNewline
  <1>3. wr[w].pending \in Seq(All) /\ wr[w].pending # << >>
    BY <1>1, <1>2 DEF FlushInv, WritersInv, WriterStates
  <1>4. CASE WriteLine(w)
    <2> DEFINE r == [wr[w] EXCEPT !.at = "newline"]
    <2>1. Head(wr[w].pending) \in All
      BY <1>3, HeadTailProperties
    <2>2. Body(Head(wr[w].pending)) \in Seq(Bytes)
      BY <2>1 DEF Body, Bytes
    <2>3. r \in WriterStates /\ r.on <= gen /\ r.pending # << >>
      BY <1>1, <1>3 DEF WriterStates
    <2>4. /\ Becomes(w, r) /\ Adds(w, Body(Head(wr[w].pending)))
          /\ UNCHANGED <<gen, todo, mark, fl, server, history>>
      BY <1>4 DEF WriteLine
    <2> HIDE DEF r
    <2> QED BY <2>2, <2>3, <2>4, LogGrows
  <1>5. CASE WriteNewline(w)
    <2> DEFINE rest == Tail(wr[w].pending)
               r == IF rest = << >> THEN NotWriting ELSE [NotWriting EXCEPT !.at = "open", !.pending = rest]
    <2>1. rest \in Seq(All) /\ <<Newline>> \in Seq(Bytes)
      BY <1>3, HeadTailProperties DEF Bytes
    <2>2. Becomes(w, r) /\ Adds(w, <<Newline>>) /\ UNCHANGED <<gen, todo, mark, fl, server, history>>
      BY <1>5 DEF WriteNewline
    <2> HIDE DEF rest
    <2>3. r \in WriterStates /\ r.on <= gen /\ (r.at # "idle" => r.pending # << >>)
      <3>1. CASE rest = << >>
        BY <1>1, <3>1 DEF NotWriting
      <3>2. CASE rest # << >>
        <4>1. r = [NotWriting EXCEPT !.at = "open", !.pending = rest]
          BY <3>2
        <4>2. r.on = 0 /\ r.pending = rest
          BY <4>1 DEF NotWriting
        <4>3. r \in WriterStates
          BY <1>1, <2>1, <4>1 DEF WriterStates
        <4> QED BY <1>1, <3>2, <4>2, <4>3
      <3> QED BY <3>1, <3>2
    <2> HIDE DEF r
    <2> QED BY <2>1, <2>2, <2>3, LogGrows
  <1> QED BY <1>4, <1>5

(* A file that is replaced leaves the watermark and the round behind.         *)
LEMMA LogIsCut ==
    ASSUME FlushInv, NEW text \in Seq(Bytes), Cut(text), UNCHANGED <<todo, mark, fl, server>>,
           wr' \in [Writers -> WriterStates],
           \A w \in Writers : wr'[w].on <= gen /\ (wr'[w].at # "idle" => wr'[w].pending # << >>)
    PROVE  FlushInv'
  <1>1. gen \in Nat /\ gen' = gen + 1 /\ log' = text /\ stale'
    BY DEF FlushInv, LogTypes, Cut
  <1>2. LogTypes'
    <2>1. unsure' \subseteq All
      BY DEF FlushInv, LogTypes, FlusherStates, Cut
    <2> QED BY <1>1, <2>1 DEF FlushInv, LogTypes, Cut, server
  <1>3. WritersInv'
    <2>1. ASSUME NEW w \in Writers PROVE wr'[w].on <= gen'
      BY <1>1 DEF WriterStates
    <2> QED BY <2>1 DEF WritersInv
  <1>4. MarkInv'
    BY <1>1 DEF MarkInv
  <1>5. RoundInv'
    <2>1. fl.on \in Nat /\ fl.on <= gen /\ Done' = Done /\ KindsSeen' = KindsSeen
      BY DEF FlushInv, LogTypes, FlusherStates, RoundInv, Done, Settled, KindsSeen, server, Cut
    <2>2. fl.on # gen' /\ fl.on <= gen'
      BY <1>1, <2>1
    <2> QED BY <1>1, <2>1, <2>2 DEF FlushInv, RoundInv, InRound
  <1> QED BY <1>2, <1>3, <1>4, <1>5 DEF FlushInv

(* The compaction and the clearing.                                           *)
LEMMA CutsTheLog ==
    ASSUME FlushInv, Clear \/ \E w \in Writers : ReplaceByTail(w)
    PROVE  FlushInv'
  <1>1. CASE Clear
    <2>1. << >> \in Seq(Bytes) /\ Cut(<< >>) /\ UNCHANGED <<todo, wr, mark, fl, server>>
      BY <1>1 DEF Clear
    <2> QED BY <2>1, LogIsCut DEF FlushInv, LogTypes, WritersInv
  <1>2. CASE \E w \in Writers : ReplaceByTail(w)
    <2>1. PICK w \in Writers : ReplaceByTail(w)
      BY <1>2
    <2> DEFINE more == <<Note>> \o wr[w].pending
               r == [wr[w] EXCEPT !.at = "open", !.tail = << >>, !.pending = more]
    <2>2. wr[w] \in WriterStates /\ wr[w].on <= gen
      BY DEF FlushInv, LogTypes, WritersInv
    <2>3. <<Note>> \o wr[w].pending \in Seq(All) /\ <<Note>> \o wr[w].pending # << >>
      <3>1. <<Note>> \in Seq(All) /\ Len(<<Note>>) = 1 /\ wr[w].pending \in Seq(All)
        BY <2>2 DEF WriterStates, All
      <3>2. /\ <<Note>> \o wr[w].pending \in Seq(All)
            /\ Len(<<Note>> \o wr[w].pending) = 1 + Len(wr[w].pending)
        BY <3>1, ConcatProperties
      <3> QED BY <3>1, <3>2
    <2>4. Becomes(w, r) /\ Cut(wr[w].tail) /\ UNCHANGED <<todo, mark, fl, server>>
      BY <2>1, <2>2 DEF ReplaceByTail, WriterStates
    <2> HIDE DEF more
    <2>5. r \in WriterStates /\ r.on <= gen /\ r.pending # << >>
      <3>1. more \in Seq(All) /\ more # << >>
        BY <2>3 DEF more
      <3>2. r.on = wr[w].on /\ r.pending = more
        BY <2>2 DEF WriterStates
      <3>3. r \in WriterStates
        <4>1. << >> \in Seq(Bytes)
          OBVIOUS
        <4> QED BY <2>2, <3>1, <4>1 DEF WriterStates
      <3> QED BY <2>2, <3>1, <3>2, <3>3
    <2> HIDE DEF r
    <2>6. /\ wr' \in [Writers -> WriterStates]
          /\ \A v \in Writers : wr'[v].on <= gen /\ (wr'[v].at # "idle" => wr'[v].pending # << >>)
      BY <2>4, <2>5, WriterBecomes DEF FlushInv, WritersInv
    <2>7. wr[w].tail \in Seq(Bytes)
      BY <2>2 DEF WriterStates
    <2> QED BY <2>4, <2>6, <2>7, LogIsCut
  <1> QED BY <1>1, <1>2

(* What is settled stays so while the server is told more.                    *)
LEMMA SettledGrows ==
    ASSUME LogTypes, NEW e \in All,
           \/ UNCHANGED server
           \/ Hears(e) /\ UNCHANGED refused
           \/ refused' = refused \cup {e} /\ UNCHANGED heard,
           excused \subseteq excused'
    PROVE  /\ heard' \in [All -> 0 .. 2] /\ refused' \subseteq All
           /\ \A d \in All : heard[d] > 0 \/ d \in refused => heard'[d] > 0 \/ d \in refused'
           /\ Done \subseteq Done'
  <1>1. heard' \in [All -> 0 .. 2] /\ refused' \subseteq All
    BY DEF LogTypes, server, Hears
  <1>2. ASSUME NEW d \in All, heard[d] > 0 \/ d \in refused PROVE heard'[d] > 0 \/ d \in refused'
    BY <1>2 DEF LogTypes, server, Hears
  <1> QED BY <1>1, <1>2 DEF Done, Settled

(* A round that reads on: what it has passed is dealt with.                   *)
LEMMA RoundMoves ==
    ASSUME FlushInv, fl.at = "lines", NEW r \in FlusherStates, fl' = r,
           r.at \in {"lines", "save"}, r.bytes = fl.bytes, r.on = fl.on, r.start = fl.start,
           r.consumed = r.cursor,
           \/ r.cursor = fl.cursor
           \/ /\ HasLine(fl) /\ r.cursor = End(fl)
              /\ \A e \in Report(fl) : e \in Done',
           r.at = "lines" => KindsSeen',
           UNCHANGED <<file, mark, stale, excused>>, unsure' \subseteq All,
           heard' \in [All -> 0 .. 2], refused' \subseteq All, Done \subseteq Done'
    PROVE  FlushInv'
  <1>1. LogTypes'
    BY DEF FlushInv, LogTypes, file
  <1>2. WritersInv' /\ UNCHANGED <<log, gen, mark, stale>>
    BY DEF FlushInv, WritersInv, file
  <1>3. MarkInv'
    BY <1>2, DealtByMore DEF FlushInv, MarkInv
  <1>4. /\ fl.bytes \in Seq(Bytes) /\ fl.on \in Nat /\ fl.start \in Nat /\ fl.consumed \in Nat
        /\ fl.cursor \in Nat /\ InRound
    BY DEF FlushInv, LogTypes, FlusherStates, InRound
  <1>5. /\ fl.on <= gen /\ fl.start <= fl.consumed /\ fl.consumed = fl.cursor /\ fl.cursor <= Len(fl.bytes)
        /\ fl.on # gen => stale
        /\ fl.on = gen => Prefix(fl.bytes, log)
        /\ fl.consumed # fl.start => AtLine(fl.bytes, fl.consumed)
        /\ Excuses(fl.bytes, fl.start, Done)
        /\ Dealt(fl.bytes, fl.consumed, Done)
    BY <1>4 DEF FlushInv, RoundInv
  <1>6. Excuses(fl.bytes, fl.start, Done') /\ Dealt(fl.bytes, fl.cursor, Done')
    BY <1>5, DealtByMore
  <1>7. /\ fl.start <= r.cursor /\ r.cursor <= Len(fl.bytes)
        /\ r.cursor # fl.start => AtLine(fl.bytes, r.cursor)
        /\ Dealt(fl.bytes, r.cursor, Done')
    <2>1. CASE r.cursor = fl.cursor
      BY <1>5, <1>6, <2>1
    <2>2. CASE /\ HasLine(fl) /\ r.cursor = End(fl)
               /\ \A e \in Report(fl) : e \in Done'
      <3>1. NewlinesAfter(fl.bytes, fl.cursor) # {} /\ r.cursor = LineEnd(fl.bytes, fl.cursor)
        BY <2>2 DEF HasLine, End
      <3>2. r.cursor \in NewlinesAfter(fl.bytes, fl.cursor)
        BY <1>4, <3>1, LineEndIsLeast
      <3>3. fl.cursor <= r.cursor /\ r.cursor <= Len(fl.bytes) /\ AtLine(fl.bytes, r.cursor)
        BY <1>4, <3>2 DEF NewlinesAfter, AtLine
      <3>4. \A e \in EntriesOf(SubSeq(fl.bytes, fl.cursor + 1, LineEnd(fl.bytes, fl.cursor) - 1)) \cap Reportable :
              e \in Done'
        BY <2>2 DEF Report, End
      <3>5. Dealt(fl.bytes, LineEnd(fl.bytes, fl.cursor), Done')
        BY <1>4, <1>5, <1>6, <3>1, <3>4, PassedIsDealt
      <3>6. r.cursor \in Nat
        BY DEF FlusherStates
      <3> QED BY <1>4, <1>5, <3>1, <3>3, <3>5, <3>6
    <2> QED BY <2>1, <2>2
  <1>8. RoundInv'
    BY <1>2, <1>5, <1>6, <1>7 DEF RoundInv, InRound
  <1> QED BY <1>1, <1>2, <1>3, <1>8 DEF FlushInv

(* What the records of a round that reads on hold.                            *)
LEMMA StopsThere ==
    ASSUME NEW f \in FlusherStates
    PROVE  /\ Stops(f) \in FlusherStates /\ Stops(f).at = "save"
           /\ Stops(f).bytes = f.bytes /\ Stops(f).on = f.on /\ Stops(f).start = f.start
           /\ Stops(f).consumed = f.consumed /\ Stops(f).cursor = f.cursor
           /\ Stops(f).sent = f.sent
  BY DEF Stops, FlusherStates

LEMMA PassesOn ==
    ASSUME NEW f \in FlusherStates, HasLine(f)
    PROVE  /\ Passes(f) \in FlusherStates /\ Passes(f).at = f.at
           /\ Passes(f).bytes = f.bytes /\ Passes(f).on = f.on /\ Passes(f).start = f.start
           /\ Passes(f).consumed = End(f) /\ Passes(f).cursor = End(f)
           /\ Passes(f).seen = f.seen /\ Passes(f).sent = f.sent
  <1>1. End(f) \in Nat
    <2>1. f.bytes \in Seq(Bytes) /\ f.cursor \in Nat
      BY DEF FlusherStates
    <2>2. End(f) \in NewlinesAfter(f.bytes, f.cursor)
      BY <2>1, LineEndIsLeast DEF HasLine, End
    <2> QED BY <2>1, <2>2 DEF NewlinesAfter
  <1> QED BY <1>1 DEF Passes, FlusherStates

LEMMA SentThere ==
    ASSUME fl \in FlusherStates, NEW e \in All
    PROVE  /\ Sent(e) \in FlusherStates /\ Sent(e).at = fl.at
           /\ Sent(e).bytes = fl.bytes /\ Sent(e).on = fl.on /\ Sent(e).start = fl.start
           /\ Sent(e).consumed = fl.consumed /\ Sent(e).cursor = fl.cursor
           /\ Sent(e).seen = fl.seen \cup {Kind[e]} /\ Sent(e).sent = fl.sent \cup {e}
           /\ Sent(e).uploaded = fl.uploaded
  BY DEF Sent, FlusherStates

LEMMA CountedThere ==
    ASSUME NEW f \in FlusherStates
    PROVE  LET g == [f EXCEPT !.uploaded = @ + 1] IN
           /\ g \in FlusherStates /\ g.at = f.at
           /\ g.bytes = f.bytes /\ g.on = f.on /\ g.start = f.start
           /\ g.consumed = f.consumed /\ g.cursor = f.cursor
           /\ g.seen = f.seen /\ g.sent = f.sent
  BY DEF FlusherStates

(* An entry that is asked for is the only one of its line.                    *)
LEMMA AsksForTheLine ==
    ASSUME FlushInv, NEW e \in All, Asks(e), NEW d \in Report(fl)
    PROVE  d = e
  <1>1. fl.bytes \in Seq(Bytes) /\ fl.cursor \in Nat /\ NewlinesAfter(fl.bytes, fl.cursor) # {}
    BY DEF FlushInv, LogTypes, FlusherStates, Asks, HasLine
  <1>2. End(fl) \in NewlinesAfter(fl.bytes, fl.cursor)
    BY <1>1, LineEndIsLeast DEF End
  <1>3. SubSeq(fl.bytes, fl.cursor + 1, End(fl) - 1) \in Seq(Bytes)
    <2>1. \A i \in fl.cursor + 1 .. End(fl) - 1 : fl.bytes[i] \in Bytes
      BY <1>1, <1>2 DEF NewlinesAfter
    <2>2. End(fl) \in Nat
      BY <1>1, <1>2 DEF NewlinesAfter
    <2> QED BY <1>1, <2>1, <2>2, SubSeqProperties
  <1>4. e \in Report(fl)
    BY DEF Asks
  <1> QED BY <1>3, <1>4, OneEntry DEF Report

(* A round that ends where it is.                                             *)
LEMMA RoundStops ==
    ASSUME FlushInv, fl.at = "lines", NEW f \in FlusherStates, fl' = Stops(f),
           f.bytes = fl.bytes, f.on = fl.on, f.start = fl.start, f.consumed = fl.consumed, f.cursor = fl.cursor,
           UNCHANGED <<file, mark, stale, excused>>, unsure' \subseteq All,
           heard' \in [All -> 0 .. 2], refused' \subseteq All, Done \subseteq Done'
    PROVE  FlushInv'
  <1> DEFINE r == Stops(f)
  <1>1. /\ r \in FlusherStates /\ fl' = r /\ r.at = "save" /\ r.bytes = fl.bytes /\ r.on = fl.on
        /\ r.start = fl.start /\ r.consumed = r.cursor /\ r.cursor = fl.cursor
    BY StopsThere DEF FlushInv, RoundInv
  <1> HIDE DEF r
  <1> QED BY <1>1, RoundMoves

(* A round that goes on behind a line.                                        *)
LEMMA RoundPasses ==
    ASSUME FlushInv, fl.at = "lines", HasLine(fl), NEW f \in FlusherStates, fl' = Passes(f),
           f.at = "lines", f.bytes = fl.bytes, f.on = fl.on, f.start = fl.start, f.cursor = fl.cursor,
           \A e \in Report(fl) : e \in Done',
           \A k \in f.seen : \E d \in All : Kind[d] = k /\ (heard'[d] > 0 \/ d \in refused'),
           UNCHANGED <<file, mark, stale, excused>>, unsure' \subseteq All,
           heard' \in [All -> 0 .. 2], refused' \subseteq All, Done \subseteq Done'
    PROVE  FlushInv'
  <1> DEFINE r == Passes(f)
  <1>1. HasLine(f) /\ End(f) = End(fl)
    BY DEF HasLine, End
  <1>2. /\ r \in FlusherStates /\ fl' = r /\ r.at = "lines" /\ r.bytes = fl.bytes /\ r.on = fl.on
        /\ r.start = fl.start /\ r.consumed = r.cursor /\ r.cursor = End(fl) /\ r.seen = f.seen
    BY <1>1, PassesOn
  <1> HIDE DEF r
  <1>3. KindsSeen'
    BY <1>2 DEF KindsSeen
  <1> QED BY <1>2, <1>3, RoundMoves

(* The steps of a round between its beginning and its end.                    *)
LEMMA InTheRound ==
    ASSUME FlushInv, LinesEnd \/ Skip \/ \E e \in All : Taken(e) \/ Unanswered(e) \/ AnswerLost(e)
    PROVE  FlushInv'
  <1>1. LogTypes /\ fl \in FlusherStates
    BY DEF FlushInv, LogTypes
  <1>2. CASE LinesEnd
    <2>1. fl' = Stops(fl) /\ fl.at = "lines" /\ UNCHANGED <<file, mark, server, history>>
      BY <1>2 DEF LinesEnd, RunsDry
    <2>2. UNCHANGED <<stale, excused>> /\ unsure' \subseteq All /\ heard' \in [All -> 0 .. 2] /\ refused' \subseteq All
          /\ Done' = Done
      BY <1>1, <2>1 DEF LogTypes, server, history, Done, Settled
    <2> QED BY <1>1, <2>1, <2>2, RoundStops
  <1>3. CASE Skip
    <2>1. /\ fl' = Passes(fl) /\ fl.at = "lines" /\ HasLine(fl) /\ \A e \in Report(fl) : Kind[e] \in fl.seen
          /\ UNCHANGED <<file, mark, server, history>>
      BY <1>3 DEF Skip
    <2>2. UNCHANGED <<stale, excused>> /\ unsure' \subseteq All /\ heard' \in [All -> 0 .. 2] /\ refused' \subseteq All
          /\ Done' = Done /\ heard' = heard /\ refused' = refused
      BY <1>1, <2>1 DEF LogTypes, server, history, Done, Settled
    <2>3. \A k \in fl.seen : \E d \in All : Kind[d] = k /\ (heard'[d] > 0 \/ d \in refused')
      BY <2>1, <2>2 DEF FlushInv, RoundInv, KindsSeen
    <2>4. \A e \in Report(fl) : e \in Done'
      <3> TAKE e \in Report(fl)
      <3>1. e \in All /\ Kind[e] \in fl.seen
        BY <2>1 DEF Report, EntriesOf
      <3>2. Settled(e)
        BY <2>2, <2>3, <3>1 DEF Settled
      <3> QED BY <2>2, <3>1, <3>2 DEF Done
    <2> QED BY <1>1, <2>1, <2>2, <2>3, <2>4, RoundPasses
  <1>4. ASSUME NEW e \in All, Taken(e) \/ Unanswered(e) \/ AnswerLost(e) PROVE FlushInv'
    <2>1. Asks(e) /\ fl.at = "lines" /\ HasLine(fl) /\ UNCHANGED <<file, mark, stale, excused>>
      BY <1>4 DEF Taken, Uploaded, Rejected, Unanswered, AnswerLost, Asks, history
    <2>2. \/ UNCHANGED server
          \/ Hears(e) /\ UNCHANGED refused
          \/ refused' = refused \cup {e} /\ UNCHANGED heard
      BY <1>4 DEF Taken, Uploaded, Rejected, Unanswered, AnswerLost
    <2>3. /\ heard' \in [All -> 0 .. 2] /\ refused' \subseteq All
          /\ \A d \in All : heard[d] > 0 \/ d \in refused => heard'[d] > 0 \/ d \in refused'
          /\ Done \subseteq Done'
      BY <1>1, <2>1, <2>2, SettledGrows
    <2>4. unsure' \subseteq All
      BY <1>1, <1>4 DEF Taken, Uploaded, Rejected, Unanswered, AnswerLost, history, LogTypes
    <2> DEFINE f == Sent(e)
    <2>5. /\ f \in FlusherStates /\ f.at = "lines" /\ f.bytes = fl.bytes /\ f.on = fl.on /\ f.start = fl.start
          /\ f.consumed = fl.consumed /\ f.cursor = fl.cursor /\ f.seen = fl.seen \cup {Kind[e]}
      BY <1>1, <2>1, SentThere
    <2>6. CASE Unanswered(e) \/ AnswerLost(e)
      <3>1. fl' = Stops(f)
        BY <2>6 DEF Unanswered, AnswerLost
      <3> HIDE DEF f
      <3> QED BY <2>1, <2>3, <2>4, <2>5, <3>1, RoundStops
    <2>7. CASE Taken(e)
      <3>1. heard'[e] > 0 \/ e \in refused'
        BY <1>1, <2>7 DEF Taken, Uploaded, Rejected, Hears, LogTypes
      <3>2. \A d \in Report(fl) : d \in Done'
        <4>1. e \in Done'
          BY <3>1 DEF Done, Settled
        <4> QED BY <2>1, <4>1, AsksForTheLine
      <3>3. \A k \in f.seen : \E d \in All : Kind[d] = k /\ (heard'[d] > 0 \/ d \in refused')
        <4>1. \A k \in fl.seen : \E d \in All : Kind[d] = k /\ (heard[d] > 0 \/ d \in refused)
          BY <2>1 DEF FlushInv, RoundInv, KindsSeen
        <4> HIDE DEF f
        <4> QED BY <2>3, <2>5, <3>1, <4>1
      <3>4. CASE Rejected(e)
        <4>1. fl' = Passes(f)
          BY <3>4 DEF Rejected
        <4> HIDE DEF f
        <4> QED BY <2>1, <2>3, <2>4, <2>5, <3>2, <3>3, <4>1, RoundPasses
      <3>5. CASE Uploaded(e)
        <4> DEFINE g == [Sent(e) EXCEPT !.uploaded = @ + 1]
        <4>1. fl' = Passes(g)
          BY <3>5 DEF Uploaded
        <4>2. /\ g \in FlusherStates /\ g.at = "lines" /\ g.bytes = fl.bytes /\ g.on = fl.on /\ g.start = fl.start
              /\ g.cursor = fl.cursor /\ g.seen = f.seen
          BY <2>5, CountedThere
        <4>3. \A k \in g.seen : \E d \in All : Kind[d] = k /\ (heard'[d] > 0 \/ d \in refused')
          BY <3>3, <4>2
        <4> HIDE DEF g
        <4> QED BY <2>1, <2>3, <2>4, <3>2, <4>1, <4>2, <4>3, RoundPasses
      <3> QED BY <2>7, <3>4, <3>5 DEF Taken
    <2> QED BY <1>4, <2>6, <2>7
  <1> QED BY <1>2, <1>3, <1>4

(* A round begins where the watermark is, or at the beginning of a file that  *)
(* is shorter.                                                                *)
LEMMA RoundBegins ==
    ASSUME FlushInv, FlushBegins
    PROVE  FlushInv'
  <1> DEFINE start == Start(mark, Len(log))
             r == [BetweenRounds EXCEPT !.at = "lines", !.bytes = log, !.on = gen,
                                        !.start = start, !.consumed = start, !.cursor = start]
  <1>1. log \in Seq(Bytes) /\ gen \in Nat /\ mark \in Nat /\ Len(log) \in Nat
    BY DEF FlushInv, LogTypes
  <1>2. start \in Nat /\ start <= Len(log)
    BY <1>1 DEF Start
  <1>3. fl' = r /\ UNCHANGED <<file, mark, server, stale, unsure>>
    BY DEF FlushBegins
  <1>4. excused' = IF stale THEN excused \cup {l[1] : l \in {k \in Lines(log) : k[2] <= start}} ELSE excused
    BY DEF FlushBegins
  <1> HIDE DEF start
  <1>5. /\ r \in FlusherStates /\ r.at = "lines" /\ r.bytes = log /\ r.on = gen
        /\ r.start = start /\ r.consumed = start /\ r.cursor = start /\ r.seen = {}
    BY <1>1, <1>2, QuietStates DEF BetweenRounds, FlusherStates
  <1> HIDE DEF r
  <1>6. ASSUME NEW l \in Lines(log) PROVE l[1] \in All /\ l[2] <= l[3] /\ l[2] \in Nat /\ l[3] \in Nat
    <2>1. PICK e \in All, i \in Nat, z \in Nat : l = <<e, i + 1, z>> /\ IsLine(log, e, i, z)
      BY <1>1, LinesAre
    <2> QED BY <2>1 DEF IsLine, NewlinesAfter
  <1>7. excused \subseteq excused' /\ excused' \subseteq All
    BY <1>4, <1>6 DEF FlushInv, LogTypes
  <1>8. Done \subseteq Done'
    BY <1>3, <1>7 DEF Done, Settled, server
  <1>9. UNCHANGED <<log, gen, todo, wr, heard, refused>>
    BY <1>3 DEF file, server
  <1>10. LogTypes'
    BY <1>3, <1>5, <1>7, <1>9 DEF FlushInv, LogTypes
  <1>11. WritersInv'
    BY <1>9 DEF FlushInv, WritersInv
  <1>12. MarkInv'
    BY <1>3, <1>8, <1>9, DealtByMore DEF FlushInv, MarkInv
  <1>13. Excuses(log, start, Done') /\ Dealt(log, start, Done')
    <2>1. CASE stale
      <3>1. \A l \in Lines(log) : l[2] <= start => l[1] \in Done'
        BY <1>4, <2>1 DEF Done
      <3> QED BY <1>2, <1>6, <3>1 DEF Excuses, Dealt
    <2>2. CASE ~ stale
      <3>1. AtLine(log, mark) /\ Dealt(log, mark, Done)
        BY <2>2 DEF FlushInv, MarkInv
      <3>2. start = mark
        BY <1>1, <3>1 DEF start, Start, AtLine
      <3> QED BY <1>8, <3>1, <3>2, DealtByMore DEF Excuses
    <2> QED BY <2>1, <2>2
  <1>14. RoundInv'
    <2>1. Prefix(log, log)
      BY <1>1 DEF Prefix
    <2> QED BY <1>1, <1>2, <1>3, <1>5, <1>9, <1>13, <2>1 DEF RoundInv, InRound, KindsSeen
  <1> QED BY <1>10, <1>11, <1>12, <1>14 DEF FlushInv

(* What is left of a round that is over.                                      *)
LEMMA RoundEnds ==
    ASSUME FlushInv, Save \/ SaveFails \/ LauncherDies \/ LauncherStarts
    PROVE  FlushInv'
  <1>1. /\ fl' \in FlusherStates /\ fl'.at \in {"wait", "off"} /\ fl'.on = 0
        /\ fl'.start = 0 /\ fl'.consumed = 0 /\ fl'.cursor = 0 /\ fl'.bytes = << >>
    <2>1. fl' = BetweenRounds \/ fl' = Off
      BY DEF Save, SaveFails, LauncherDies, LauncherStarts
    <2>2. Off.at = "off" /\ Off.on = 0 /\ Off.start = 0 /\ Off.consumed = 0 /\ Off.cursor = 0 /\ Off.bytes = << >>
      BY DEF Off, BetweenRounds
    <2>3. /\ BetweenRounds.at = "wait" /\ BetweenRounds.on = 0 /\ BetweenRounds.start = 0
          /\ BetweenRounds.consumed = 0 /\ BetweenRounds.cursor = 0 /\ BetweenRounds.bytes = << >>
      BY DEF BetweenRounds
    <2> QED BY <2>1, <2>2, <2>3, QuietStates
  <1>2. UNCHANGED <<file, server, excused>> /\ unsure' \subseteq All
    BY DEF Save, SaveFails, LauncherDies, LauncherStarts, FlushInv, LogTypes, FlusherStates, history
  <1>3. UNCHANGED <<log, gen, todo, wr, heard, refused>>
    BY <1>2 DEF file, server
  <1>4. mark' \in Nat /\ stale' \in BOOLEAN
    BY DEF Save, SaveFails, LauncherDies, LauncherStarts, FlushInv, LogTypes, FlusherStates, history
  <1>5. LogTypes'
    BY <1>1, <1>2, <1>3, <1>4 DEF FlushInv, LogTypes
  <1>6. WritersInv'
    BY <1>3 DEF FlushInv, WritersInv
  <1>7. RoundInv'
    BY <1>1, <1>3 DEF RoundInv, InRound, FlushInv, LogTypes
  <1>8. Done' = Done
    BY <1>2 DEF Done, Settled, server
  <1>9. MarkInv'
    <2>1. CASE UNCHANGED <<mark, stale>>
      BY <1>3, <1>8, <2>1 DEF FlushInv, MarkInv
    <2>2. CASE Save /\ fl.consumed # fl.start
      <3>1. mark' = fl.consumed /\ stale' = (stale /\ fl.on # gen) /\ fl.at = "save"
        BY <2>2 DEF Save
      <3>2. /\ fl.bytes \in Seq(Bytes) /\ log \in Seq(Bytes) /\ fl.consumed \in Nat
        BY DEF FlushInv, LogTypes, FlusherStates
      <3>3. /\ fl.on # gen => stale
            /\ fl.on = gen => Prefix(fl.bytes, log)
            /\ AtLine(fl.bytes, fl.consumed)
            /\ Dealt(fl.bytes, fl.consumed, Done)
        BY <2>2, <3>1 DEF FlushInv, RoundInv, InRound
      <3>4. CASE fl.on # gen
        BY <3>1, <3>3, <3>4 DEF MarkInv
      <3>5. CASE fl.on = gen
        <4>1. AtLine(log, fl.consumed) /\ fl.consumed <= Len(fl.bytes)
          BY <3>2, <3>3, <3>5, PlaceInPrefix
        <4>2. Dealt(log, fl.consumed, Done)
          BY <3>2, <3>3, <3>5, <4>1, DealtInPrefix
        <4> QED BY <1>3, <1>8, <3>1, <4>1, <4>2 DEF MarkInv
      <3> QED BY <3>4, <3>5
    <2> QED BY <2>1, <2>2 DEF Save, SaveFails, LauncherDies, LauncherStarts, history
  <1> QED BY <1>5, <1>6, <1>7, <1>9 DEF FlushInv

(* Every step keeps the invariant.                                            *)
LEMMA StepFlushInv == FlushInv /\ [DiagnosticsNext]_diagnosticsVars => FlushInv'
  <1> SUFFICES ASSUME FlushInv, [DiagnosticsNext]_diagnosticsVars PROVE FlushInv'
    OBVIOUS
  <1>1. CASE UNCHANGED diagnosticsVars
    <2>1. UNCHANGED <<log, gen, todo, wr, mark, fl, heard, refused, stale, excused, unsure>>
      BY <1>1 DEF diagnosticsVars, file, server, history
    <2>2. Done' = Done
      BY <2>1 DEF Done, Settled
    <2>3. LogTypes' /\ WritersInv'
      BY <2>1 DEF FlushInv, LogTypes, WritersInv
    <2>4. MarkInv' /\ RoundInv'
      BY <2>1, <2>2 DEF FlushInv, MarkInv, RoundInv, InRound, KindsSeen
    <2> QED BY <2>3, <2>4 DEF FlushInv
  <1>2. ASSUME NEW w \in Writers, (\E e \in Entries : AppendBegins(w, e)) \/ WriterStep(w) \/ WriterDies(w)
        PROVE  FlushInv'
    <2>1. CASE (\E e \in Entries : AppendBegins(w, e)) \/ Open(w) \/ ReadTail(w) \/ WriterDies(w)
      BY <2>1, QuietWriters
    <2>2. CASE ReplaceByTail(w)
      BY <2>2, CutsTheLog
    <2>3. CASE WriteLine(w) \/ WriteNewline(w)
      BY <2>3, LoudWriters
    <2> QED BY <1>2, <2>1, <2>2, <2>3 DEF WriterStep
  <1>3. CASE Clear
    BY <1>3, CutsTheLog
  <1>4. CASE FlushStep \/ SaveFails \/ LauncherDies
    BY <1>4, RoundBegins, InTheRound, RoundEnds DEF FlushStep
  <1>5. CASE \E e \in All : Taken(e) \/ Unanswered(e) \/ AnswerLost(e)
    BY <1>5, InTheRound
  <1> QED BY <1>1, <1>2, <1>3, <1>4, <1>5 DEF DiagnosticsNext

(* Every reachable state has it.                                              *)
LEMMA AlwaysFlushInv == DiagnosticsSpec => []FlushInv
  BY InitFlushInv, StepFlushInv, PTL DEF DiagnosticsSpec

(* The upload passes over nothing: wherever the saved watermark of the file   *)
(* stands, each line before it that is worth a report was taken or refused,   *)
(* or one of its kind was, unless a watermark of an older file skipped it     *)
(* (flush_diagnostic_log, append_diagnostic_log, compact_diagnostic_log).     *)
THEOREM UploadSkipsNothing == DiagnosticsSpec => []NothingSkipped
  <1>1. FlushInv => NothingSkipped
    <2> SUFFICES ASSUME FlushInv PROVE NothingSkipped
      OBVIOUS
    <2>1. DiagnosticsTypes
      <3>1. /\ log \in Seq(All \cup {Newline}) /\ todo \subseteq Entries
            /\ heard \in [All -> 0 .. 2] /\ refused \subseteq All
        BY DEF FlushInv, LogTypes, Bytes
      <3>2. \A w \in Writers : wr[w].on <= gen
        BY DEF FlushInv, WritersInv
      <3>3. fl.start <= fl.consumed /\ fl.consumed <= fl.cursor /\ fl.cursor <= Len(fl.bytes)
        BY DEF FlushInv, LogTypes, FlusherStates, RoundInv
      <3> QED BY <3>1, <3>2, <3>3 DEF FlushInv, MarkInv, AtLine, DiagnosticsTypes
    <2>2. ASSUME ~ stale, NEW l \in Lines(log), l[3] <= mark, l[1] \in Reportable
          PROVE  Settled(l[1]) \/ l[1] \in excused
      BY <2>2 DEF FlushInv, MarkInv, Dealt, Done
    <2> QED BY <2>1, <2>2 DEF NothingSkipped
  <1> QED BY <1>1, AlwaysFlushInv, PTL

(*****************************************************************************)
(* No entry is sent again without a reason.  An entry is written once, to one *)
(* place of the log; once the server has it, the round that sent it, or the   *)
(* watermark, is past that place, or the entry is among the unsure ones.      *)
(*****************************************************************************)

(* The places of an entry in a text.                                          *)
Occurs(e, q) == \E i \in DOMAIN q : q[i] = e
Once(e, q) == \A i, j \in DOMAIN q : q[i] = e /\ q[j] = e => i = j
Tight(e, q) == \A i, j \in DOMAIN q : q[i] = e /\ q[j] = e /\ i < j => j = i + 1 /\ e \in Long
Upto(e, q, n) == \A i \in DOMAIN q : q[i] = e => i <= n

(* What a writer has still to write; an entry that is not written yet.        *)
ToWrite(r) == IF r.at = "newline" THEN Tail(r.pending) ELSE r.pending
Held(e, w) == Occurs(e, ToWrite(wr[w]))
Coming(e) == e \in todo \/ \E w \in Writers : Held(e, w)

Unwritten(e) ==
    Coming(e) => /\ ~ Occurs(e, log) /\ ~ Occurs(e, fl.bytes) /\ heard[e] = 0
                 /\ \A w \in Writers : ~ Occurs(e, wr[w].tail)
HeldOnce(e) ==
    \A w \in Writers : /\ Once(e, ToWrite(wr[w]))
                       /\ Held(e, w) => e \notin todo /\ \A v \in Writers : Held(e, v) => v = w
InPlace(e) == Tight(e, log) /\ \A w \in Writers : Tight(e, wr[w].tail)
OnceInv == \A e \in Entries : Unwritten(e) /\ HeldOnce(e) /\ InPlace(e)

(* What the server has of an entry is known to the round or to the watermark. *)
Marked(e) == ~ stale /\ Upto(e, log, mark)
Recorded(e) ==
    /\ InRound => /\ fl.on = gen /\ Upto(e, log, fl.consumed)
                  /\ (e \in fl.sent /\ fl.consumed # fl.start) \/ Marked(e)
    /\ ~ InRound => Marked(e)
RecordInv == \A e \in Entries : heard[e] > 0 /\ e \notin unsure => Recorded(e)

ToldInv == FlushInv /\ OnceInv /\ RecordInv

(* In the beginning nothing is written and nobody has been told.              *)
LEMMA InitToldInv == DiagnosticsInit => ToldInv
  <1> SUFFICES ASSUME DiagnosticsInit, NEW e \in Entries
               PROVE  Unwritten(e) /\ HeldOnce(e) /\ InPlace(e) /\ heard[e] = 0
    BY InitFlushInv DEF ToldInv, OnceInv, RecordInv
  <1>1. ToWrite(NotWriting) = << >> /\ NotWriting.tail = << >> /\ BetweenRounds.bytes = << >>
    BY DEF ToWrite, NotWriting, BetweenRounds
  <1>2. /\ log = << >> /\ fl.bytes = << >> /\ heard[e] = 0
        /\ \A w \in Writers : ToWrite(wr[w]) = << >> /\ wr[w].tail = << >>
    BY <1>1 DEF DiagnosticsInit, All
  <1>3. ~ Occurs(e, << >>) /\ Once(e, << >>) /\ Tight(e, << >>)
    BY DEF Occurs, Once, Tight
  <1> QED BY <1>2, <1>3 DEF Unwritten, HeldOnce, InPlace, Held

(* A step of one writer: what it has to write it had before, or has just      *)
(* taken, what it reads was there, and what it adds to the log it no longer   *)
(* has to write.                                                              *)
LEMMA OnceByWriter ==
    ASSUME LogTypes, OnceInv, NEW w \in Writers, NEW r \in WriterStates, Becomes(w, r),
           UNCHANGED <<fl, heard>>, todo' \subseteq todo,
           \A e \in Entries : Occurs(e, ToWrite(r)) => Held(e, w) \/ (e \in todo /\ e \notin todo'),
           \A e \in Entries : Once(e, ToWrite(r)),
           \A e \in Entries : Occurs(e, r.tail) => Occurs(e, log) \/ Occurs(e, wr[w].tail),
           \A e \in Entries : Tight(e, r.tail) /\ Tight(e, log'),
           \A e \in Entries : Occurs(e, log') =>
               \/ Occurs(e, log) \/ Occurs(e, wr[w].tail)
               \/ Held(e, w) /\ ~ Occurs(e, ToWrite(r)) /\ e \notin todo'
    PROVE  OnceInv'
  <1>1. wr'[w] = r /\ \A v \in Writers : v # w => wr'[v] = wr[v]
    BY WriterBecomes
  <1> SUFFICES ASSUME NEW e \in Entries PROVE Unwritten(e)' /\ HeldOnce(e)' /\ InPlace(e)'
    BY DEF OnceInv
  <1>2. Unwritten(e) /\ HeldOnce(e) /\ InPlace(e)
    BY DEF OnceInv
  <1>3. InPlace(e)'
    BY <1>1, <1>2 DEF InPlace
  <1>4. \A v \in Writers : v # w => (Held(e, v)' <=> Held(e, v))
    BY <1>1 DEF Held
  <1>5. Held(e, w)' => Held(e, w) \/ (e \in todo /\ e \notin todo')
    BY <1>1 DEF Held
  <1>6. HeldOnce(e)'
    <2>1. \A v \in Writers : Once(e, ToWrite(wr'[v]))
      BY <1>1, <1>2 DEF HeldOnce
    <2>2. ASSUME NEW v \in Writers, Held(e, v)' PROVE e \notin todo'
      BY <1>2, <1>4, <1>5, <2>2 DEF HeldOnce
    <2>3. ASSUME NEW v \in Writers, NEW u \in Writers, Held(e, v)', Held(e, u)' PROVE u = v
      BY <1>2, <1>4, <1>5, <2>3 DEF HeldOnce
    <2> QED BY <2>1, <2>2, <2>3 DEF HeldOnce
  <1>7. Unwritten(e)'
    <2> SUFFICES ASSUME Coming(e)' PROVE Unwritten(e)'
      BY DEF Unwritten
    <2>1. Coming(e)
      BY <1>4, <1>5 DEF Coming
    <2>2. /\ ~ Occurs(e, log) /\ ~ Occurs(e, fl.bytes) /\ heard[e] = 0
          /\ \A v \in Writers : ~ Occurs(e, wr[v].tail)
      BY <1>2, <2>1 DEF Unwritten
    <2>3. \A v \in Writers : ~ Occurs(e, wr'[v].tail)
      BY <1>1, <2>2
    <2>4. ~ Occurs(e, log')
      <3> SUFFICES ASSUME Held(e, w), ~ Occurs(e, ToWrite(r)), e \notin todo' PROVE FALSE
        BY <2>2
      <3>1. PICK v \in Writers : Held(e, v)'
        BY DEF Coming
      <3>2. v # w
        BY <1>1, <3>1 DEF Held
      <3> QED BY <1>2, <1>4, <3>1, <3>2 DEF HeldOnce
    <2> QED BY <2>2, <2>3, <2>4 DEF Unwritten
  <1> QED BY <1>3, <1>6, <1>7

(* The places of an entry in a text that more is added to.                    *)
LEMMA OccursInLonger ==
    ASSUME NEW s \in Seq(Bytes), NEW b \in Seq(Bytes), NEW e
    PROVE  /\ Occurs(e, s \o b) => Occurs(e, s) \/ Occurs(e, b)
           /\ ~ Occurs(e, b) => /\ Tight(e, s) => Tight(e, s \o b)
                                /\ \A n \in Nat : Upto(e, s, n) => Upto(e, s \o b, n)
           /\ ~ Occurs(e, s) /\ Tight(e, b) => Tight(e, s \o b)
  <1>1. /\ s \o b \in Seq(Bytes)
        /\ Len(s \o b) = Len(s) + Len(b)
        /\ \A i \in 1 .. Len(s) + Len(b) : (s \o b)[i] = IF i <= Len(s) THEN s[i] ELSE b[i - Len(s)]
    BY ConcatProperties
  <1> DEFINE t == s \o b
  <1>2. ASSUME NEW i \in DOMAIN t
        PROVE  \/ i \in DOMAIN s /\ t[i] = s[i]
               \/ i - Len(s) \in DOMAIN b /\ t[i] = b[i - Len(s)] /\ i \in Nat
    <2>1. i \in 1 .. Len(s) + Len(b)
      BY <1>1
    <2>2. t[i] = IF i <= Len(s) THEN s[i] ELSE b[i - Len(s)]
      BY <1>1, <2>1
    <2> QED BY <2>1, <2>2
  <1> HIDE DEF t
  <1>3. Occurs(e, t) => Occurs(e, s) \/ Occurs(e, b)
    BY <1>2 DEF Occurs
  <1>4. ASSUME ~ Occurs(e, b), NEW i \in DOMAIN t, t[i] = e PROVE i \in DOMAIN s /\ s[i] = e
    BY <1>2, <1>4 DEF Occurs
  <1>5. ASSUME ~ Occurs(e, s), NEW i \in DOMAIN t, t[i] = e
        PROVE  i - Len(s) \in DOMAIN b /\ b[i - Len(s)] = e /\ i \in Nat
    BY <1>2, <1>5 DEF Occurs
  <1>6. ASSUME ~ Occurs(e, b), Tight(e, s) PROVE Tight(e, t)
    BY <1>4, <1>6 DEF Tight
  <1>7. ASSUME ~ Occurs(e, b), NEW n \in Nat, Upto(e, s, n) PROVE Upto(e, t, n)
    BY <1>4, <1>7 DEF Upto
  <1>8. ASSUME ~ Occurs(e, s), Tight(e, b) PROVE Tight(e, t)
    <2> SUFFICES ASSUME NEW i \in DOMAIN t, NEW j \in DOMAIN t, t[i] = e, t[j] = e, i < j
                 PROVE  j = i + 1 /\ e \in Long
      BY DEF Tight
    <2>1. /\ i - Len(s) \in DOMAIN b /\ b[i - Len(s)] = e /\ i \in Nat
          /\ j - Len(s) \in DOMAIN b /\ b[j - Len(s)] = e /\ j \in Nat
      BY <1>5, <1>8
    <2>2. i - Len(s) < j - Len(s)
      BY <2>1
    <2>3. j - Len(s) = (i - Len(s)) + 1 /\ e \in Long
      BY <1>8, <2>1, <2>2 DEF Tight
    <2> QED BY <2>1, <2>3
  <1> QED BY <1>3, <1>6, <1>7, <1>8 DEF t

(* The places of an entry in a part of a text.                                *)
LEMMA OccursInPart ==
    ASSUME NEW s \in Seq(Bytes), NEW m \in Nat, 1 <= m, NEW e
    PROVE  LET part == SubSeq(s, m, Len(s)) IN
           /\ part \in Seq(Bytes)
           /\ Occurs(e, part) => Occurs(e, s)
           /\ Tight(e, s) => Tight(e, part)
  <1> DEFINE part == SubSeq(s, m, Len(s))
  <1>1. \A i \in m .. Len(s) : s[i] \in Bytes
    OBVIOUS
  <1>2. /\ part \in Seq(Bytes)
        /\ Len(part) = (IF m <= Len(s) THEN Len(s) - m + 1 ELSE 0)
        /\ \A i \in 1 .. Len(s) - m + 1 : part[i] = s[m + i - 1]
    BY <1>1, SubSeqProperties
  <1> HIDE DEF part
  <1>3. ASSUME NEW i \in DOMAIN part
        PROVE  i \in Nat /\ m + i - 1 \in DOMAIN s /\ part[i] = s[m + i - 1]
    <2>1. i \in 1 .. Len(s) - m + 1
      BY <1>2
    <2>2. part[i] = s[m + i - 1]
      BY <1>2, <2>1
    <2> QED BY <2>1, <2>2
  <1>4. Occurs(e, part) => Occurs(e, s)
    BY <1>3 DEF Occurs
  <1>5. ASSUME Tight(e, s) PROVE Tight(e, part)
    <2> SUFFICES ASSUME NEW i \in DOMAIN part, NEW j \in DOMAIN part, part[i] = e, part[j] = e, i < j
                 PROVE  j = i + 1 /\ e \in Long
      BY DEF Tight
    <2>1. /\ i \in Nat /\ m + i - 1 \in DOMAIN s /\ s[m + i - 1] = e
          /\ j \in Nat /\ m + j - 1 \in DOMAIN s /\ s[m + j - 1] = e
      BY <1>3
    <2>2. m + i - 1 < m + j - 1
      BY <2>1
    <2>3. m + j - 1 = (m + i - 1) + 1 /\ e \in Long
      BY <1>5, <2>1, <2>2 DEF Tight
    <2> QED BY <2>1, <2>3
  <1> QED BY <1>2, <1>4, <1>5 DEF part

(* What is kept of a log is a part of it.                                     *)
LEMMA OccursInKept ==
    ASSUME NEW text \in Seq(Bytes), MaxBytes < Len(text), NEW e
    PROVE  /\ Occurs(e, KeptTail(text)) => Occurs(e, text)
           /\ Tight(e, text) => Tight(e, KeptTail(text))
  <1> DEFINE kept == SubSeq(text, Len(text) - KeptBytes + 1, Len(text))
  <1>1. KeptBytes \in Nat /\ MaxBytes \in Nat /\ KeptBytes <= MaxBytes
    BY BytesAssumption
  <1>2. /\ kept \in Seq(Bytes)
        /\ Occurs(e, kept) => Occurs(e, text)
        /\ Tight(e, text) => Tight(e, kept)
    <2>1. Len(text) - KeptBytes + 1 \in Nat /\ 1 <= Len(text) - KeptBytes + 1
      BY <1>1
    <2> QED BY <2>1, OccursInPart
  <1> HIDE DEF kept
  <1>3. ASSUME NewlinesAfter(kept, 0) # {}
        PROVE  LET part == SubSeq(kept, LineEnd(kept, 0) + 1, Len(kept)) IN
               /\ Occurs(e, part) => Occurs(e, kept)
               /\ Tight(e, kept) => Tight(e, part)
    <2>1. LineEnd(kept, 0) \in Nat
      BY <1>2, <1>3, LineEndIsLeast DEF NewlinesAfter
    <2>2. LineEnd(kept, 0) + 1 \in Nat /\ 1 <= LineEnd(kept, 0) + 1
      BY <2>1
    <2> QED BY <1>2, <2>2, OccursInPart
  <1>4. KeptTail(text) = kept \/ /\ NewlinesAfter(kept, 0) # {}
                                 /\ KeptTail(text) = SubSeq(kept, LineEnd(kept, 0) + 1, Len(kept))
    BY DEF KeptTail, kept
  <1> QED BY <1>2, <1>3, <1>4

(* An entry that is written, and the end of its line.                         *)
LEMMA OccursInBody ==
    ASSUME NEW h \in All
    PROVE  /\ Body(h) \in Seq(Bytes) /\ <<Newline>> \in Seq(Bytes)
           /\ \A e \in All : Occurs(e, Body(h)) => e = h
           /\ Tight(h, Body(h))
           /\ \A e \in All : ~ Occurs(e, <<Newline>>)
  <1>1. Newline \notin All
    BY EntriesAssumption
  <1>2. (Body(h) = <<h, h>> /\ h \in Long) \/ Body(h) = <<h>>
    BY DEF Body
  <1>3. Body(h) \in Seq(Bytes) /\ <<Newline>> \in Seq(Bytes)
    <2>1. h \in Bytes /\ Newline \in Bytes
      BY DEF Bytes
    <2>2. <<h, h>> \in Seq(Bytes) /\ <<h>> \in Seq(Bytes) /\ <<Newline>> \in Seq(Bytes)
      BY <2>1
    <2> QED BY <1>2, <2>2
  <1>4. \A i \in DOMAIN Body(h) : Body(h)[i] = h
    BY <1>2
  <1>5. Tight(h, Body(h))
    BY <1>2 DEF Tight
  <1> QED BY <1>1, <1>3, <1>4, <1>5 DEF Occurs

(* As long as the log, the round, the watermark and the server stay.          *)
LEMMA RecordStays ==
    ASSUME RecordInv, UNCHANGED <<log, gen, mark, fl, heard, history>>
    PROVE  RecordInv'
  BY DEF RecordInv, Recorded, InRound, Marked, history

(* The steps of a writer that leave the file alone.                           *)
LEMMA QuietWritersTold ==
    ASSUME ToldInv, NEW w \in Writers,
           (\E e \in Entries : AppendBegins(w, e)) \/ Open(w) \/ ReadTail(w) \/ WriterDies(w)
    PROVE  ToldInv'
  <1>1. FlushInv' /\ LogTypes /\ OnceInv /\ RecordInv
    BY QuietWriters DEF ToldInv, FlushInv
  <1>2. UNCHANGED <<log, gen, mark, fl, heard, history>> /\ todo' \subseteq todo
    BY DEF AppendBegins, Open, ReadTail, WriterDies, server
  <1>3. RecordInv'
    BY <1>1, <1>2, RecordStays
  <1>4. wr[w] \in WriterStates /\ gen \in Nat /\ log \in Seq(Bytes) /\ NotWriting \in WriterStates
    BY <1>1, QuietStates DEF LogTypes
  <1>5. \A e \in Entries : /\ Tight(e, log) /\ Tight(e, wr[w].tail) /\ Once(e, ToWrite(wr[w]))
                           /\ e \in All
    BY <1>1 DEF OnceInv, HeldOnce, InPlace, All
  <1>6. \A e \in Entries : ~ Occurs(e, << >>) /\ Once(e, << >>) /\ Tight(e, << >>)
    BY DEF Occurs, Once, Tight
  <1>7. CASE \E e \in Entries : AppendBegins(w, e)
    <2>1. PICK e \in Entries : AppendBegins(w, e)
      BY <1>7
    <2> DEFINE r == [NotWriting EXCEPT !.at = "open", !.pending = <<e>>]
    <2>2. r \in WriterStates /\ ToWrite(r) = <<e>> /\ r.tail = << >>
      <3>1. <<e>> \in Seq(All)
        BY DEF All
      <3>2. r.at = "open" /\ r.pending = <<e>> /\ r.tail = << >>
        BY DEF NotWriting
      <3>3. r \in WriterStates
        BY <1>4, <3>1 DEF NotWriting, WriterStates
      <3> QED BY <3>2, <3>3 DEF ToWrite
    <2>3. Becomes(w, r) /\ e \in todo /\ e \notin todo'
      BY <2>1 DEF AppendBegins
    <2> HIDE DEF r
    <2>4. \A d \in Entries : /\ Occurs(d, ToWrite(r)) => d = e
                             /\ Once(d, ToWrite(r))
      BY <2>2 DEF Occurs, Once
    <2>5. OnceInv'
      BY <1>1, <1>2, <1>5, <1>6, <2>2, <2>3, <2>4, OnceByWriter
    <2> QED BY <1>1, <1>3, <2>5 DEF ToldInv
  <1>8. CASE Open(w)
    <2> DEFINE r == [wr[w] EXCEPT !.at = "line", !.on = gen]
    <2>1. Becomes(w, r) /\ wr[w].at = "open"
      BY <1>8 DEF Open
    <2>2. r \in WriterStates /\ r.tail = wr[w].tail /\ ToWrite(r) = ToWrite(wr[w])
      <3>1. r.at = "line" /\ r.pending = wr[w].pending /\ r.tail = wr[w].tail /\ r \in WriterStates
        BY <1>4 DEF WriterStates
      <3> QED BY <2>1, <3>1 DEF ToWrite
    <2> HIDE DEF r
    <2>3. OnceInv'
      BY <1>1, <1>2, <1>5, <2>1, <2>2, OnceByWriter DEF Held
    <2> QED BY <1>1, <1>3, <2>3 DEF ToldInv
  <1>9. CASE ReadTail(w)
    <2> DEFINE r == [wr[w] EXCEPT !.at = "replace", !.tail = KeptTail(log)]
    <2>1. Becomes(w, r) /\ wr[w].at = "open" /\ MaxBytes < Len(log)
      BY <1>4, <1>9, BytesAssumption DEF ReadTail
    <2>2. KeptTail(log) \in Seq(Bytes)
      BY <1>4, <2>1, KeptIsText
    <2>3. r \in WriterStates /\ r.tail = KeptTail(log) /\ ToWrite(r) = ToWrite(wr[w])
      <3>1. r.at = "replace" /\ r.pending = wr[w].pending /\ r.tail = KeptTail(log) /\ r \in WriterStates
        BY <1>4, <2>2 DEF WriterStates
      <3> QED BY <2>1, <3>1 DEF ToWrite
    <2> HIDE DEF r
    <2>4. \A e \in Entries : /\ Occurs(e, r.tail) => Occurs(e, log)
                             /\ Tight(e, r.tail)
      BY <1>4, <1>5, <2>1, <2>3, OccursInKept
    <2>5. OnceInv'
      BY <1>1, <1>2, <1>5, <2>1, <2>3, <2>4, OnceByWriter DEF Held
    <2> QED BY <1>1, <1>3, <2>5 DEF ToldInv
  <1>10. CASE WriterDies(w)
    <2>1. Becomes(w, NotWriting)
      BY <1>10 DEF WriterDies
    <2>2. ToWrite(NotWriting) = << >> /\ NotWriting.tail = << >>
      BY DEF ToWrite, NotWriting
    <2>3. OnceInv'
      BY <1>1, <1>2, <1>4, <1>5, <1>6, <2>1, <2>2, OnceByWriter
    <2> QED BY <1>1, <1>3, <2>3 DEF ToldInv
  <1> QED BY <1>7, <1>8, <1>9, <1>10

(* What a writer writes nobody can have told the server of.                   *)
LEMMA LoudWritersTold ==
    ASSUME ToldInv, NEW w \in Writers, WriteLine(w) \/ WriteNewline(w)
    PROVE  ToldInv'
  <1>1. FlushInv' /\ FlushInv /\ LogTypes /\ OnceInv /\ RecordInv
    BY LoudWriters DEF ToldInv, FlushInv
  <1>2. UNCHANGED <<gen, todo, mark, fl, heard, stale, unsure>>
    BY DEF WriteLine, WriteNewline, server, history
  <1>3. wr[w] \in WriterStates /\ log \in Seq(Bytes) /\ NotWriting \in WriterStates /\ wr[w].at # "idle"
    BY <1>1, QuietStates DEF LogTypes, WriteLine, WriteNewline
  <1>4. wr[w].pending \in Seq(All) /\ wr[w].pending # << >>
    BY <1>1, <1>3 DEF FlushInv, WritersInv, WriterStates
  <1>5. \A e \in Entries : /\ Tight(e, log) /\ Tight(e, wr[w].tail) /\ Once(e, ToWrite(wr[w]))
                           /\ e \in All
    BY <1>1 DEF OnceInv, HeldOnce, InPlace, All
  <1>6. fl.consumed \in Nat /\ mark \in Nat
    BY <1>1 DEF LogTypes, FlusherStates
  <1>7. CASE WriteLine(w)
    <2> DEFINE h == Head(wr[w].pending)
               r == [wr[w] EXCEPT !.at = "newline"]
    <2>1. Becomes(w, r) /\ wr[w].at = "line" /\ Adds(w, Body(h))
      BY <1>7 DEF WriteLine
    <2>2. /\ h \in All /\ wr[w].pending[1] = h /\ 1 \in DOMAIN wr[w].pending
          /\ Tail(wr[w].pending) \in Seq(All)
          /\ Len(Tail(wr[w].pending)) = Len(wr[w].pending) - 1
          /\ \A i \in 1 .. Len(Tail(wr[w].pending)) : Tail(wr[w].pending)[i] = wr[w].pending[i + 1]
      BY <1>4, HeadTailProperties
    <2>3. /\ r \in WriterStates /\ r.tail = wr[w].tail
          /\ ToWrite(r) = Tail(wr[w].pending) /\ ToWrite(wr[w]) = wr[w].pending
      <3>1. r.at = "newline" /\ r.pending = wr[w].pending /\ r.tail = wr[w].tail /\ r \in WriterStates
        BY <1>3 DEF WriterStates
      <3> QED BY <2>1, <3>1 DEF ToWrite
    <2> HIDE DEF h, r
    <2>4. Held(h, w)
      BY <2>2, <2>3 DEF Held, Occurs
    <2>5. \A i \in DOMAIN ToWrite(r) : /\ i \in Nat /\ i >= 1 /\ i + 1 \in DOMAIN ToWrite(wr[w])
                                       /\ ToWrite(r)[i] = ToWrite(wr[w])[i + 1]
      BY <1>4, <2>2, <2>3
    <2>6. \A e \in Entries : Occurs(e, ToWrite(r)) => Held(e, w)
      BY <2>5 DEF Held, Occurs
    <2>7. \A e \in Entries : Once(e, ToWrite(r))
      BY <1>5, <2>5 DEF Once
    <2>8. h \in Entries => ~ Occurs(h, ToWrite(r))
      <3> SUFFICES ASSUME h \in Entries, NEW i \in DOMAIN ToWrite(r), ToWrite(r)[i] = h PROVE FALSE
        BY DEF Occurs
      <3>1. PICK j : j = i + 1
        OBVIOUS
      <3>2. j \in DOMAIN ToWrite(wr[w]) /\ ToWrite(wr[w])[j] = h /\ j # 1
        BY <2>5, <3>1
      <3>3. 1 \in DOMAIN ToWrite(wr[w]) /\ ToWrite(wr[w])[1] = h
        BY <2>2, <2>3
      <3> QED BY <1>5, <3>2, <3>3 DEF Once
    <2>9. h \in Entries => ~ Occurs(h, log) /\ heard[h] = 0 /\ h \notin todo
      BY <1>1, <2>4 DEF OnceInv, Unwritten, HeldOnce, Coming
    <2>10. ASSUME NEW e \in Entries
           PROVE  /\ Tight(e, log')
                  /\ Occurs(e, log') => Occurs(e, log) \/ e = h
                  /\ e # h => (Upto(e, log, mark) => Upto(e, log', mark))
                              /\ (Upto(e, log, fl.consumed) => Upto(e, log', fl.consumed))
      <3>1. CASE wr[w].on # gen
        BY <1>5, <2>1, <3>1 DEF Adds
      <3>2. CASE wr[w].on = gen
        <4>1. log' = log \o Body(h)
          BY <2>1, <3>2 DEF Adds
        <4>2. Body(h) \in Seq(Bytes) /\ (Occurs(e, Body(h)) => e = h) /\ Tight(h, Body(h))
          BY <1>5, <2>2, OccursInBody
        <4>3. /\ Occurs(e, log') => Occurs(e, log) \/ Occurs(e, Body(h))
              /\ ~ Occurs(e, Body(h)) => /\ Tight(e, log) => Tight(e, log')
                                         /\ \A n \in Nat : Upto(e, log, n) => Upto(e, log', n)
              /\ ~ Occurs(e, log) /\ Tight(e, Body(h)) => Tight(e, log')
          BY <1>3, <4>1, <4>2, OccursInLonger
        <4>4. CASE e = h
          BY <2>9, <4>2, <4>3, <4>4
        <4>5. CASE e # h
          BY <1>5, <1>6, <4>2, <4>3, <4>5
        <4> QED BY <4>4, <4>5
      <3> QED BY <3>1, <3>2
    <2>11. OnceInv'
      <3>1. \A e \in Entries : Occurs(e, log') =>
               \/ Occurs(e, log) \/ Occurs(e, wr[w].tail)
               \/ Held(e, w) /\ ~ Occurs(e, ToWrite(r)) /\ e \notin todo'
        BY <1>2, <2>4, <2>8, <2>9, <2>10
      <3> QED BY <1>1, <1>2, <1>5, <2>1, <2>3, <2>6, <2>7, <2>10, <3>1, OnceByWriter
    <2>12. RecordInv'
      <3> SUFFICES ASSUME NEW e \in Entries, heard[e] > 0, e \notin unsure, Recorded(e) PROVE Recorded(e)'
        BY <1>1, <1>2 DEF RecordInv
      <3>1. e # h
        BY <2>9
      <3>2. Marked(e) => Marked(e)'
        BY <1>2, <2>10, <3>1 DEF Marked
      <3> QED BY <1>2, <2>10, <3>1, <3>2 DEF Recorded, InRound
    <2> QED BY <1>1, <2>11, <2>12 DEF ToldInv
  <1>8. CASE WriteNewline(w)
    <2> DEFINE rest == Tail(wr[w].pending)
               r == IF rest = << >> THEN NotWriting ELSE [NotWriting EXCEPT !.at = "open", !.pending = rest]
    <2>1. Becomes(w, r) /\ wr[w].at = "newline" /\ Adds(w, <<Newline>>)
      BY <1>8 DEF WriteNewline
    <2>2. rest \in Seq(All) /\ ToWrite(wr[w]) = rest
      BY <1>4, <2>1, HeadTailProperties DEF ToWrite
    <2> HIDE DEF rest
    <2>3. r \in WriterStates /\ r.tail = << >> /\ ToWrite(r) = rest
      <3>1. CASE rest = << >>
        BY <1>3, <3>1 DEF NotWriting, ToWrite
      <3>2. CASE rest # << >>
        <4>1. r = [NotWriting EXCEPT !.at = "open", !.pending = rest]
          BY <3>2
        <4>2. r.at = "open" /\ r.tail = << >> /\ r.pending = rest
          BY <4>1 DEF NotWriting
        <4>3. r \in WriterStates
          BY <1>3, <2>2, <4>1 DEF WriterStates
        <4> QED BY <4>2, <4>3 DEF ToWrite
      <3> QED BY <3>1, <3>2
    <2> HIDE DEF r
    <2>4. ASSUME NEW e \in Entries
          PROVE  /\ Tight(e, log')
                 /\ Occurs(e, log') => Occurs(e, log)
                 /\ Upto(e, log, mark) => Upto(e, log', mark)
                 /\ Upto(e, log, fl.consumed) => Upto(e, log', fl.consumed)
      <3>1. CASE wr[w].on # gen
        BY <1>5, <2>1, <3>1 DEF Adds
      <3>2. CASE wr[w].on = gen
        <4>1. log' = log \o <<Newline>>
          BY <2>1, <3>2 DEF Adds
        <4>2. <<Newline>> \in Seq(Bytes) /\ ~ Occurs(e, <<Newline>>)
          BY <1>5, OccursInBody
        <4>3. /\ Occurs(e, log') => Occurs(e, log) \/ Occurs(e, <<Newline>>)
              /\ ~ Occurs(e, <<Newline>>) => /\ Tight(e, log) => Tight(e, log')
                                             /\ \A n \in Nat : Upto(e, log, n) => Upto(e, log', n)
          BY <1>3, <4>1, <4>2, OccursInLonger
        <4> QED BY <1>5, <1>6, <4>2, <4>3
      <3> QED BY <3>1, <3>2
    <2>5. \A e \in Entries : ~ Occurs(e, << >>) /\ Tight(e, << >>)
      BY DEF Occurs, Tight
    <2>6. OnceInv'
      BY <1>1, <1>2, <1>5, <2>1, <2>2, <2>3, <2>4, <2>5, OnceByWriter DEF Held
    <2>7. RecordInv'
      <3> SUFFICES ASSUME NEW e \in Entries, heard[e] > 0, e \notin unsure, Recorded(e) PROVE Recorded(e)'
        BY <1>1, <1>2 DEF RecordInv
      <3> QED BY <1>2, <2>4 DEF Recorded, InRound, Marked
    <2> QED BY <1>1, <2>6, <2>7 DEF ToldInv
  <1> QED BY <1>7, <1>8

(* A log that is cut: whoever the server knows of is unsure from then on.     *)
LEMMA CutsTold ==
    ASSUME ToldInv, Clear \/ \E w \in Writers : ReplaceByTail(w)
    PROVE  ToldInv'
  <1>1. FlushInv' /\ LogTypes /\ OnceInv
    BY CutsTheLog DEF ToldInv, FlushInv
  <1>2. \E text \in Seq(Bytes) : Cut(text) /\ UNCHANGED <<todo, mark, fl, server>>
    <2>1. CASE Clear
      <3>1. << >> \in Seq(Bytes)
        OBVIOUS
      <3> QED BY <2>1, <3>1 DEF Clear
    <2>2. ASSUME NEW w \in Writers, ReplaceByTail(w)
          PROVE  \E text \in Seq(Bytes) : Cut(text) /\ UNCHANGED <<todo, mark, fl, server>>
      <3>1. wr[w].tail \in Seq(Bytes)
        BY <1>1 DEF LogTypes, WriterStates
      <3> QED BY <2>2, <3>1 DEF ReplaceByTail
    <2> QED BY <2>1, <2>2
  <1>3. UNCHANGED <<todo, mark, fl, heard, refused>>
    BY <1>2 DEF server
  <1>4. RecordInv'
    <2>1. \A e \in Entries : e \in All
      BY DEF All
    <2>2. \A e \in All : heard[e] > 0 => e \in unsure'
      BY <1>2 DEF Cut
    <2> QED BY <1>3, <2>1, <2>2 DEF RecordInv
  <1>5. \A e \in Entries : ~ Occurs(e, << >>) /\ Tight(e, << >>)
    BY DEF Occurs, Tight
  <1>6. CASE Clear
    <2>1. log' = << >> /\ wr' = wr
      BY <1>6 DEF Clear, Cut
    <2>2. OnceInv'
      BY <1>1, <1>3, <1>5, <2>1 DEF OnceInv, Unwritten, HeldOnce, InPlace, Held, Coming
    <2> QED BY <1>1, <1>4, <2>2 DEF ToldInv
  <1>7. ASSUME NEW w \in Writers, ReplaceByTail(w) PROVE ToldInv'
    <2> DEFINE more == <<Note>> \o wr[w].pending
               r == [wr[w] EXCEPT !.at = "open", !.tail = << >>, !.pending = more]
    <2>1. wr[w] \in WriterStates /\ wr[w].at = "replace" /\ wr[w].pending \in Seq(All)
      BY <1>1, <1>7 DEF LogTypes, ReplaceByTail, WriterStates
    <2>2. Becomes(w, r) /\ log' = wr[w].tail
      BY <1>7, <2>1 DEF ReplaceByTail, WriterStates, Cut
    <2>3. /\ more \in Seq(All)
          /\ \A i \in DOMAIN more : more[i] = Note \/ (i - 1 \in DOMAIN wr[w].pending /\ more[i] = wr[w].pending[i - 1] /\ i \in Nat)
      <3>1. <<Note>> \in Seq(All) /\ Len(<<Note>>) = 1 /\ <<Note>>[1] = Note
        BY DEF All
      <3>2. /\ more \in Seq(All)
            /\ Len(more) = 1 + Len(wr[w].pending)
            /\ \A i \in 1 .. 1 + Len(wr[w].pending) :
                 more[i] = IF i <= 1 THEN <<Note>>[i] ELSE wr[w].pending[i - 1]
        BY <2>1, <3>1, ConcatProperties
      <3> HIDE DEF more
      <3>3. ASSUME NEW i \in DOMAIN more
            PROVE  more[i] = Note \/ (i - 1 \in DOMAIN wr[w].pending /\ more[i] = wr[w].pending[i - 1] /\ i \in Nat)
        <4>1. i \in 1 .. 1 + Len(wr[w].pending)
          BY <3>2
        <4>2. CASE i = 1
          BY <3>1, <3>2, <4>1, <4>2
        <4>3. CASE i # 1
          BY <2>1, <3>2, <4>1, <4>3
        <4> QED BY <4>2, <4>3
      <3> QED BY <3>2, <3>3
    <2> HIDE DEF more
    <2>4. r \in WriterStates /\ ToWrite(r) = more /\ r.tail = << >> /\ ToWrite(wr[w]) = wr[w].pending
      <3>1. << >> \in Seq(Bytes)
        OBVIOUS
      <3>2. r.at = "open" /\ r.pending = more /\ r.tail = << >>
        BY <2>1 DEF WriterStates
      <3>3. r \in WriterStates
        BY <2>1, <2>3, <3>1 DEF WriterStates
      <3> QED BY <2>1, <3>2, <3>3 DEF ToWrite
    <2> HIDE DEF r
    <2>5. \A e \in Entries : e # Note
      BY EntriesAssumption
    <2>6. \A e \in Entries : /\ Tight(e, wr[w].tail) /\ Once(e, ToWrite(wr[w]))
      BY <1>1 DEF OnceInv, HeldOnce, InPlace
    <2>7. \A e \in Entries : Occurs(e, ToWrite(r)) => Held(e, w)
      BY <2>3, <2>4, <2>5 DEF Held, Occurs
    <2>8. ASSUME NEW e \in Entries PROVE Once(e, ToWrite(r))
      <3> SUFFICES ASSUME NEW i \in DOMAIN more, NEW j \in DOMAIN more, more[i] = e, more[j] = e PROVE i = j
        BY <2>4 DEF Once
      <3>1. /\ i - 1 \in DOMAIN wr[w].pending /\ wr[w].pending[i - 1] = e /\ i \in Nat
            /\ j - 1 \in DOMAIN wr[w].pending /\ wr[w].pending[j - 1] = e /\ j \in Nat
        BY <2>3, <2>5
      <3>2. i - 1 = j - 1
        BY <2>4, <2>6, <3>1 DEF Once
      <3> QED BY <3>1, <3>2
    <2>9. OnceInv'
      BY <1>1, <1>3, <1>5, <2>2, <2>4, <2>6, <2>7, <2>8, OnceByWriter
    <2> QED BY <1>1, <1>4, <2>9 DEF ToldInv
  <1> QED BY <1>6, <1>7

(* A step of the flusher: it reads what is in the log and tells of what it    *)
(* has read.                                                                  *)
LEMMA OnceByFlusher ==
    ASSUME OnceInv, UNCHANGED file,
           \A e \in Entries : Occurs(e, fl'.bytes) => Occurs(e, fl.bytes) \/ Occurs(e, log),
           \A e \in Entries : heard'[e] = heard[e] \/ Occurs(e, fl.bytes)
    PROVE  OnceInv'
  <1>1. UNCHANGED <<log, todo, wr>>
    BY DEF file
  <1> SUFFICES ASSUME NEW e \in Entries PROVE Unwritten(e)' /\ HeldOnce(e)' /\ InPlace(e)'
    BY DEF OnceInv
  <1>2. Unwritten(e) /\ HeldOnce(e) /\ InPlace(e)
    BY DEF OnceInv
  <1>3. HeldOnce(e)' /\ InPlace(e)' /\ (Coming(e)' => Coming(e))
    BY <1>1, <1>2 DEF HeldOnce, InPlace, Held, Coming
  <1>4. Unwritten(e)'
    BY <1>1, <1>2, <1>3 DEF Unwritten
  <1> QED BY <1>3, <1>4

(* Where the line of an entry that is asked for is.                           *)
LEMMA AskedIsThere ==
    ASSUME LogTypes, NEW e \in All, Asks(e)
    PROVE  /\ fl.cursor + 1 \in DOMAIN fl.bytes /\ fl.bytes[fl.cursor + 1] = e
           /\ End(fl) \in DOMAIN fl.bytes /\ End(fl) \in Nat
           /\ fl.cursor + 1 < End(fl)
           /\ e \in Long => fl.cursor + 2 < End(fl)
  <1>1. fl.bytes \in Seq(Bytes) /\ fl.cursor \in Nat /\ NewlinesAfter(fl.bytes, fl.cursor) # {}
    BY DEF LogTypes, FlusherStates, Asks, HasLine
  <1> DEFINE c == fl.cursor
             z == End(fl)
  <1>2. z \in NewlinesAfter(fl.bytes, c)
    BY <1>1, LineEndIsLeast DEF End
  <1>3. z \in Nat /\ c < z /\ z \in DOMAIN fl.bytes
    BY <1>1, <1>2 DEF NewlinesAfter
  <1>4. Body(e) = SubSeq(fl.bytes, c + 1, z - 1)
    BY DEF Asks, Report, EntriesOf
  <1> HIDE DEF c, z
  <1>5. /\ Len(Body(e)) = (IF c + 1 <= z - 1 THEN z - 1 - (c + 1) + 1 ELSE 0)
        /\ \A i \in 1 .. z - 1 - (c + 1) + 1 : Body(e)[i] = fl.bytes[c + 1 + i - 1]
    <2>1. c \in Nat
      BY <1>1 DEF c
    <2>2. \A i \in c + 1 .. z - 1 : fl.bytes[i] \in Bytes
      BY <1>1, <1>3, <2>1
    <2> QED BY <1>3, <1>4, <2>1, <2>2, SubSeqProperties
  <1>6. Body(e)[1] = e /\ Len(Body(e)) \in Nat /\ Len(Body(e)) >= 1 /\ (e \in Long => Len(Body(e)) = 2)
    BY DEF Body
  <1>7. c \in Nat /\ c + 1 < z /\ (e \in Long => c + 2 < z)
    <2>1. c \in Nat
      BY <1>1 DEF c
    <2>2. c + 1 <= z - 1 /\ Len(Body(e)) = z - 1 - c
      BY <1>3, <1>5, <1>6, <2>1
    <2>3. e \in Long => z - 1 - c = 2
      BY <1>6, <2>2
    <2> QED BY <1>3, <2>1, <2>2, <2>3
  <1>8. fl.bytes[c + 1] = e
    <2>1. 1 \in 1 .. z - 1 - (c + 1) + 1
      BY <1>3, <1>7
    <2>2. Body(e)[1] = fl.bytes[c + 1 + 1 - 1]
      BY <1>5, <2>1
    <2>3. c + 1 + 1 - 1 = c + 1
      BY <1>7
    <2> QED BY <1>6, <2>2, <2>3
  <1>9. c + 1 \in DOMAIN fl.bytes
    BY <1>1, <1>3, <1>7
  <1> QED BY <1>3, <1>7, <1>8, <1>9 DEF c, z

(* In a file that is still there, it is not before the place the round has    *)
(* come to, and it is all of what the log says of the entry.                  *)
LEMMA AskedIsAhead ==
    ASSUME FlushInv, NEW e \in All, Asks(e), fl.on = gen, Tight(e, log)
    PROVE  ~ Upto(e, log, fl.consumed) /\ Upto(e, log, End(fl))
  <1>1. LogTypes /\ log \in Seq(Bytes) /\ fl.bytes \in Seq(Bytes) /\ fl.cursor \in Nat /\ fl.consumed = fl.cursor
    BY DEF FlushInv, LogTypes, FlusherStates, RoundInv
  <1>2. Prefix(fl.bytes, log)
    BY DEF FlushInv, RoundInv, InRound, Asks
  <1> DEFINE c == fl.cursor
             z == End(fl)
  <1>3. /\ c + 1 \in DOMAIN fl.bytes /\ fl.bytes[c + 1] = e /\ z \in Nat /\ c + 1 < z
        /\ e \in Long => c + 2 < z
    BY <1>1, AskedIsThere
  <1> HIDE DEF c, z
  <1>4. c \in Nat /\ c + 1 \in DOMAIN log /\ log[c + 1] = e
    BY <1>1, <1>2, <1>3 DEF Prefix, c
  <1>5. ~ Upto(e, log, c)
    <2>1. ~ (c + 1 <= c)
      BY <1>4
    <2>2. PICK k : k = c + 1
      OBVIOUS
    <2> QED BY <1>4, <2>1, <2>2 DEF Upto
  <1>6. Upto(e, log, z)
    <2> SUFFICES ASSUME NEW k \in DOMAIN log, log[k] = e, z < k PROVE FALSE
      BY <1>1, <1>3 DEF Upto
    <2>1. PICK j : j = c + 1
      OBVIOUS
    <2>2. j \in DOMAIN log /\ log[j] = e /\ j < k
      BY <1>1, <1>3, <1>4, <2>1
    <2>3. k = j + 1 /\ e \in Long
      BY <2>2 DEF Tight
    <2> QED BY <1>3, <1>4, <2>1, <2>3
  <1> QED BY <1>1, <1>5, <1>6 DEF c, z

(* A round that reads on: where it was past, it stays past.                   *)
LEMMA RecordMoves ==
    ASSUME ToldInv, fl.at = "lines", fl'.at \in {"lines", "save"}, fl'.on = fl.on, fl'.start = fl.start,
           fl'.consumed \in Nat, fl.consumed <= fl'.consumed, fl.sent \subseteq fl'.sent,
           UNCHANGED <<log, gen, mark, stale>>, unsure \subseteq unsure',
           \A e \in Entries :
               \/ heard'[e] = heard[e] \/ e \in unsure'
               \/ /\ fl.on = gen /\ Upto(e, log, fl'.consumed)
                  /\ e \in fl'.sent /\ fl'.consumed # fl.start
    PROVE  RecordInv'
  <1> SUFFICES ASSUME NEW e \in Entries, heard'[e] > 0, e \notin unsure' PROVE Recorded(e)'
    BY DEF RecordInv
  <1>1. InRound /\ InRound'
    BY DEF InRound
  <1>2. CASE heard'[e] = heard[e]
    <2>1. Recorded(e)
      BY <1>2 DEF ToldInv, RecordInv
    <2>2. fl.on = gen /\ Upto(e, log, fl.consumed) /\ ((e \in fl.sent /\ fl.consumed # fl.start) \/ Marked(e))
      BY <1>1, <2>1 DEF Recorded
    <2>3. fl.start \in Nat /\ fl.consumed \in Nat /\ fl.start <= fl.consumed /\ log \in Seq(Bytes)
      BY DEF ToldInv, FlushInv, LogTypes, FlusherStates, RoundInv
    <2>4. Upto(e, log, fl'.consumed)
      BY <2>2, <2>3 DEF Upto
    <2>5. fl.consumed # fl.start => fl'.consumed # fl.start
      BY <2>3
    <2> QED BY <1>1, <2>2, <2>4, <2>5 DEF Recorded, Marked
  <1>3. CASE /\ fl.on = gen /\ Upto(e, log, fl'.consumed)
             /\ e \in fl'.sent /\ fl'.consumed # fl.start
    BY <1>1, <1>3 DEF Recorded
  <1> QED BY <1>2, <1>3

(* The steps of a round between its beginning and its end: what the server    *)
(* is told a second time is among the unsure entries.                         *)
LEMMA InTheRoundTold ==
    ASSUME ToldInv, LinesEnd \/ Skip \/ \E e \in All : Taken(e) \/ Unanswered(e) \/ AnswerLost(e)
    PROVE  ToldInv' /\ \A e \in Entries : heard[e] = 1 /\ heard'[e] = 2 => e \in unsure'
  <1>1. FlushInv' /\ FlushInv /\ LogTypes /\ OnceInv /\ RecordInv /\ fl \in FlusherStates
    BY InTheRound DEF ToldInv, FlushInv, LogTypes
  <1>2. /\ fl.bytes \in Seq(Bytes) /\ fl.cursor \in Nat /\ fl.start \in Nat /\ fl.consumed \in Nat
        /\ fl.start <= fl.consumed /\ fl.consumed = fl.cursor
    BY <1>1 DEF FlushInv, RoundInv, FlusherStates
  <1>3. ASSUME HasLine(fl) PROVE End(fl) \in Nat /\ fl.cursor < End(fl)
    BY <1>2, <1>3, LineEndIsLeast DEF HasLine, End, NewlinesAfter
  <1>4. CASE LinesEnd \/ Skip
    <2>1. /\ UNCHANGED <<file, mark, server, history>> /\ fl.at = "lines"
          /\ fl' = Stops(fl) \/ (HasLine(fl) /\ fl' = Passes(fl))
      BY <1>4 DEF LinesEnd, RunsDry, Skip
    <2>2. UNCHANGED <<log, gen, heard, stale, unsure>>
      BY <2>1 DEF file, server, history
    <2>3. /\ fl'.at \in {"lines", "save"} /\ fl'.bytes = fl.bytes /\ fl'.on = fl.on /\ fl'.start = fl.start
          /\ fl'.consumed \in Nat /\ fl.consumed <= fl'.consumed /\ fl'.sent = fl.sent
      <3>1. CASE fl' = Stops(fl)
        BY <1>1, <1>2, <3>1, StopsThere
      <3>2. CASE HasLine(fl) /\ fl' = Passes(fl)
        BY <1>1, <1>2, <1>3, <2>1, <3>2, PassesOn
      <3> QED BY <2>1, <3>1, <3>2
    <2>4. OnceInv'
      BY <1>1, <2>1, <2>2, <2>3, OnceByFlusher
    <2>5. RecordInv'
      BY <2>1, <2>2, <2>3, RecordMoves
    <2> QED BY <1>1, <2>2, <2>4, <2>5 DEF ToldInv
  <1>5. ASSUME NEW d \in All, Taken(d) \/ Unanswered(d) \/ AnswerLost(d)
        PROVE  ToldInv' /\ \A e \in Entries : heard[e] = 1 /\ heard'[e] = 2 => e \in unsure'
    <2>1. Asks(d) /\ fl.at = "lines" /\ HasLine(fl) /\ UNCHANGED <<file, mark, stale>> /\ unsure \subseteq unsure'
      BY <1>5 DEF Taken, Uploaded, Rejected, Unanswered, AnswerLost, Asks, history
    <2>2. UNCHANGED <<log, gen>>
      BY <2>1 DEF file
    <2>3. \A e \in Entries : e \in All /\ (heard'[e] = heard[e] \/ e = d)
      BY <1>1, <1>5 DEF Taken, Uploaded, Rejected, Unanswered, AnswerLost, server, Hears, LogTypes, All
    <2>4. \A e \in Entries : Tight(e, log)
      BY <1>1 DEF OnceInv, InPlace
    <2>5. /\ fl.cursor + 1 \in DOMAIN fl.bytes /\ fl.bytes[fl.cursor + 1] = d
      BY <1>1, <2>1, AskedIsThere
    <2>6. Occurs(d, fl.bytes)
      BY <2>5 DEF Occurs
    <2>7. d \in Entries /\ fl.on = gen => ~ Upto(d, log, fl.consumed) /\ Upto(d, log, End(fl))
      BY <1>1, <2>1, <2>4, AskedIsAhead
    <2> DEFINE f == Sent(d)
               g == [Sent(d) EXCEPT !.uploaded = @ + 1]
    <2>8. /\ f \in FlusherStates /\ f.at = "lines" /\ f.bytes = fl.bytes /\ f.on = fl.on /\ f.start = fl.start
          /\ f.consumed = fl.consumed /\ f.cursor = fl.cursor /\ f.sent = fl.sent \cup {d}
      BY <1>1, <2>1, SentThere
    <2>9. /\ g \in FlusherStates /\ g.at = "lines" /\ g.bytes = fl.bytes /\ g.on = fl.on /\ g.start = fl.start
          /\ g.consumed = fl.consumed /\ g.cursor = fl.cursor /\ g.sent = fl.sent \cup {d}
      BY <2>8, CountedThere
    <2>10. \/ fl' = Stops(f) /\ (UNCHANGED heard \/ d \in unsure')
           \/ fl' = Passes(f) /\ UNCHANGED heard
           \/ fl' = Passes(g) /\ (d \in unsure' \/ fl.on = gen)
      BY <1>5 DEF Taken, Uploaded, Rejected, Unanswered, AnswerLost, server
    <2> HIDE DEF f, g
    <2>11. HasLine(f) /\ HasLine(g) /\ End(f) = End(fl) /\ End(g) = End(fl)
      BY <2>1, <2>8, <2>9 DEF HasLine, End
    <2>12. /\ fl'.at \in {"lines", "save"} /\ fl'.bytes = fl.bytes /\ fl'.on = fl.on /\ fl'.start = fl.start
           /\ fl'.sent = fl.sent \cup {d}
           /\ \/ fl'.consumed = fl.consumed /\ (UNCHANGED heard \/ d \in unsure')
              \/ fl'.consumed = End(fl) /\ (UNCHANGED heard \/ d \in unsure' \/ fl.on = gen)
      <3>1. CASE fl' = Stops(f) /\ (UNCHANGED heard \/ d \in unsure')
        BY <2>8, <3>1, StopsThere
      <3>2. CASE fl' = Passes(f) /\ UNCHANGED heard
        BY <2>8, <2>11, <3>2, PassesOn
      <3>3. CASE fl' = Passes(g) /\ (d \in unsure' \/ fl.on = gen)
        BY <2>9, <2>11, <3>3, PassesOn
      <3> QED BY <2>10, <3>1, <3>2, <3>3
    <2>13. fl'.consumed \in Nat /\ fl.consumed <= fl'.consumed
      BY <1>2, <1>3, <2>1, <2>12
    <2>14. OnceInv'
      BY <1>1, <2>1, <2>3, <2>6, <2>12, OnceByFlusher
    <2>15. ASSUME NEW e \in Entries
           PROVE  \/ heard'[e] = heard[e] \/ e \in unsure'
                  \/ /\ fl.on = gen /\ Upto(e, log, fl'.consumed)
                     /\ e \in fl'.sent /\ fl'.consumed # fl.start
      <3> SUFFICES ASSUME heard'[e] # heard[e], e \notin unsure'
                   PROVE  /\ fl.on = gen /\ Upto(e, log, fl'.consumed)
                          /\ e \in fl'.sent /\ fl'.consumed # fl.start
        OBVIOUS
      <3>1. e = d /\ fl'.consumed = End(fl) /\ fl.on = gen
        BY <2>3, <2>12
      <3>2. fl'.consumed # fl.start
        BY <1>2, <1>3, <2>1, <3>1
      <3> QED BY <2>7, <2>12, <3>1, <3>2
    <2>16. RecordInv'
      BY <2>1, <2>2, <2>12, <2>13, <2>15, RecordMoves
    <2>17. ASSUME NEW e \in Entries, heard[e] = 1, heard'[e] = 2 PROVE e \in unsure'
      <3>1. e = d
        BY <2>3, <2>17
      <3> SUFFICES ASSUME e \notin unsure PROVE FALSE
        BY <2>1
      <3>2. Recorded(e) /\ InRound
        BY <1>1, <2>1, <2>17 DEF RecordInv, InRound
      <3> QED BY <2>7, <3>1, <3>2 DEF Recorded
    <2> QED BY <1>1, <2>14, <2>16, <2>17 DEF ToldInv
  <1> QED BY <1>4, <1>5

(* A round begins behind what the watermark records.                          *)
LEMMA RoundBeginsTold ==
    ASSUME ToldInv, FlushBegins
    PROVE  ToldInv'
  <1> DEFINE start == Start(mark, Len(log))
  <1>1. FlushInv' /\ FlushInv /\ LogTypes /\ OnceInv /\ RecordInv
    BY RoundBegins DEF ToldInv, FlushInv
  <1>2. /\ fl'.at = "lines" /\ fl'.bytes = log /\ fl'.on = gen
        /\ fl'.start = start /\ fl'.consumed = start /\ fl.at = "wait"
    BY DEF FlushBegins, BetweenRounds
  <1>3. UNCHANGED <<file, mark, heard, stale, unsure>> /\ UNCHANGED <<log, gen>>
    BY DEF FlushBegins, file, server
  <1>4. OnceInv'
    BY <1>1, <1>2, <1>3, OnceByFlusher
  <1>5. RecordInv'
    <2> SUFFICES ASSUME NEW e \in Entries, heard[e] > 0, e \notin unsure PROVE Recorded(e)'
      BY <1>3 DEF RecordInv
    <2>1. Marked(e)
      BY <1>1, <1>2 DEF RecordInv, Recorded, InRound
    <2>2. AtLine(log, mark) /\ log \in Seq(Bytes) /\ mark \in Nat
      BY <1>1, <2>1 DEF Marked, FlushInv, MarkInv, LogTypes
    <2>3. start = mark
      BY <2>2 DEF Start, AtLine
    <2>4. Marked(e)' /\ Upto(e, log, mark)
      BY <1>3, <2>1 DEF Marked
    <2> QED BY <1>2, <1>3, <2>3, <2>4 DEF Recorded, InRound
  <1> QED BY <1>1, <1>4, <1>5 DEF ToldInv

(* A round that is over has saved what it knows, or leaves it unsure.         *)
LEMMA RoundEndsTold ==
    ASSUME ToldInv, Save \/ SaveFails \/ LauncherDies \/ LauncherStarts
    PROVE  ToldInv'
  <1>1. FlushInv' /\ FlushInv /\ LogTypes /\ OnceInv /\ RecordInv
    BY RoundEnds DEF ToldInv, FlushInv
  <1>2. fl'.bytes = << >> /\ fl'.at \in {"wait", "off"}
    <2>1. fl' = BetweenRounds \/ fl' = Off
      BY DEF Save, SaveFails, LauncherDies, LauncherStarts
    <2>2. Off.at = "off" /\ Off.bytes = << >> /\ BetweenRounds.at = "wait" /\ BetweenRounds.bytes = << >>
      BY DEF Off, BetweenRounds
    <2> QED BY <2>1, <2>2
  <1>3. UNCHANGED <<file, log, gen, heard>> /\ unsure \subseteq unsure'
    BY DEF Save, SaveFails, LauncherDies, LauncherStarts, file, server, history
  <1>4. \A e \in Entries : ~ Occurs(e, << >>)
    BY DEF Occurs
  <1>5. OnceInv'
    BY <1>1, <1>2, <1>3, <1>4, OnceByFlusher
  <1>6. RecordInv'
    <2> SUFFICES ASSUME NEW e \in Entries, heard[e] > 0, e \notin unsure' PROVE Marked(e)'
      BY <1>2, <1>3 DEF RecordInv, Recorded, InRound
    <2>1. Recorded(e)
      BY <1>1, <1>3 DEF RecordInv
    <2>2. CASE Save
      <3>1. InRound /\ UNCHANGED log
        BY <1>3, <2>2 DEF Save, InRound
      <3>2. fl.on = gen /\ Upto(e, log, fl.consumed) /\ ((e \in fl.sent /\ fl.consumed # fl.start) \/ Marked(e))
        BY <2>1, <3>1 DEF Recorded
      <3>3. CASE fl.consumed = fl.start
        BY <2>2, <3>1, <3>2, <3>3 DEF Save, Marked
      <3>4. CASE fl.consumed # fl.start
        <4>1. mark' = fl.consumed /\ ~ stale'
          BY <2>2, <3>2, <3>4 DEF Save
        <4> QED BY <3>1, <3>2, <4>1 DEF Marked
      <3> QED BY <3>3, <3>4
    <2>3. CASE SaveFails \/ LauncherDies
      <3>1. e \notin fl.sent /\ UNCHANGED <<log, mark, stale>>
        BY <1>3, <2>3 DEF SaveFails, LauncherDies
      <3>2. Marked(e)
        BY <2>1, <3>1 DEF Recorded
      <3> QED BY <3>1, <3>2 DEF Marked
    <2>4. CASE LauncherStarts
      <3>1. ~ InRound /\ UNCHANGED <<log, mark, stale>>
        BY <1>3, <2>4 DEF LauncherStarts, InRound, history
      <3> QED BY <2>1, <3>1 DEF Recorded, Marked
    <2> QED BY <2>2, <2>3, <2>4
  <1> QED BY <1>1, <1>5, <1>6 DEF ToldInv

(* Every step keeps the invariant and tells the server again only of what is  *)
(* unsure.                                                                    *)
LEMMA StepToldInv ==
    ToldInv /\ [DiagnosticsNext]_diagnosticsVars
        => ToldInv' /\ (\A e \in Entries : heard[e] = 1 /\ heard'[e] = 2 => e \in unsure')
  <1> SUFFICES ASSUME ToldInv, [DiagnosticsNext]_diagnosticsVars
               PROVE  ToldInv' /\ (\A e \in Entries : heard[e] = 1 /\ heard'[e] = 2 => e \in unsure')
    OBVIOUS
  <1>1. heard' = heard => \A e \in Entries : heard[e] = 1 /\ heard'[e] = 2 => e \in unsure'
    OBVIOUS
  <1>2. CASE UNCHANGED diagnosticsVars
    <2>1. UNCHANGED <<file, log, gen, todo, wr, mark, fl, heard, history>>
      BY <1>2 DEF diagnosticsVars, file, server
    <2>2. FlushInv'
      BY StepFlushInv DEF ToldInv
    <2>3. OnceInv'
      BY <2>1, OnceByFlusher DEF ToldInv
    <2>4. RecordInv'
      BY <2>1, RecordStays DEF ToldInv
    <2> QED BY <1>1, <2>1, <2>2, <2>3, <2>4 DEF ToldInv
  <1>3. ASSUME NEW w \in Writers, (\E e \in Entries : AppendBegins(w, e)) \/ WriterStep(w) \/ WriterDies(w)
        PROVE  ToldInv' /\ heard' = heard
    <2>1. CASE (\E e \in Entries : AppendBegins(w, e)) \/ Open(w) \/ ReadTail(w) \/ WriterDies(w)
      <3>1. heard' = heard
        BY <2>1 DEF AppendBegins, Open, ReadTail, WriterDies, server
      <3> QED BY <2>1, <3>1, QuietWritersTold
    <2>2. CASE ReplaceByTail(w)
      <3>1. heard' = heard
        BY <2>2 DEF ReplaceByTail, server
      <3> QED BY <2>2, <3>1, CutsTold
    <2>3. CASE WriteLine(w) \/ WriteNewline(w)
      <3>1. heard' = heard
        BY <2>3 DEF WriteLine, WriteNewline, server
      <3> QED BY <2>3, <3>1, LoudWritersTold
    <2> QED BY <1>3, <2>1, <2>2, <2>3 DEF WriterStep
  <1>4. CASE Clear
    <2>1. heard' = heard
      BY <1>4 DEF Clear, server
    <2> QED BY <1>1, <1>4, <2>1, CutsTold
  <1>5. CASE FlushBegins
    <2>1. heard' = heard
      BY <1>5 DEF FlushBegins, server
    <2> QED BY <1>1, <1>5, <2>1, RoundBeginsTold
  <1>6. CASE Save \/ SaveFails \/ LauncherDies \/ LauncherStarts
    <2>1. heard' = heard
      BY <1>6 DEF Save, SaveFails, LauncherDies, LauncherStarts, server
    <2> QED BY <1>1, <1>6, <2>1, RoundEndsTold
  <1>7. CASE LinesEnd \/ Skip \/ \E e \in All : Taken(e) \/ Unanswered(e) \/ AnswerLost(e)
    BY <1>7, InTheRoundTold
  <1> QED BY <1>1, <1>2, <1>3, <1>4, <1>5, <1>6, <1>7 DEF DiagnosticsNext, FlushStep

(* The server is told of an entry again only when no watermark could tell:    *)
(* its answer or the watermark was lost, or the log was cut                   *)
(* (flush_diagnostic_log, write_watermark).                                   *)
THEOREM UploadTellsOnce == DiagnosticsSpec => ToldOnce
  <1>1. DiagnosticsSpec => []ToldInv
    BY InitToldInv, StepToldInv, PTL DEF DiagnosticsSpec
  <1>2. ToldInv /\ [DiagnosticsNext]_diagnosticsVars
            => [\A e \in Entries : heard[e] = 1 /\ heard'[e] = 2 => e \in unsure']_heard
    BY StepToldInv
  <1> QED BY <1>1, <1>2, PTL DEF DiagnosticsSpec, ToldOnce
=============================================================================
