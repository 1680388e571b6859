------------------------------ MODULE Launcher ------------------------------
(***************************************************************************)
(* The life of the launcher processes and of the one Codex they share:      *)
(* the single-instance guard and the second instance that waits or takes    *)
(* over (main.rs, ports.rs, existing_instance.rs), a launch with its        *)
(* helper, its injection and its error paths, the bridge watchdog with its  *)
(* recovery, and the exit (launcher.rs, watcher.rs).                        *)
(*                                                                         *)
(* Durations appear in four guards only, each named where it is used: a     *)
(* process that leaves does so before its successor gives up on the guard;  *)
(* a watchdog that has handed over does not tick again; a failed launcher   *)
(* records its failure before the next one has launched Codex; a Codex that *)
(* relaunches itself does so within the three polls of the exit monitor.    *)
(***************************************************************************)
EXTENDS Naturals, FiniteSets

CONSTANTS
    Launchers,        \* process identities, reused once a process is gone
    NoOne,            \* no launcher
    Old,              \* a launcher from before the lock file: it only holds the port
    Reserved,         \* the operating system forbids to bind the guard port
    RecoverAfter,     \* BRIDGE_RECOVER_AFTER_FAILURES (6 in the code)
    HealthThreshold,  \* BRIDGE_HEALTH_FAILURE_THRESHOLD
    EmptyPolls        \* polls without Codex after which it counts as closed

ASSUME IdentitiesDiffer ==
    /\ NoOne \notin Launchers /\ Old \notin Launchers /\ Reserved \notin Launchers
    /\ NoOne # Old /\ NoOne # Reserved /\ Old # Reserved
ASSUME ThresholdsPositive ==
    /\ RecoverAfter \in Nat \ {0}
    /\ HealthThreshold \in Nat \ {0}
    /\ EmptyPolls \in Nat \ {0}

VARIABLES
    pc,        \* where each launcher process is
    heir,      \* the launchers started with --await-guard
    lock,      \* who holds the lock file
    guardPort, \* who listens on the guard port
    helper,    \* the port each launcher's helper is bound to, if any
    settings,  \* enhancements_enabled and the protocol proxy
    codex,     \* the Codex app: how it runs, its window, whose bridge its page holds,
               \*   whether the watchdog has yet to see this browser
    fails,     \* consecutive_failures of the primary's watchdog
    health,    \* health_failures of the primary's watchdog
    streak,    \* empty_streak of the primary's exit monitor
    status,    \* latest-status.json: who wrote it, and what (status and message)
    told,      \* the processes that have shown their one alert
    mended     \* ghost: recoveries since the watchdog last found the bridge usable

vars == <<pc, heir, lock, guardPort, helper, settings, codex, fails, health,
           streak, status, told, mended>>
guardVars == <<lock, guardPort>>
watchVars == <<fails, health, mended>>
appVars   == <<codex, settings>>

(* Steps of a process, in the order of launcher_main.                       *)
Waiting == {"guard", "stale", "retry", "second", "activate"}
Starting == {"prepare", "helper", "launch", "inject", "bridged", "degraded", "plain"}
Running == {"watch", "idle"}
Ending == {"failKill", "failKeep", "recover", "leaving", "closing"}
Dropping == {"dropLock", "dropFail"}
Steps == {"off", "noGuard", "dropPort", "portFail", "late"}
         \cup Waiting \cup Starting \cup Running \cup Ending \cup Dropping

(* The steps at which a process is the primary instance.                    *)
Primary == Starting \cup Running \cup Ending \cup Dropping

NoCodex == [kind |-> "none", window |-> FALSE, served |-> NoOne, fresh |-> FALSE]
Opened(k) == [kind |-> k, window |-> TRUE, served |-> NoOne, fresh |-> FALSE]

Goto(l, s) == pc' = [pc EXCEPT ![l] = s]

(* What a process keeps in memory ends with it: its alert, the arguments it *)
(* was started with, the counters of its watchdog and of its exit monitor.  *)
Gone(l) ==
    /\ Goto(l, "off")
    /\ heir' = heir \ {l}
    /\ told' = told \ {l}
CountersReset == fails' = 0 /\ health' = 0 /\ mended' = 0 /\ streak' = 0

Init ==
    /\ pc = [l \in Launchers |-> "off"]
    /\ heir = {}
    /\ lock = NoOne
    /\ guardPort \in {NoOne, Old, Reserved}
    /\ helper = [l \in Launchers |-> "none"]
    /\ settings \in [enhance : BOOLEAN, proxy : BOOLEAN]
    /\ codex \in {NoCodex, Opened("plain")}
    /\ fails = 0 /\ health = 0 /\ streak = 0 /\ mended = 0
    /\ status = [by |-> NoOne, kind |-> "none"]
    /\ told = {}

-----------------------------------------------------------------------------
(* The single-instance guard.                                               *)

(* The user starts ReCodex.                                                 *)
UserStarts(l) ==
    /\ pc[l] = "off"
    /\ Goto(l, "guard")
    /\ UNCHANGED <<heir, guardVars, helper, appVars, watchVars, streak, status, told>>

(* Wrong variant: an heir that never stops trying.                          *)
TryForEver(l) == UNCHANGED heir /\ Goto(l, IF l \in heir THEN "guard" ELSE "second")

(* An heir asks for the guard 41 times; any of them may be the last.        *)
TryAgain(l) ==
    \/ Goto(l, "second") /\ heir' = heir \ {l}
    \/ l \in heir /\ Goto(l, "guard") /\ UNCHANGED heir

(* Lock file first, then the port; a port that may not be bound leaves the  *)
(* lock file as the only guard.                                             *)
GuardIsFree == lock = NoOne /\ guardPort \in {NoOne, Reserved}
TakeGuard(l) ==
    /\ GuardIsFree
    /\ lock' = l
    /\ guardPort' = IF guardPort = Reserved THEN Reserved ELSE l

GuardTaken(l) ==
    /\ pc[l] \in {"guard", "retry"}
    /\ TakeGuard(l)
    /\ Goto(l, "prepare")
    /\ heir' = heir \ {l}
    /\ UNCHANGED <<helper, appVars, watchVars, streak, status, told>>

(* WouldBlock: a live launcher holds the lock file.  An heir asks again for *)
(* as long as the holder is on its way out: that takes less than its tries. *)
HolderIsLeaving == lock # NoOne /\ pc[lock] = "leaving"
GuardRefused(l) ==
    /\ pc[l] \in {"guard", "retry"}
    /\ lock # NoOne
    /\ l \in heir => ~HolderIsLeaving
    /\ Goto(l, "second")
    /\ heir' = heir \ {l}
    /\ UNCHANGED <<guardVars, helper, appVars, watchVars, streak, status, told>>

(* AddrInUse: the lock file was free, but somebody answers on the port.     *)
PortTaken(l) ==
    /\ pc[l] \in {"guard", "retry"}
    /\ lock = NoOne /\ guardPort \notin {NoOne, Reserved}
    /\ IF pc[l] = "retry" THEN TryAgain(l) ELSE Goto(l, "stale") /\ UNCHANGED heir
    /\ UNCHANGED <<guardVars, helper, appVars, watchVars, streak, status, told>>

(* Any other error: the lock file cannot be created, opened or locked, or   *)
(* the bind fails otherwise and the lock file, taken before it, is dropped. *)
(* It ends launcher_main at once, an heir's too.                            *)
GuardFailed(l) ==
    /\ pc[l] \in {"guard", "retry"}
    /\ Goto(l, "noGuard")
    /\ UNCHANGED <<heir, guardVars, helper, appVars, watchVars, streak, status, told>>

(* No Codex and no CDP: whoever holds the port is taken for a left-over and *)
(* every other launcher process is killed.  Then one more try.              *)
StaleStopped(l) ==
    /\ pc[l] = "stale"
    /\ codex.kind = "none"
    /\ pc' = [k \in Launchers |-> IF k = l THEN "retry" ELSE "off"]
    /\ helper' = [k \in Launchers |-> "none"]
    /\ lock' = NoOne
    /\ guardPort' = IF guardPort = Reserved THEN Reserved ELSE NoOne
    /\ heir' = heir \cap {l}
    /\ told' = {}
    /\ CountersReset
    /\ UNCHANGED <<appVars, status>>

StaleKept(l) ==
    /\ pc[l] = "stale"
    /\ codex.kind # "none"
    /\ TryAgain(l)
    /\ UNCHANGED <<guardVars, helper, appVars, watchVars, streak, status, told>>

-----------------------------------------------------------------------------
(* The second instance: activate the window, or wait for a Codex, or take   *)
(* the guard over.                                                          *)

(* Afterwards the process looks for the primary's helper, says so if there  *)
(* is none, and ends; none of this touches what is modelled here.           *)
WindowActivated(l) ==
    /\ pc[l] = "second"
    /\ codex.kind # "none" /\ codex.window
    /\ Gone(l)
    /\ UNCHANGED <<guardVars, helper, appVars, watchVars, streak, status>>

(* The grace period is over and the window was still there at the last look.*)
ActivationDecided(l) ==
    /\ pc[l] = "second"
    /\ codex.kind # "none" /\ codex.window
    /\ Goto(l, "activate")
    /\ UNCHANGED <<heir, guardVars, helper, appVars, watchVars, streak, status, told>>

(* System activation: hands over to a running Codex, or opens one without a *)
(* debug port if that has closed since the look.                            *)
AppActivated(l) ==
    /\ pc[l] = "activate"
    /\ codex' = IF codex.kind = "none" THEN Opened("plain")
                ELSE [codex EXCEPT !.window = TRUE]
    /\ Gone(l)
    /\ UNCHANGED <<guardVars, helper, settings, watchVars, streak, status>>

(* Wrong variant: the error path of a second instance takes the status for its own. *)
SecondFailedLoudly(l) ==
    /\ pc[l] \in {"second", "activate"}
    /\ status' = [by |-> l, kind |-> "failed"]
    /\ Gone(l)
    /\ UNCHANGED <<guardVars, helper, appVars, watchVars, streak>>

(* The second instance's own errors: settings, the app, the activation.     *)
(* They do not touch latest-status.json (owns_status is false).             *)
SecondFailed(l) ==
    /\ pc[l] \in {"second", "activate"}
    /\ Gone(l)
    /\ UNCHANGED <<guardVars, helper, appVars, watchVars, streak, status>>

TookOver(l) ==
    /\ pc[l] = "second"
    /\ codex.kind = "none" \/ ~codex.window
    /\ TakeGuard(l)
    /\ Goto(l, "prepare")
    /\ UNCHANGED <<heir, helper, appVars, watchVars, streak, status, told>>

(* Every try failed: the guard was held, or could not be had for any other  *)
(* reason (its error is not looked at here).                                *)
GaveUpWaiting(l) ==
    /\ pc[l] = "second"
    /\ codex.kind = "none" \/ ~codex.window
    /\ Gone(l)
    /\ UNCHANGED <<guardVars, helper, appVars, watchVars, streak, status>>


-----------------------------------------------------------------------------
(* The launch (launch_and_inject_with_hooks).                               *)

(* Up to the helper: the app is found, sessions are synced and recovered.   *)
Prepared(l) ==
    /\ pc[l] = "prepare"
    /\ Goto(l, "helper")
    /\ UNCHANGED <<heir, guardVars, helper, appVars, watchVars, streak, status, told>>

(* The app is not found (told) or the settings cannot be read (not told):   *)
(* returned before the common error path.                                   *)
AppNotFound(l) ==
    /\ pc[l] = "prepare"
    /\ Goto(l, "dropFail")
    /\ \E shown \in SUBSET {l} : told' = told \cup shown
    /\ UNCHANGED <<heir, guardVars, helper, appVars, watchVars, streak, status>>

PrepareFailed(l) ==
    /\ pc[l] = "prepare"
    /\ Goto(l, "failKeep")
    /\ UNCHANGED <<heir, guardVars, helper, appVars, watchVars, streak, status, told>>

HelperPortFree == \A k \in Launchers : helper[k] # "asked"
HelperFallbackAllowed(bound) == TRUE  \* wrong variant: the proxy's port is forgotten
HelperFallbackIsSafe(bound) == bound = "asked" \/ ~settings.proxy

(* The helper binds the port it asks for, or any other when that is taken   *)
(* (other programs may hold it too); the protocol proxy, whose port is      *)
(* written in config.toml, cannot live with another.                        *)
HelperStarted(l) ==
    /\ pc[l] = "helper"
    /\ settings.enhance \/ settings.proxy
    /\ \E bound \in {"asked", "other"} :
          /\ bound = "asked" => HelperPortFree
          /\ helper' = [helper EXCEPT ![l] = bound]
          /\ Goto(l, IF HelperFallbackIsSafe(bound) THEN "launch" ELSE "failKeep")
    /\ UNCHANGED <<heir, guardVars, appVars, watchVars, streak, status, told>>

HelperSkipped(l) ==
    /\ pc[l] = "helper"
    /\ ~settings.enhance /\ ~settings.proxy
    /\ Goto(l, "launch")
    /\ UNCHANGED <<heir, guardVars, helper, appVars, watchVars, streak, status, told>>

(* A Codex without a debug port is stopped first (on macOS it may refuse to *)
(* quit and is kept); one with a debug port is handed the activation.       *)
CodexLaunched(l) ==
    /\ pc[l] = "launch"
    /\ \/ codex.kind = "debug" /\ codex' = [codex EXCEPT !.window = TRUE]
       \/ codex.kind # "debug" /\ \E k \in {"debug", "plain"} : codex' = Opened(k)
    /\ Goto(l, IF settings.enhance THEN "inject" ELSE "plain")
    /\ UNCHANGED <<heir, guardVars, helper, settings, watchVars, streak,
                   status, told>>

LaunchFailed(l) ==
    /\ pc[l] = "launch"
    /\ codex' = IF codex.kind = "plain" THEN NoCodex ELSE codex
    /\ Goto(l, "failKeep")
    /\ UNCHANGED <<heir, guardVars, helper, settings, watchVars, streak,
                   status, told>>

(* ensure_injection: up to 120 tries.  Success starts the watchdog.         *)
Injected(l) ==
    /\ pc[l] = "inject"
    /\ codex.kind = "debug"
    /\ codex' = [codex EXCEPT !.served = l, !.fresh = FALSE]
    /\ fails' = 0 /\ health' = 0 /\ mended' = 0
    /\ Goto(l, "bridged")
    /\ UNCHANGED <<heir, guardVars, helper, settings, streak, status, told>>

InjectionExhausted(l) ==
    /\ pc[l] = "inject"
    /\ Goto(l, "degraded")
    /\ UNCHANGED <<heir, guardVars, helper, appVars, watchVars, streak, status, told>>

(* A failed launch records its failure after it has given the guard back,   *)
(* but long before the next launcher has a Codex to report on.              *)
LateWriteIsQuick == \A k \in Launchers : pc[k] \notin {"portFail", "late"}

StatusSaved(l) ==
    /\ pc[l] \in {"bridged", "degraded", "plain"}
    /\ LateWriteIsQuick
    /\ status' = [by |-> l, kind |-> IF pc[l] = "degraded" THEN "degraded" ELSE "running"]
    /\ told' = IF pc[l] = "degraded" THEN told \cup {l} ELSE told
    /\ streak' = 0
    /\ Goto(l, IF pc[l] = "bridged" THEN "watch" ELSE "idle")
    /\ UNCHANGED <<heir, guardVars, helper, appVars, watchVars>>

(* Wrong variant: an injected Codex is kept after its backend is shut down. *)
StatusNotSavedKept(l) ==
    /\ pc[l] \in {"bridged", "degraded", "plain"}
    /\ Goto(l, "failKeep")
    /\ UNCHANGED <<heir, guardVars, helper, appVars, watchVars, streak, status, told>>

(* Only an injected Codex is terminated with the failed launch.             *)
StatusNotSaved(l) ==
    /\ pc[l] \in {"bridged", "degraded", "plain"}
    /\ Goto(l, IF pc[l] = "bridged" THEN "failKill" ELSE "failKeep")
    /\ UNCHANGED <<heir, guardVars, helper, appVars, watchVars, streak, status, told>>

LaunchGivenUp(l) ==
    /\ pc[l] \in {"failKill", "failKeep"}
    /\ helper' = [helper EXCEPT ![l] = "none"]
    /\ codex' = IF pc[l] = "failKill" THEN NoCodex ELSE codex
    /\ told' = told \cup {l}
    /\ \E saved \in BOOLEAN :
          status' = IF saved THEN [by |-> l, kind |-> "failed"] ELSE status
    /\ Goto(l, "dropFail")
    /\ CountersReset
    /\ UNCHANGED <<heir, guardVars, settings>>

-----------------------------------------------------------------------------
(* The bridge watchdog.                                                     *)

(* bridge_is_usable: healthy, mended or left for the next look.             *)
Usable == fails' = 0 /\ mended' = 0

TickHealthy(l) ==
    /\ pc[l] = "watch"
    /\ codex.kind = "debug" /\ codex.served = l /\ ~codex.fresh
    /\ health' = 0
    /\ Usable
    /\ UNCHANGED <<pc, heir, guardVars, helper, appVars, streak, status, told>>

(* The page took the command and did not answer in time: nothing is known.  *)
TickIndeterminate(l) ==
    /\ pc[l] = "watch"
    /\ codex.kind = "debug" /\ ~codex.fresh
    /\ health' = 0
    /\ Usable
    /\ UNCHANGED <<pc, heir, guardVars, helper, appVars, streak, status, told>>

(* Whether an unhealthy probe calls for an injection, and the new count.    *)
NewHealth == IF codex.fresh /\ codex.kind = "debug" THEN HealthThreshold
             ELSE IF health < HealthThreshold THEN health + 1 ELSE health
ShouldReinject == NewHealth >= HealthThreshold
Unhealthy(l) ==
    /\ pc[l] = "watch"
    /\ codex.kind # "debug" \/ codex.served # l \/ codex.fresh
    /\ health' = NewHealth

TickDeferred(l) ==
    /\ Unhealthy(l)
    /\ ~ShouldReinject
    /\ Usable
    /\ UNCHANGED <<pc, heir, guardVars, helper, appVars, streak, status, told>>

TickReinjected(l) ==
    /\ Unhealthy(l)
    /\ ShouldReinject
    /\ codex.kind = "debug"
    /\ codex' = [codex EXCEPT !.served = l, !.fresh = FALSE]
    /\ Usable
    /\ UNCHANGED <<pc, heir, guardVars, helper, settings, streak, status, told>>

(* Wrong variant: recovery at this many failures and at each one after.     *)
RecoverAtEach(n) == n >= RecoverAfter

(* should_recover_bridge: at exactly this many failures.                    *)
ShouldRecover(n) == n = RecoverAfter

(* The count goes on rising; past the threshold its value has no effect, so *)
(* one above it stands for them all.                                        *)
TickFailed(l) ==
    /\ Unhealthy(l)
    /\ ShouldReinject
    /\ fails' = IF fails <= RecoverAfter THEN fails + 1 ELSE fails
    /\ codex' = [codex EXCEPT !.fresh = FALSE]
    /\ Goto(l, IF ShouldRecover(fails') THEN "recover" ELSE "watch")
    /\ UNCHANGED <<heir, guardVars, helper, settings, streak, status, told,
                   mended>>

(* restart_with_fresh_launcher: kill Codex, then start a launcher that will *)
(* await the guard.  The caller exits 1.2 s later, before its next tick.    *)
HandedOver(l, k) ==
    /\ pc[k] = "off"
    /\ pc' = [pc EXCEPT ![l] = "leaving", ![k] = "guard"]
    /\ heir' = heir \cup {k}
    /\ codex' = NoCodex

Recovered(l) ==
    /\ pc[l] = "recover"
    /\ \E k \in Launchers : HandedOver(l, k)
    /\ fails' = 0
    /\ mended' = mended + 1
    /\ UNCHANGED <<guardVars, helper, settings, health, streak, status, told>>

(* Codex is killed before the successor turns out not to start.             *)
RecoveryFailed(l) ==
    /\ pc[l] = "recover"
    /\ codex' = NoCodex
    /\ told' = told \cup {l}
    /\ mended' = mended + 1
    /\ Goto(l, "watch")
    /\ UNCHANGED <<heir, guardVars, helper, settings, fails, health, streak, status>>

(* The panel asks for a restart, or to quit after an uninstall: only a page *)
(* that holds the bridge can.                                               *)
PanelRestarts(l) ==
    /\ pc[l] \in Running
    /\ codex.served = l
    /\ \E k \in Launchers : HandedOver(l, k)
    /\ UNCHANGED <<guardVars, helper, settings, watchVars, streak, status, told>>

PanelQuits(l) ==
    /\ pc[l] \in Running
    /\ codex.served = l
    /\ codex' = NoCodex
    /\ Goto(l, "leaving")
    /\ UNCHANGED <<heir, guardVars, helper, settings, watchVars, streak, status, told>>

-----------------------------------------------------------------------------
(* The end of a process.                                                    *)

(* process::exit: everything the process holds goes at once.                *)
LeftAtOnce(l) ==
    /\ pc[l] = "leaving"
    /\ Gone(l)
    /\ CountersReset
    /\ helper' = [helper EXCEPT ![l] = "none"]
    /\ lock' = NoOne
    /\ guardPort' = IF guardPort = l THEN NoOne ELSE guardPort
    /\ UNCHANGED <<appVars, status>>

(* wait_for_codex_exit: so many polls in a row without a Codex process.     *)
ExitPolled(l) ==
    /\ pc[l] \in Running
    /\ streak' = IF codex.kind = "none" THEN streak + 1 ELSE 0
    /\ Goto(l, IF streak' >= EmptyPolls THEN "closing" ELSE pc[l])
    /\ UNCHANGED <<heir, guardVars, helper, appVars, watchVars, status, told>>

(* Wrong variant: the watchdog is stopped and the helper forgotten.         *)
HelperForgotten(l) ==
    /\ pc[l] = "closing"
    /\ Goto(l, "dropLock")
    /\ CountersReset
    /\ UNCHANGED <<heir, guardVars, helper, appVars, status, told>>

(* shutdown_helper: the watchdog, then the helper.                          *)
HelperShutDown(l) ==
    /\ pc[l] = "closing"
    /\ helper' = [helper EXCEPT ![l] = "none"]
    /\ Goto(l, "dropLock")
    /\ CountersReset
    /\ UNCHANGED <<heir, guardVars, appVars, status, told>>

(* The guard's fields are dropped in order: the lock file before the port.  *)
LockDropped(l) ==
    /\ pc[l] \in Dropping
    /\ lock' = NoOne
    /\ Goto(l, IF pc[l] = "dropFail" THEN "portFail" ELSE "dropPort")
    /\ UNCHANGED <<heir, guardPort, helper, appVars, watchVars, streak, status, told>>

PortDropped(l) ==
    /\ pc[l] \in {"dropPort", "portFail"}
    /\ guardPort' = IF guardPort = l THEN NoOne ELSE guardPort
    /\ IF pc[l] = "portFail" THEN Goto(l, "late") /\ UNCHANGED <<heir, told>> ELSE Gone(l)
    /\ UNCHANGED <<lock, helper, appVars, watchVars, streak, status>>

(* record_launch_failure, in main: after launcher_main dropped the guard,   *)
(* or never had it; the message tells which.                                *)
FailureRecorded(l) ==
    /\ pc[l] \in {"late", "noGuard"}
    /\ \E saved \in BOOLEAN :
          status' = IF saved
                    THEN [by |-> l, kind |-> IF pc[l] = "noGuard" THEN "noGuard" ELSE "failed"]
                    ELSE status
    /\ Gone(l)
    /\ UNCHANGED <<guardVars, helper, appVars, watchVars, streak>>

-----------------------------------------------------------------------------
(* What happens outside the launchers.                                      *)

CodexOpened ==      \* by the user: no debug port
    /\ codex.kind = "none"
    /\ codex' = Opened("plain")
CodexRelaunched ==  \* by itself, with or without the arguments it was given
    /\ codex.kind # "none"
    /\ \E k \in {"debug", "plain"} :
          /\ k = "debug" => codex.kind = "debug"
          /\ codex' = [Opened(k) EXCEPT !.fresh = k = "debug" /\ \E l \in Launchers : pc[l] = "watch"]
CodexClosing ==
    /\ codex.kind # "none" /\ codex.window
    /\ codex' = [codex EXCEPT !.window = FALSE, !.served = NoOne]
CodexClosed ==
    /\ codex.kind # "none" /\ ~codex.window
    /\ codex' = NoCodex
PageReloaded ==
    /\ codex.served # NoOne
    /\ codex' = [codex EXCEPT !.served = NoOne]

CodexActs ==
    /\ CodexOpened \/ CodexRelaunched \/ CodexClosing \/ CodexClosed \/ PageReloaded
    /\ UNCHANGED <<pc, heir, guardVars, helper, settings, watchVars, streak,
                   status, told>>

OldLeaves ==
    /\ guardPort = Old /\ guardPort' = NoOne
    /\ UNCHANGED <<pc, heir, lock, helper, appVars, watchVars, streak, status, told>>

Guard(l) == \/ GuardTaken(l) \/ GuardRefused(l) \/ PortTaken(l) \/ GuardFailed(l)
            \/ StaleStopped(l) \/ StaleKept(l)
Second(l) == \/ WindowActivated(l) \/ ActivationDecided(l) \/ AppActivated(l)
             \/ SecondFailed(l) \/ TookOver(l) \/ GaveUpWaiting(l)
Launch(l) == \/ Prepared(l) \/ AppNotFound(l) \/ PrepareFailed(l) \/ HelperStarted(l) \/ HelperSkipped(l)
             \/ CodexLaunched(l) \/ LaunchFailed(l) \/ Injected(l) \/ InjectionExhausted(l)
             \/ StatusSaved(l) \/ StatusNotSaved(l) \/ LaunchGivenUp(l)
Tick(l) == \/ TickHealthy(l) \/ TickIndeterminate(l) \/ TickDeferred(l)
           \/ TickReinjected(l) \/ TickFailed(l)
Recover(l) == Recovered(l) \/ RecoveryFailed(l)
Exit(l) == \/ LeftAtOnce(l) \/ HelperShutDown(l) \/ LockDropped(l) \/ PortDropped(l)
           \/ FailureRecorded(l)

Next ==
    \/ \E l \in Launchers :
          \/ UserStarts(l) \/ Guard(l) \/ Second(l) \/ Launch(l) \/ Tick(l) \/ Recover(l)
          \/ PanelRestarts(l) \/ PanelQuits(l) \/ ExitPolled(l) \/ Exit(l)
    \/ CodexActs \/ OldLeaves

(* Code that runs goes on running: every step of a process, the watchdog's  *)
(* timer and the exit monitor's.  A process tries the guard a bounded number *)
(* of times, so guards that come and go do not keep it at it for ever.      *)
(* Nothing is assumed of users and of Codex.                                *)
Fairness ==
    \A l \in Launchers :
       /\ SF_vars(Guard(l) /\ pc'[l] \in {"prepare", "second"})
       /\ WF_vars(Guard(l) \/ Second(l) \/ Launch(l) \/ Recover(l) \/ Exit(l))
       /\ WF_vars(Tick(l))
       /\ WF_vars(ExitPolled(l))

Spec == Init /\ [][Next]_vars /\ Fairness

-----------------------------------------------------------------------------
TypeOK ==
    /\ pc \in [Launchers -> Steps]
    /\ heir \subseteq Launchers
    /\ lock \in Launchers \cup {NoOne}
    /\ guardPort \in Launchers \cup {NoOne, Old, Reserved}
    /\ helper \in [Launchers -> {"none", "asked", "other"}]
    /\ settings \in [enhance : BOOLEAN, proxy : BOOLEAN]
    /\ codex \in [kind : {"none", "plain", "debug"}, window : BOOLEAN,
                  served : Launchers \cup {NoOne}, fresh : BOOLEAN]
    /\ fails \in 0 .. RecoverAfter + 1
    /\ health \in 0 .. HealthThreshold
    /\ streak \in 0 .. EmptyPolls
    /\ status \in [by : Launchers \cup {NoOne},
                   kind : {"none", "running", "degraded", "failed", "noGuard"}]
    /\ told \subseteq Launchers
    /\ mended \in Nat

(* The watchdog neither goes on killing Codex nor gives up in silence: in   *)
(* one run of failures it recovers at most once, and it watches on past the *)
(* threshold only if that recovery failed and the user has been told.       *)
RecoversOnce ==
    /\ mended <= 1
    /\ \A l \in Launchers : pc[l] = "watch" /\ fails >= RecoverAfter => l \in told

(* The helper and the watchdog belong to the holder of the lock file: a     *)
(* process is rid of them before it gives the guard to the next one; and    *)
(* that watchdog gives up as RecoversOnce says.                             *)
BackendHoldsLock ==
    /\ \A l \in Launchers : (helper[l] # "none" \/ pc[l] \in Primary) => lock = l
    /\ RecoversOnce

(* A page that holds a bridge is answered: its launcher is alive, with its  *)
(* helper and its watchdog, or on the way to terminate that page's Codex.   *)
ServedByLive ==
    \A l \in Launchers :
       codex.served = l => /\ helper[l] # "none"
                           /\ pc[l] \in Running \cup {"bridged", "failKill", "recover"}

(* While the protocol proxy is on, a launcher that runs listens on the port *)
(* that is written in config.toml.                                          *)
ProxyPortKept ==
    \A l \in Launchers :
       settings.proxy /\ pc[l] \in Running => helper[l] = "asked"

(* latest-status.json tells a second instance about the primary: while a    *)
(* launcher runs, it is what that launcher wrote, or else the failure of a  *)
(* process that could not have the guard for another reason than a held     *)
(* lock or a taken port.  The code lets that one overwrite it, against what *)
(* LauncherFailure says of the file's owner (main.rs, 178-184); every other *)
(* failure, of a launch or of a second instance, leaves the file alone.     *)
OwnStatus(l) == status.by = l /\ status.kind \in {"running", "degraded"}
StatusOfPrimary ==
    TypeOK /\ \A l \in Launchers :
       pc[l] \in Running => OwnStatus(l) \/ status.kind = "noGuard"

(* Checked by no run: without the exception it is false of the code, as a   *)
(* launcher that runs and a second one whose lock file cannot be opened show. *)
StatusIsOwn == \A l \in Launchers : pc[l] \in Running => OwnStatus(l)

(* Every start ends: as the primary, or with the process gone.              *)
LaunchSettles ==
    \A l \in Launchers : pc[l] = "guard" ~> pc[l] \in Running \cup {"off"}
=============================================================================
