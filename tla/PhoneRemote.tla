----------------------------- MODULE PhoneRemote -----------------------------
(***************************************************************************)
(* Phone remote: pairing this computer with a phone and keeping the remote *)
(* daemon running (crates/codex-plus-core/src/phone_remote/mod.rs).        *)
(*                                                                         *)
(* The panel's buttons start a flow, a task of its own that installs the   *)
(* runtime, pairs, starts the daemon and registers it for autostart.  One  *)
(* controller holds the phase the panel shows and a generation; a newer    *)
(* flow or a cancel raises the generation, and an older flow finds out at  *)
(* the points where it looks.  A flow is named by its generation.          *)
(*                                                                         *)
(* Outside the client are the runtime's pair process (child), which prints *)
(* a key, waits for a directive and saves the credentials; the daemon and  *)
(* the autostart entry; and the backend, where a registered key is a       *)
(* record the phone shows as a prompt.  Registering supersedes the device's*)
(* earlier record.  Two off commands of one bridge session interleave only *)
(* where they await, so what comes before the first await is one step.     *)
(* Texts, the QR code and the confirmation code are left out.              *)
(***************************************************************************)
EXTENDS Naturals

CONSTANTS
    Commands,   \* disable and unpair requests that can be under way at once
    Faults,     \* what may fail in this instance
    MaxGen,     \* bound: flows and cancels
    MaxRecords  \* bound: registrations the backend ever gets

AllFaults == {"settings", "runtime", "backend", "bridge", "restart"}

ASSUME PhoneAssumption ==
    /\ Faults \subseteq AllFaults
    /\ MaxGen \in Nat /\ MaxRecords \in Nat

Flows == 1..MaxGen
Records == 1..MaxRecords

VARIABLES
    phase,        \* Controller.phase
    generation,   \* Controller.generation
    follow,       \* settings.phone_remote_follow_account
    launched,     \* start_from_saved_settings has run in this process
    flow,         \* where each flow is
    how,          \* what raised each generation
    pairId,       \* the record each flow has registered, 0 if none
    settled,      \* settled_on_server of each flow
    command,      \* where each disable or unpair is
    withdrawing,  \* records with a cancel request under way
    installed,    \* there is a runtime
    paired,       \* the runtime holds credentials
    daemon,       \* the remote daemon runs
    autostart,    \* the autostart entry is registered
    child,        \* the pair process of each flow
    made,         \* registrations the backend has got
    record,       \* the backend's record of each; gone is expired or cancelled
    lost          \* history: records whose answer or withdrawal was lost

controller == <<phase, generation>>
tasks == <<flow, how, pairId, settled>>
device == <<installed, paired, daemon, autostart>>
backend == <<made, record, lost>>
vars == <<controller, follow, launched, tasks, command, withdrawing, device,
          child, backend>>

Phases == {"idle", "preparing", "waiting", "finishing", "connected", "error"}
Busy == {"preparing", "waiting", "finishing"}
Stages == {"unused", "ensure", "status", "pair", "check", "daemon", "start",
           "recheck", "install", "ended"}
Alive == {"started", "key", "heard", "told", "authorized", "failed"}

\* Nothing installed yet, installed, paired and off, or connected before.
Init ==
    /\ phase = "idle" /\ generation = 0
    /\ launched = FALSE
    /\ flow = [f \in Flows |-> "unused"]
    /\ how = [f \in Flows |-> "none"]
    /\ pairId = [f \in Flows |-> 0]
    /\ settled = [f \in Flows |-> FALSE]
    /\ command = [c \in Commands |-> "none"]
    /\ withdrawing = {}
    /\ installed \in BOOLEAN
    /\ paired \in {FALSE, installed}
    /\ follow \in {FALSE, paired}
    /\ daemon = follow /\ autostart = follow
    /\ child = [f \in Flows |-> "none"]
    /\ made = 0
    /\ record = [r \in Records |-> "none"]
    /\ lost = {}

-----------------------------------------------------------------------------
(* The controller *)

Stale(f) == generation # f

\* Mutant: an event of a flow that is no longer current is applied as well.
ApplyAnyway(f, p) == phase' = p

\* apply: an event of an older flow is dropped.
Apply(f, p) == phase' = IF Stale(f) THEN phase ELSE p

\* begin_flow and the task of spawn_flow.
Begin(kind) ==
    /\ generation < MaxGen
    /\ generation' = generation + 1
    /\ phase' = "preparing"
    /\ flow' = [flow EXCEPT ![generation + 1] = "ensure"]
    /\ how' = [how EXCEPT ![generation + 1] = kind]
    /\ UNCHANGED <<pairId, settled, command, withdrawing, device, child, backend>>

\* cancel_current
CancelCurrent(kind) ==
    /\ generation < MaxGen
    /\ generation' = generation + 1
    /\ phase' = "idle"
    /\ flow' = [flow EXCEPT ![generation + 1] = "ended"]
    /\ how' = [how EXCEPT ![generation + 1] = kind]

\* A flow that goes on, or returns, with nothing of its own to clean up.
Goto(f, stage) == flow' = [flow EXCEPT ![f] = stage]

MayFail(what, x) == IF what \in Faults THEN {x} ELSE {}

-----------------------------------------------------------------------------
(* The panel's commands, and the launcher's start *)

\* /remote/enable and /remote/connect, or /remote/repair.
Start ==
    /\ launched
    /\ \E kind \in {"connect", "repair"} : Begin(kind)
    /\ follow' = TRUE
    /\ UNCHANGED launched

\* start_from_saved_settings
Startup ==
    /\ ~launched
    /\ launched' = TRUE
    /\ \/ follow /\ Begin("startup")
       \/ ~follow /\ UNCHANGED <<controller, tasks, command, withdrawing, device,
                                 child, backend>>
    /\ UNCHANGED follow

\* /remote/cancel
Cancel ==
    /\ launched
    /\ CancelCurrent("cancel")
    /\ UNCHANGED <<follow, launched, pairId, settled, command, withdrawing,
                   device, child, backend>>

\* /remote/disable and /remote/unpair up to their first await.  Without a
\* runtime there is nothing to stop; a disable whose setting cannot be saved
\* answers an error at once.
SwitchOff(c) ==
    /\ launched
    /\ command[c] = "none"
    /\ CancelCurrent("off")
    /\ \E kind \in {"disable", "unpair"} :
        \/ /\ follow' = FALSE
           /\ command' = [command EXCEPT ![c] =
                IF installed THEN kind
                ELSE IF kind = "disable" THEN "disabling" ELSE "unpairing"]
        \/ /\ "settings" \in Faults
           /\ UNCHANGED follow
           /\ command' = [command EXCEPT ![c] =
                IF kind = "disable" THEN "none"
                ELSE IF installed THEN "unpair" ELSE "unpairing"]
    /\ UNCHANGED <<launched, pairId, settled, withdrawing, device, child, backend>>

\* daemon stop, or the runtime's unpair, which stops the daemon as well.
SwitchOffDaemon(c) ==
    /\ \/ /\ command[c] = "disable"
          /\ command' = [command EXCEPT ![c] = "disabling"]
          /\ daemon' \in {FALSE} \cup MayFail("runtime", daemon)
          /\ UNCHANGED paired
       \/ /\ command[c] = "unpair"
          /\ command' = [command EXCEPT ![c] = "unpairing"]
          /\ \/ daemon' = FALSE /\ paired' = FALSE
             \/ "runtime" \in Faults /\ UNCHANGED <<daemon, paired>>
    /\ UNCHANGED <<controller, follow, launched, tasks, withdrawing, installed,
                   autostart, child, backend>>

\* autostart::remove and the answer.
SwitchOffAutostart(c) ==
    /\ command[c] \in {"disabling", "unpairing"}
    /\ command' = [command EXCEPT ![c] = "none"]
    /\ autostart' \in {FALSE} \cup MayFail("runtime", autostart)
    /\ UNCHANGED <<controller, follow, launched, tasks, withdrawing, installed,
                   paired, daemon, child, backend>>

\* The bridge session that carries the command breaks while the command waits
\* for the runtime: the command is dropped and its process killed.
CommandDropped(c) ==
    /\ "bridge" \in Faults
    /\ command[c] \in {"disable", "unpair"}
    /\ command' = [command EXCEPT ![c] = "none"]
    /\ daemon' \in {daemon, FALSE}
    /\ paired' \in {paired} \cup (IF command[c] = "unpair" THEN {FALSE} ELSE {})
    /\ UNCHANGED <<controller, follow, launched, tasks, withdrawing, installed,
                   autostart, child, backend>>

-----------------------------------------------------------------------------
(* run_flow *)

\* ensure_runtime, and the stop of the old daemon after an update.  Without a
\* runtime a failed installation ends the flow; with one it goes on with that.
Ensure(f) ==
    /\ flow[f] = "ensure"
    /\ \/ /\ Stale(f)
          /\ Goto(f, "ended")
          /\ UNCHANGED <<phase, installed, daemon>>
       \/ /\ ~installed
          /\ Apply(f, "error")
          /\ Goto(f, "ended")
          /\ UNCHANGED <<installed, daemon>>
       \/ /\ installed' = TRUE
          /\ daemon' \in {daemon} \cup (IF installed THEN {FALSE} ELSE {})
          /\ Goto(f, "status")
          /\ UNCHANGED phase
    /\ UNCHANGED <<generation, follow, launched, how, pairId, settled, command,
                   withdrawing, paired, autostart, child, backend>>

\* The runtime says whether it is paired; if not, or to pair again, the pair
\* process is started.  A flow of the launcher's start gives up signed out.
Status(f) ==
    /\ flow[f] = "status"
    /\ \/ /\ how[f] # "repair" /\ paired
          /\ Goto(f, "check")
          /\ UNCHANGED <<phase, child>>
       \/ /\ how[f] = "repair" \/ ~paired \/ "runtime" \in Faults
          /\ \/ /\ how[f] = "startup"
                /\ Apply(f, "idle")
                /\ Goto(f, "ended")
                /\ UNCHANGED child
             \/ /\ Apply(f, "preparing")
                /\ child' = [child EXCEPT ![f] = "started"]
                /\ Goto(f, "pair")
             \/ /\ "runtime" \in Faults
                /\ Apply(f, "error")
                /\ Goto(f, "ended")
                /\ UNCHANGED child
    /\ UNCHANGED <<generation, follow, launched, how, pairId, settled, command,
                   withdrawing, device, backend>>

\* Mutant: a flow that is cancelled or fails leaves its prompt on the phone.
LeaveWithoutWithdrawing(f, stage) ==
    /\ Goto(f, stage)
    /\ child' = [child EXCEPT ![f] = "dead"]
    /\ pairId' = [pairId EXCEPT ![f] = 0]
    /\ settled' = [settled EXCEPT ![f] = FALSE]
    /\ UNCHANGED withdrawing

\* Mutant: the process goes on when the flow has left it.
LeaveWithoutKilling(f, stage) ==
    /\ Goto(f, stage)
    /\ UNCHANGED child
    /\ pairId' = [pairId EXCEPT ![f] = 0]
    /\ settled' = [settled EXCEPT ![f] = FALSE]
    /\ withdrawing' = withdrawing \cup
         (IF settled[f] THEN {} ELSE {pairId[f]} \ {0})

\* The end of pair: the process is killed, and the prompt is withdrawn unless
\* the backend has had the last word on it.
Leave(f, stage) ==
    /\ Goto(f, stage)
    /\ child' = [child EXCEPT ![f] = "dead"]
    /\ pairId' = [pairId EXCEPT ![f] = 0]
    /\ settled' = [settled EXCEPT ![f] = FALSE]
    /\ withdrawing' = withdrawing \cup
         (IF settled[f] THEN {} ELSE {pairId[f]} \ {0})

PairCancelled(f) ==
    /\ flow[f] = "pair"
    /\ Stale(f)
    /\ Leave(f, "ended")
    /\ UNCHANGED <<controller, follow, launched, how, command, device, backend>>

\* Mutant: the deadline is only for a runtime that has not printed its key.
PairTimedOutEarly(f) ==
    /\ flow[f] = "pair"
    /\ child[f] = "started"
    /\ Apply(f, "error")
    /\ Leave(f, "ended")
    /\ UNCHANGED <<generation, follow, launched, how, command, device, backend>>

\* PAIR_TIMEOUT
PairTimedOut(f) ==
    /\ flow[f] = "pair"
    /\ Apply(f, "error")
    /\ Leave(f, "ended")
    /\ UNCHANGED <<generation, follow, launched, how, command, device, backend>>

\* The process prints an error, or ends without a word.
PairFailed(f) ==
    /\ flow[f] = "pair"
    /\ child[f] = "failed"
    /\ Apply(f, "error")
    /\ Leave(f, "ended")
    /\ UNCHANGED <<generation, follow, launched, how, command, device, backend>>

\* The process has paired, or was paired before.
PairDone(f) ==
    /\ flow[f] = "pair"
    /\ child[f] = "authorized"
    /\ Leave(f, "check")
    /\ UNCHANGED <<controller, follow, launched, how, command, device, backend>>

\* The backend gets a registration: the record before it is superseded.
Register ==
    /\ made < MaxRecords
    /\ made' = made + 1
    /\ record' = [r \in Records |->
                    IF r = made + 1 THEN "pending"
                    ELSE IF record[r] = "pending" THEN "gone"
                    ELSE record[r]]

\* on_waiting: the process has printed a key.  register_pair tries up to three
\* times, an attempt whose answer is lost included; nothing here is cancelled.
KeyRegistered(f) ==
    /\ Register
    /\ pairId' = [pairId EXCEPT ![f] = made + 1]
    /\ settled' = [settled EXCEPT ![f] = FALSE]
    /\ withdrawing' = withdrawing \cup ({pairId[f]} \ {0})
    /\ child' = [child EXCEPT ![f] = "heard"]
    /\ Apply(f, "waiting")
    /\ UNCHANGED <<flow, lost>>

\* No record to go by: an old runtime, a backend that refuses, or one whose
\* record has no binding and is withdrawn.  The process goes on without.
KeyUnbound(f) ==
    /\ \/ /\ UNCHANGED backend
          /\ withdrawing' = withdrawing \cup ({pairId[f]} \ {0})
       \/ /\ Register
          /\ UNCHANGED lost
          /\ withdrawing' = withdrawing \cup ({pairId[f], made + 1} \ {0})
       \/ /\ "backend" \in Faults
          /\ Register
          /\ lost' = lost \cup {made + 1}
          /\ withdrawing' = withdrawing \cup ({pairId[f]} \ {0})
    /\ pairId' = [pairId EXCEPT ![f] = 0]
    /\ settled' = [settled EXCEPT ![f] = FALSE]
    /\ child' = [child EXCEPT ![f] = "told"]
    /\ Apply(f, "waiting")
    /\ UNCHANGED flow

\* The confirmation codes differ, or no attempt got an answer.
KeyRefused(f) ==
    /\ \/ /\ Register
          /\ UNCHANGED lost
          /\ withdrawing' = withdrawing \cup
               {made + 1} \cup (IF settled[f] THEN {} ELSE {pairId[f]} \ {0})
       \/ /\ "backend" \in Faults
          /\ \/ UNCHANGED backend
             \/ Register /\ lost' = lost \cup {made + 1}
          /\ withdrawing' = withdrawing \cup
               (IF settled[f] THEN {} ELSE {pairId[f]} \ {0})
    /\ Apply(f, "error")
    /\ Goto(f, "ended")
    /\ child' = [child EXCEPT ![f] = "dead"]
    /\ pairId' = [pairId EXCEPT ![f] = 0]
    /\ settled' = [settled EXCEPT ![f] = FALSE]

PairWaiting(f) ==
    /\ flow[f] = "pair"
    /\ child[f] = "key"
    /\ KeyRegistered(f) \/ KeyUnbound(f) \/ KeyRefused(f)
    /\ UNCHANGED <<generation, follow, launched, how, command, device>>

\* The phone has allowed: its identity is handed to the process, or is missing
\* and the flow ends.
PollApproved(f) ==
    /\ record[pairId[f]] = "approved"
    /\ ~settled[f]
    /\ \/ /\ settled' = [settled EXCEPT ![f] = TRUE]
          /\ child' = [child EXCEPT ![f] = IF @ = "heard" THEN "told" ELSE @]
          /\ UNCHANGED <<phase, follow, flow, pairId, withdrawing>>
       \/ /\ Apply(f, "error")
          /\ Goto(f, "ended")
          /\ child' = [child EXCEPT ![f] = "dead"]
          /\ pairId' = [pairId EXCEPT ![f] = 0]
          /\ UNCHANGED <<follow, settled, withdrawing>>

\* The phone has refused, the record has expired or was superseded.  A refusal
\* also turns the switch off, for the next start not to ask again.
PollEnded(f) ==
    /\ record[pairId[f]] \in {"rejected", "gone"}
    /\ follow' = IF record[pairId[f]] = "rejected" THEN FALSE ELSE follow
    /\ Apply(f, "error")
    /\ Goto(f, "ended")
    /\ child' = [child EXCEPT ![f] = "dead"]
    /\ pairId' = [pairId EXCEPT ![f] = 0]
    /\ settled' = [settled EXCEPT ![f] = FALSE]
    /\ UNCHANGED withdrawing

Poll(f) ==
    /\ flow[f] = "pair"
    /\ pairId[f] # 0
    /\ PollApproved(f) \/ PollEnded(f)
    /\ UNCHANGED <<generation, launched, how, command, device, backend>>

\* The last look at the generation before the daemon.
Check(f) ==
    /\ flow[f] = "check"
    /\ Apply(f, "finishing")
    /\ Goto(f, IF Stale(f) THEN "ended" ELSE "daemon")
    /\ UNCHANGED <<generation, follow, launched, how, pairId, settled, command,
                   withdrawing, device, child, backend>>

\* ensure_daemon_and_autostart
DaemonStatus(f) ==
    /\ flow[f] = "daemon"
    /\ \/ daemon /\ Goto(f, "recheck")
       \/ (~daemon \/ "runtime" \in Faults) /\ Goto(f, "start")
    /\ UNCHANGED <<controller, follow, launched, how, pairId, settled, command,
                   withdrawing, device, child, backend>>

DaemonStart(f) ==
    /\ flow[f] = "start"
    /\ \/ /\ daemon' = TRUE
          /\ Goto(f, "recheck")
          /\ UNCHANGED phase
       \/ /\ "runtime" \in Faults
          /\ daemon' \in {daemon, TRUE}
          /\ Apply(f, "error")
          /\ Goto(f, "ended")
    /\ UNCHANGED <<generation, follow, launched, how, pairId, settled, command,
                   withdrawing, installed, paired, autostart, child, backend>>

Recheck(f) ==
    /\ flow[f] = "recheck"
    /\ Goto(f, IF Stale(f) THEN "ended" ELSE "install")
    /\ UNCHANGED <<controller, follow, launched, how, pairId, settled, command,
                   withdrawing, device, child, backend>>

AutostartInstall(f) ==
    /\ flow[f] = "install"
    /\ autostart' \in {TRUE} \cup MayFail("runtime", autostart)
    /\ Apply(f, "connected")
    /\ Goto(f, "ended")
    /\ UNCHANGED <<generation, follow, launched, how, pairId, settled, command,
                   withdrawing, installed, paired, daemon, child, backend>>

-----------------------------------------------------------------------------
(* The runtime's pair process, the phone and the backend *)

\* A key, or another one when the relay has forgotten the first.
ChildPrintsKey(f) ==
    /\ child[f] \in {"started", "heard", "told"}
    /\ child' = [child EXCEPT ![f] = "key"]
    /\ UNCHANGED <<controller, follow, launched, tasks, command, withdrawing,
                   device, backend>>

\* The credentials are saved, or were there before and not to be replaced.
ChildPairs(f) ==
    /\ \/ child[f] \in {"told", "orphan"}
       \/ child[f] = "started" /\ paired /\ how[f] # "repair"
    /\ child' = [child EXCEPT ![f] = IF @ = "orphan" THEN "dead" ELSE "authorized"]
    /\ paired' = TRUE
    /\ UNCHANGED <<controller, follow, launched, tasks, command, withdrawing,
                   installed, daemon, autostart, backend>>

ChildFails(f) ==
    /\ child[f] \in Alive \ {"authorized", "failed"}
    /\ child' = [child EXCEPT ![f] = "failed"]
    /\ UNCHANGED <<controller, follow, launched, tasks, command, withdrawing,
                   device, backend>>

PhoneAnswers(r) ==
    /\ record[r] = "pending"
    /\ \E s \in {"approved", "rejected", "gone"} : record' = [record EXCEPT ![r] = s]
    /\ UNCHANGED <<controller, follow, launched, tasks, command, withdrawing,
                   device, child, made, lost>>

\* cancel_pair_request
Withdraw(r) ==
    /\ r \in withdrawing
    /\ withdrawing' = withdrawing \ {r}
    /\ \/ /\ record' = [record EXCEPT ![r] = IF @ = "pending" THEN "gone" ELSE @]
          /\ UNCHANGED lost
       \/ /\ "backend" \in Faults
          /\ lost' = lost \cup {r}
          /\ UNCHANGED record
    /\ UNCHANGED <<controller, follow, launched, tasks, command, device, child,
                   made>>

\* The launcher is closed or killed, and starts again.  A pair process that has
\* had its directive may survive it and still pair.
Restart ==
    /\ "restart" \in Faults
    /\ launched
    /\ launched' = FALSE
    /\ generation < MaxGen
    /\ generation' = generation + 1
    /\ phase' = "idle"
    /\ flow' = [f \in Flows |-> IF f > generation + 1 THEN "unused" ELSE "ended"]
    /\ how' = [how EXCEPT ![generation + 1] = "cancel"]
    /\ UNCHANGED <<follow, device, made, record>>
    /\ lost' = lost \cup withdrawing \cup ({pairId[f] : f \in Flows} \ {0})
    /\ withdrawing' = {}
    /\ pairId' = [f \in Flows |-> 0]
    /\ settled' = [f \in Flows |-> FALSE]
    /\ command' = [c \in Commands |-> "none"]
    /\ child' \in [Flows -> {"dead", "orphan"}]
    /\ \A f \in Flows : child'[f] = "orphan" => child[f] = "told"

-----------------------------------------------------------------------------
FlowStep(f) ==
    \/ Ensure(f) \/ Status(f) \/ Check(f) \/ DaemonStatus(f) \/ DaemonStart(f)
    \/ Recheck(f) \/ AutostartInstall(f)

Next ==
    \/ Start \/ Startup \/ Cancel \/ Restart
    \/ \E c \in Commands :
        \/ SwitchOff(c) \/ SwitchOffDaemon(c) \/ SwitchOffAutostart(c)
        \/ CommandDropped(c)
    \/ \E f \in Flows :
        \/ FlowStep(f)
        \/ PairCancelled(f) \/ PairTimedOut(f) \/ PairFailed(f) \/ PairDone(f)
        \/ PairWaiting(f) \/ Poll(f)
        \/ ChildPrintsKey(f) \/ ChildPairs(f) \/ ChildFails(f)
    \/ \E r \in Records : PhoneAnswers(r) \/ Withdraw(r)

Spec == Init /\ [][Next]_vars

\* Whatever a flow waits for has a time limit, and so has a blocking request.
Fairness ==
    /\ \A f \in Flows : WF_vars(FlowStep(f)) /\ WF_vars(PairTimedOut(f))
    /\ \A r \in Records : WF_vars(Withdraw(r))

FairSpec == Spec /\ Fairness

-----------------------------------------------------------------------------
Types ==
    /\ phase \in Phases /\ generation \in 0..MaxGen
    /\ follow \in BOOLEAN /\ launched \in BOOLEAN
    /\ flow \in [Flows -> Stages]
    /\ how \in [Flows -> {"none", "connect", "repair", "startup", "cancel", "off"}]
    /\ pairId \in [Flows -> 0..MaxRecords] /\ settled \in [Flows -> BOOLEAN]
    /\ command \in [Commands -> {"none", "disable", "disabling", "unpair", "unpairing"}]
    /\ withdrawing \subseteq Records /\ lost \subseteq Records
    /\ installed \in BOOLEAN /\ paired \in BOOLEAN
    /\ daemon \in BOOLEAN /\ autostart \in BOOLEAN
    /\ child \in [Flows -> {"none", "dead", "orphan"} \cup Alive]
    /\ made \in 0..MaxRecords
    /\ record \in [Records -> {"none", "pending", "approved", "rejected", "gone"}]

\* Flows are numbered as the generations were handed out; a pair process and a
\* record belong to a flow exactly as long as it pairs.
FlowsNumbered ==
    \A f \in Flows :
        /\ flow[f] = "unused" <=> f > generation
        /\ child[f] \in Alive <=> flow[f] = "pair"
        /\ pairId[f] # 0 => flow[f] = "pair"

\* Every variable has its type, and no flow leaves its pair process running or
\* its record behind.
TypeOK == Types /\ FlowsNumbered

\* The panel never waits for a flow that is gone: while it shows one under way
\* the current flow runs, and it shows a code only while that flow pairs.
PanelFollowsFlow ==
    /\ phase \in Busy =>
        generation # 0 /\ flow[generation] \notin {"unused", "ended"}
    /\ phase = "waiting" => flow[generation] \in {"pair", "check"}

\* No prompt is forgotten on the phone: one that can still be answered belongs
\* to a flow that asks for the answer, or is being withdrawn, unless the
\* backend's answer, the withdrawal or the launcher was lost.
NoForgottenPrompt ==
    \A r \in Records : record[r] = "pending" =>
        \/ r \in withdrawing \cup lost
        \/ \E f \in Flows : flow[f] = "pair" /\ pairId[f] = r /\ ~settled[f]

\* The panel is not busy for ever: every flow it shows comes to an end.
PanelSettles == phase \in Busy ~> phase \notin Busy

-----------------------------------------------------------------------------
Quiet ==
    /\ \A c \in Commands : command[c] = "none"
    /\ \A f \in Flows : flow[f] \in {"unused", "ended"}

\* mod.rs:1109, switching off is "stop the service, remove autostart": once
\* everything has come to rest after it, the daemon is not running.
OffMeansOff ==
    Quiet /\ generation # 0 /\ how[generation] = "off" => ~daemon /\ ~autostart
=============================================================================
