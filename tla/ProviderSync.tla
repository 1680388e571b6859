----------------------------- MODULE ProviderSync -----------------------------
(***************************************************************************)
(* Moving stored sessions to another provider (codex-plus-data:             *)
(* provider_sync.rs, with the queue of remote_control_recovery.rs and their *)
(* callers in the launcher's main.rs).  A session is a rollout, a row and   *)
(* an entry of the catalog, each with a provider of its own, and Codex      *)
(* shows it only under the provider that is configured.  The rollout of one *)
(* that is archived lies elsewhere.                                         *)
(*                                                                         *)
(* sync      before Codex is launched: every session, all three parts       *)
(* recover   from the page: one session that a phone began under openai,    *)
(*           its catalog entry at once, the rest queued                     *)
(* finalize  at a later start: the queued sessions' rollouts and rows, but  *)
(*           not those of a session that has been archived since            *)
(*                                                                         *)
(* A lock directory with a file that names its owner keeps the processes    *)
(* apart; the lock of a dead process is renamed away.  Codex writes to its  *)
(* own files at any time, any step may fail and any process may die.        *)
(***************************************************************************)
EXTENDS Naturals, FiniteSets

CONSTANTS
    Procs,       \* launcher processes, all of them up at first
    Threads,     \* sessions (those of sub-agents, which are left out everywhere, are not here)
    Providers,   \* providers that may be configured
    None,
    Exclusive,   \* whether a file open in Codex or here cannot be opened by the other (Windows)
    MaxLines,    \* bound: lines Codex appends to a rollout
    MaxSwitches, \* bound: changes of the provider, and sessions that are archived or come back
    MaxTrouble   \* bound: steps that fail and processes that die

Openai  == "openai"

ASSUME ConstantsAssumption ==
    /\ Openai \notin Providers /\ None \notin Providers \cup {Openai} \cup Threads \cup Procs
    /\ Exclusive \in BOOLEAN
    /\ {MaxLines, MaxSwitches, MaxTrouble} \subseteq Nat

NoRollout == [prov |-> None, lines |-> 0]

VARIABLES
    roll,     \* the rollouts: the provider of their session_meta and Codex's lines
    rows,     \* the provider in the table of threads (state_5.sqlite)
    catalog,  \* and in the catalog (sqlite/codex-dev.db)
    archived, \* the sessions that are archived
    config,   \* model_provider in config.toml
    queue,    \* pending-remote-control-recovery.json
    lock,     \* tmp/provider-sync.lock: its owner.json, if there is one
    up,       \* the processes: "up", "down"
    work,     \* what each is doing
    codex,    \* whether Codex runs, and the rollouts it has open
    left,     \* lines, switches and trouble that are left
    wrote,    \* history: the lines Codex has appended
    cut,      \* history: the rollouts whose rewriting was cut short
    stolen    \* history: a lock was renamed away that was not the dead process's

sessions == <<roll, rows, catalog, archived>>
histories == <<wrote, cut, stolen>>
vars == <<sessions, config, queue, lock, up, work, codex, left, histories>>

Free   == [on |-> FALSE, owner |-> None]
Held(p) == [on |-> TRUE, owner |-> p]
NoSeen == [t \in Threads |-> NoRollout]

Idle == [op |-> "none", at |-> "idle", target |-> None, t |-> None, dead |-> None, result |-> "skipped",
         seen |-> NoSeen, was |-> {}, todo |-> {}, done |-> {}, passed |-> {}, back |-> FALSE, queue |-> {}]

Init ==
    /\ \E T \in SUBSET Threads :
          /\ roll = [t \in Threads |-> IF t \in T THEN [prov |-> Openai, lines |-> 0] ELSE NoRollout]
          /\ rows = [t \in Threads |-> IF t \in T THEN Openai ELSE None]
          /\ \E C \in SUBSET T : catalog = [t \in Threads |-> IF t \in C THEN Openai ELSE None]
          /\ archived \in SUBSET T
    /\ config \in Providers
    /\ queue = {} /\ lock = Free
    /\ up = [p \in Procs |-> "up"] /\ work = [p \in Procs |-> Idle]
    /\ codex = [on |-> FALSE, open |-> {}]
    /\ left = [lines |-> MaxLines, switches |-> MaxSwitches, trouble |-> MaxTrouble]
    /\ wrote = [t \in Threads |-> 0] /\ cut = {} /\ stolen = FALSE

At(p, at)    == up[p] = "up" /\ work[p].at = at
Becomes(p, r) == work' = [work EXCEPT ![p] = r]
GoesTo(p, at) == Becomes(p, [work[p] EXCEPT !.at = at])
Trouble == left.trouble > 0 /\ left' = [left EXCEPT !.trouble = @ - 1]

-----------------------------------------------------------------------------
(* The processes.  Only the primary launcher synchronises and recovers; a   *)
(* second one that finds Codex closed may finalize at the same time.        *)
Primary(p) == \A q \in Procs \ {p} : up[q] = "up" => work[q].op \notin {"sync", "recover"}

Ends(p) ==
    /\ At(p, "idle")
    /\ up' = [up EXCEPT ![p] = "down"]
    /\ UNCHANGED <<sessions, config, queue, lock, work, codex, left, histories>>

Dies(p) ==
    /\ up[p] = "up" /\ work[p] # Idle /\ Trouble
    /\ up' = [up EXCEPT ![p] = "down"]
    /\ Becomes(p, Idle)
    /\ cut' = IF work[p].at = "write" THEN cut \cup {work[p].t} ELSE cut
    /\ UNCHANGED <<sessions, config, queue, lock, codex, wrote, stolen>>

(* run_provider_sync_with_target: the target is read before the lock is     *)
(* taken, and Codex must not run.                                           *)
SyncBegins(p) ==
    /\ At(p, "idle") /\ Primary(p) /\ ~codex.on
    /\ Becomes(p, [Idle EXCEPT !.op = "sync", !.at = "lock", !.target = config])
    /\ UNCHANGED <<sessions, config, queue, lock, up, codex, left, histories>>

(* run_remote_control_session_recovery: a request counts only under the     *)
(* configuration it was made under.                                         *)
FinalizeBegins(p) ==
    /\ At(p, "idle") /\ ~codex.on
    /\ \E q \in queue :
          /\ q.target = config
          /\ Becomes(p, [Idle EXCEPT !.op = "finalize", !.at = "lock", !.target = q.target, !.t = q.t])
    /\ UNCHANGED <<sessions, config, queue, lock, up, codex, left, histories>>

(* recover_remote_control_session: the page names a session that is still   *)
(* openai's and not archived; the first request for it stays.               *)
RecoverBegins(p) ==
    /\ At(p, "idle") /\ Primary(p) /\ codex.on
    /\ \E t \in Threads :
          /\ rows[t] = Openai /\ t \notin archived
          /\ Becomes(p, [Idle EXCEPT !.op = "recover", !.at = "enqueue", !.target = config, !.t = t,
                                     !.queue = queue])
    /\ UNCHANGED <<sessions, config, queue, lock, up, codex, left, histories>>

(* The queue is one file that is read, changed and replaced; the mutex      *)
(* around that holds in one process only.                                   *)
Enqueued(p) ==
    LET r == work[p] IN
    /\ At(p, "enqueue")
    /\ queue' = IF \E q \in r.queue : q.t = r.t THEN queue
                ELSE r.queue \cup {[t |-> r.t, target |-> r.target]}
    /\ GoesTo(p, "lock")
    /\ UNCHANGED <<sessions, config, lock, up, codex, left, histories>>

EnqueueFails(p) ==
    /\ At(p, "enqueue") /\ Trouble
    /\ Becomes(p, Idle)
    /\ UNCHANGED <<sessions, config, queue, lock, up, codex, histories>>

-----------------------------------------------------------------------------
(* The lock.  Nothing ties a step to the directory it was about: a name is  *)
(* created, written into, renamed or removed, whatever stands there by then. *)
Work(p) == CASE work[p].op = "sync" -> "collect"
             [] work[p].op = "finalize" -> "lookup"
             [] OTHER -> "entry"

CreateLock(p) ==
    /\ up[p] = "up" /\ work[p].at \in {"lock", "again"}
    /\ ~lock.on
    /\ lock' = Held(None)
    /\ GoesTo(p, "owner")
    /\ UNCHANGED <<sessions, config, queue, up, codex, left, histories>>

LockExists(p) ==
    /\ lock.on
    /\ \/ At(p, "lock") /\ GoesTo(p, "judge")
       \/ At(p, "again") /\ Becomes(p, Idle)
    /\ UNCHANGED <<sessions, config, queue, lock, up, codex, left, histories>>

OwnerWritten(p) ==
    /\ At(p, "owner") /\ lock.on
    /\ lock' = Held(p)
    /\ GoesTo(p, Work(p))
    /\ UNCHANGED <<sessions, config, queue, up, codex, left, histories>>

(* The directory is gone, or the write fails: what stands there is removed. *)
OwnerNotWritten(p) ==
    /\ At(p, "owner")
    /\ IF lock.on THEN Trouble ELSE UNCHANGED left
    /\ lock' = Free
    /\ Becomes(p, Idle)
    /\ UNCHANGED <<sessions, config, queue, up, codex, histories>>

(* isolate_stale_lock: a lock without an owner, or whose owner may be       *)
(* alive, stays.                                                            *)
JudgedDead(p) ==
    /\ At(p, "judge")
    /\ lock.on /\ lock.owner # None /\ up[lock.owner] = "down"
    /\ Becomes(p, [work[p] EXCEPT !.at = "isolate", !.dead = lock.owner])
    /\ UNCHANGED <<sessions, config, queue, lock, up, codex, left, histories>>

JudgedAlive(p) ==
    /\ At(p, "judge")
    /\ ~(lock.on /\ lock.owner # None /\ up[lock.owner] = "down")
    /\ Becomes(p, Idle)
    /\ UNCHANGED <<sessions, config, queue, lock, up, codex, left, histories>>

Isolated(p) ==
    /\ At(p, "isolate")
    /\ stolen' = (stolen \/ (lock.on /\ lock.owner # work[p].dead))
    /\ IF lock.on THEN GoesTo(p, "again") ELSE Becomes(p, Idle)
    /\ lock' = Free
    /\ UNCHANGED <<sessions, config, queue, up, codex, left, wrote, cut>>

Lock(p) == \/ CreateLock(p) \/ LockExists(p) \/ OwnerWritten(p) \/ OwnerNotWritten(p)
           \/ JudgedDead(p) \/ JudgedAlive(p) \/ Isolated(p)

-----------------------------------------------------------------------------
(* Rollouts are compared and rewritten in place, one after the other: what  *)
(* is not as it was read, or is open elsewhere, is passed over.             *)
Writing(t) == \E p \in Procs : At(p, "write") /\ work[p].t = t
Locked(t)  == (Exclusive /\ t \in codex.open) \/ Writing(t)
After(r, t) == [r.seen[t] EXCEPT !.prov = r.target]
Expected(r, t) == IF r.back THEN After(r, t) ELSE r.seen[t]
Replaced(r, t) == IF r.back THEN r.seen[t] ELSE After(r, t)

(* The rollout is not where it was read from.                               *)
Moved(r, t) == ~(t \in archived <=> t \in r.was)

\* Wrong variant: what has been read is written, whatever stands there now.
RewriteUnchecked(p) ==
    LET r == work[p] IN
    /\ At(p, "rollouts")
    /\ \E t \in r.todo :
          /\ ~Locked(t) /\ ~Moved(r, t)
          /\ Becomes(p, [r EXCEPT !.at = "write", !.t = t, !.todo = @ \ {t}])
          /\ roll' = [roll EXCEPT ![t] = NoRollout]
    /\ UNCHANGED <<rows, catalog, archived, config, queue, lock, up, codex, left, histories>>

(* replace_session_text_if_unchanged, up to set_len(0) ...                  *)
Rewrite(p) ==
    LET r == work[p] IN
    /\ At(p, "rollouts")
    /\ \E t \in r.todo :
          /\ ~Locked(t) /\ ~Moved(r, t) /\ roll[t] = Expected(r, t)
          /\ Becomes(p, [r EXCEPT !.at = "write", !.t = t, !.todo = @ \ {t}])
          /\ roll' = [roll EXCEPT ![t] = NoRollout]
    /\ UNCHANGED <<rows, catalog, archived, config, queue, lock, up, codex, left, histories>>

(* ... and from there.                                                      *)
Rewritten(p) ==
    LET r == work[p] IN
    /\ At(p, "write")
    /\ roll' = [roll EXCEPT ![r.t] = Replaced(r, r.t)]
    /\ Becomes(p, [r EXCEPT !.at = "rollouts", !.done = @ \cup {r.t}])
    /\ UNCHANGED <<rows, catalog, archived, config, queue, lock, up, codex, left, histories>>

(* On the way back a rollout that is locked ends the undoing.               *)
PassedOver(p) ==
    LET r == work[p] IN
    /\ At(p, "rollouts")
    /\ \E t \in r.todo :
          /\ ~Moved(r, t) /\ (Locked(t) \/ roll[t] # Expected(r, t))
          /\ Becomes(p, [r EXCEPT !.passed = @ \cup {t},
                                  !.todo = IF r.back /\ Locked(t) THEN {} ELSE @ \ {t}])
    /\ UNCHANGED <<sessions, config, queue, lock, up, codex, left, histories>>

(* Any other error, as that a rollout has moved, ends the command at once:  *)
(* nothing that was rewritten by then is taken back, and a rollout it was   *)
(* writing stays cut off.                                                   *)
RewriteFails(p) ==
    /\ up[p] = "up" /\ (work[p].at = "write" \/ (work[p].at = "rollouts" /\ work[p].todo # {}))
    /\ \/ Trouble
       \/ /\ work[p].at = "rollouts" /\ \E t \in work[p].todo : Moved(work[p], t)
          /\ UNCHANGED left
    /\ cut' = IF work[p].at = "write" THEN cut \cup {work[p].t} ELSE cut
    /\ GoesTo(p, "release")
    /\ UNCHANGED <<sessions, config, queue, lock, up, codex, wrote, stolen>>

AllRewritten(p) ==
    LET r == work[p] IN
    /\ At(p, "rollouts") /\ r.todo = {}
    /\ GoesTo(p, IF r.back THEN "release" ELSE IF r.op = "sync" THEN "catalog" ELSE "verify")
    /\ UNCHANGED <<sessions, config, queue, lock, up, codex, left, histories>>

-----------------------------------------------------------------------------
(* run_provider_sync_with_target under the lock                             *)
Readable(t) == ~Writing(t) /\ roll[t].prov # None
Known(t)    == rows[t] # None

\* Wrong variant: what is up to date is judged by the rows.
UpToDateByRows(target) == \A t \in Threads : rows[t] \in {None, target}

UpToDate(target) ==
    \A t \in Threads : /\ Readable(t) => roll[t].prov = target
                       /\ Known(t) => rows[t] = target /\ catalog[t] = target

(* Everything is read, and backed up if there is anything to do.            *)
Collected(p) ==
    LET r == work[p]
        seen == [t \in Threads |-> IF Readable(t) THEN roll[t] ELSE NoRollout]
    IN  /\ At(p, "collect")
        /\ Becomes(p, IF UpToDate(r.target) THEN [r EXCEPT !.at = "release", !.result = "synced", !.seen = seen]
                      ELSE [r EXCEPT !.at = "rollouts", !.seen = seen, !.was = archived,
                                     !.todo = {t \in Threads : seen[t].prov \notin {None, r.target}}])
        /\ UNCHANGED <<sessions, config, queue, lock, up, codex, left, histories>>

(* One transaction per database.                                            *)
CatalogMoved(p) ==
    LET r == work[p] IN
    /\ At(p, "catalog") /\ r.op = "sync"
    /\ catalog' = [t \in Threads |-> IF catalog[t] = None THEN None ELSE r.target]
    /\ GoesTo(p, "rows")
    /\ UNCHANGED <<roll, rows, archived, config, queue, lock, up, codex, left, histories>>

RowsMoved(p) ==
    LET r == work[p] IN
    /\ At(p, "rows") /\ r.op = "sync"
    /\ rows' = [t \in Threads |-> IF Known(t) THEN r.target ELSE rows[t]]
    /\ GoesTo(p, "repair")
    /\ UNCHANGED <<roll, catalog, archived, config, queue, lock, up, codex, left, histories>>

(* repair_missing_local_thread_catalog_rows: what is missing is entered.    *)
Repaired(p) ==
    LET r == work[p] IN
    /\ At(p, "repair")
    /\ catalog' = [t \in Threads |-> IF Known(t) /\ catalog[t] = None THEN r.target ELSE catalog[t]]
    /\ GoesTo(p, "global")
    /\ UNCHANGED <<roll, rows, archived, config, queue, lock, up, codex, left, histories>>

(* apply_global_state_update and prune_backups: the last that may fail.     *)
GlobalStateWritten(p) ==
    /\ At(p, "global")
    /\ Becomes(p, [work[p] EXCEPT !.at = "release", !.result = "synced"])
    /\ UNCHANGED <<sessions, config, queue, lock, up, codex, left, histories>>

(* restore_session_changes: a failure after the rollouts undoes the         *)
(* rollouts; what the databases have committed stays.                       *)
SyncFails(p) ==
    LET r == work[p] IN
    /\ up[p] = "up" /\ r.op = "sync" /\ r.at \in {"collect", "catalog", "rows", "repair", "global"}
    /\ Trouble
    /\ Becomes(p, IF r.at = "collect" THEN [r EXCEPT !.at = "release"]
                  ELSE [r EXCEPT !.at = "rollouts", !.back = TRUE, !.todo = r.done])
    /\ UNCHANGED <<sessions, config, queue, lock, up, codex, histories>>

-----------------------------------------------------------------------------
(* One session: finalize, and recover from "entry" on                       *)
Third(t, target) == {rows[t], roll[t].prov} \ {None, Openai, target} # {}

(* remote_control_rollout_for_thread: a session that is archived stays as   *)
(* it is, one that is another provider's is left to it, and either counts   *)
(* as done; one whose rollout cannot be read has to wait.                   *)
LookedUp(p) ==
    LET t == work[p].t
        r == [work[p] EXCEPT !.was = archived]
    IN
    /\ At(p, "lookup")
    /\ Becomes(p, IF t \in archived \/ rows[t] \notin {Openai, r.target}
                       THEN [r EXCEPT !.at = "release", !.result = "synced"]
                  ELSE IF ~Readable(t) THEN [r EXCEPT !.at = "release"]
                  ELSE IF roll[t].prov \notin {Openai, r.target}
                       THEN [r EXCEPT !.at = "release", !.result = "synced"]
                  ELSE [r EXCEPT !.at = "rollouts", !.seen[t] = roll[t],
                                 !.todo = IF roll[t].prov = Openai THEN {t} ELSE {}])
    /\ UNCHANGED <<sessions, config, queue, lock, up, codex, left, histories>>

\* Wrong variant: the rollout is not looked at again.
VerifiedUnread(p) ==
    /\ At(p, "verify")
    /\ GoesTo(p, "entry")
    /\ UNCHANGED <<sessions, config, queue, lock, up, codex, left, histories>>

Verified(p) ==
    LET r == work[p] IN
    /\ At(p, "verify")
    /\ GoesTo(p, IF Readable(r.t) /\ ~Moved(r, r.t) /\ roll[r.t].prov = r.target THEN "entry" ELSE "release")
    /\ UNCHANGED <<sessions, config, queue, lock, up, codex, left, histories>>

EntryMade(p) ==
    LET r == work[p] IN
    /\ At(p, "entry")
    /\ catalog' = IF catalog[r.t] = None THEN [catalog EXCEPT ![r.t] = r.target] ELSE catalog
    /\ GoesTo(p, "catalog")
    /\ UNCHANGED <<roll, rows, archived, config, queue, lock, up, codex, left, histories>>

(* finalize takes only what is openai's, recover whatever is not the        *)
(* target's.                                                                *)
EntryMoved(p) ==
    LET r == work[p] IN
    /\ At(p, "catalog") /\ r.op # "sync"
    /\ catalog' = [catalog EXCEPT ![r.t] =
                     IF @ = Openai \/ (@ # None /\ r.op = "recover") THEN r.target ELSE @]
    /\ Becomes(p, IF r.op = "finalize" THEN [r EXCEPT !.at = "rows"]
                  ELSE [r EXCEPT !.at = "release", !.result = "synced"])
    /\ UNCHANGED <<roll, rows, archived, config, queue, lock, up, codex, left, histories>>

RowMoved(p) ==
    LET r == work[p] IN
    /\ At(p, "rows") /\ r.op = "finalize"
    /\ rows' = [rows EXCEPT ![r.t] = IF @ = Openai THEN r.target ELSE @]
    /\ Becomes(p, [r EXCEPT !.at = "release", !.result = "synced"])
    /\ UNCHANGED <<roll, catalog, archived, config, queue, lock, up, codex, left, histories>>

OneFails(p) ==
    /\ up[p] = "up" /\ work[p].op # "sync" /\ work[p].at \in {"lookup", "verify", "entry", "catalog", "rows"}
    /\ Trouble
    /\ GoesTo(p, "release")
    /\ UNCHANGED <<sessions, config, queue, lock, up, codex, histories>>

-----------------------------------------------------------------------------
(* release_lock removes the directory of that name; a failure is ignored.   *)
Release(p) ==
    LET r == work[p] IN
    /\ At(p, "release")
    /\ \/ lock' = Free /\ UNCHANGED left
       \/ lock.on /\ Trouble /\ UNCHANGED lock
    /\ Becomes(p, IF r.op = "finalize" /\ r.result = "synced"
                  THEN [Idle EXCEPT !.op = r.op, !.at = "complete", !.t = r.t, !.queue = queue] ELSE Idle)
    /\ UNCHANGED <<sessions, config, queue, up, codex, histories>>

(* complete_pending_remote_control_recovery                                 *)
Completed(p) ==
    LET r == work[p] IN
    /\ At(p, "complete")
    /\ queue' = IF \E q \in r.queue : q.t = r.t THEN {q \in r.queue : q.t # r.t} ELSE queue
    /\ Becomes(p, Idle)
    /\ UNCHANGED <<sessions, config, lock, up, codex, left, histories>>

CompleteFails(p) ==
    /\ At(p, "complete") /\ Trouble
    /\ Becomes(p, Idle)
    /\ UNCHANGED <<sessions, config, queue, lock, up, codex, histories>>

-----------------------------------------------------------------------------
(* Codex and the user *)
CodexStarts ==
    /\ ~codex.on
    /\ codex' = [on |-> TRUE, open |-> {}]
    /\ UNCHANGED <<sessions, config, queue, lock, up, work, left, histories>>

CodexStops ==
    /\ codex.on
    /\ codex' = [on |-> FALSE, open |-> {}]
    /\ UNCHANGED <<sessions, config, queue, lock, up, work, left, histories>>

CodexCreates(t) ==
    /\ codex.on /\ ~Known(t)
    /\ roll' = [roll EXCEPT ![t] = [prov |-> Openai, lines |-> 0]]
    /\ rows' = [rows EXCEPT ![t] = Openai]
    /\ UNCHANGED <<catalog, archived, config, queue, lock, up, work, codex, left, histories>>

CodexAppends(t) ==
    /\ codex.on /\ Known(t) /\ left.lines > 0
    /\ Exclusive => ~Writing(t)
    /\ codex' = [codex EXCEPT !.open = @ \cup {t}]
    /\ roll' = [roll EXCEPT ![t].lines = @ + 1]
    /\ wrote' = [wrote EXCEPT ![t] = @ + 1]
    /\ left' = [left EXCEPT !.lines = @ - 1]
    /\ UNCHANGED <<rows, catalog, archived, config, queue, lock, up, work, cut, stolen>>

(* A session goes to the archive or comes back, its rollout with it.        *)
CodexArchives(t) ==
    /\ codex.on /\ Known(t)
    /\ Exclusive => ~Writing(t)
    /\ left.switches > 0
    /\ archived' = IF t \in archived THEN archived \ {t} ELSE archived \cup {t}
    /\ left' = [left EXCEPT !.switches = @ - 1]
    /\ UNCHANGED <<roll, rows, catalog, config, queue, lock, up, work, codex, histories>>

ConfigSwitched ==
    /\ left.switches > 0
    /\ \E x \in Providers \ {config} : config' = x
    /\ left' = [left EXCEPT !.switches = @ - 1]
    /\ UNCHANGED <<sessions, queue, lock, up, work, codex, histories>>

Moves(p) == \/ Rewrite(p) \/ Rewritten(p) \/ PassedOver(p) \/ RewriteFails(p) \/ AllRewritten(p)
            \/ Collected(p) \/ CatalogMoved(p) \/ RowsMoved(p) \/ Repaired(p)
            \/ GlobalStateWritten(p) \/ SyncFails(p)
            \/ LookedUp(p) \/ Verified(p) \/ EntryMade(p) \/ EntryMoved(p) \/ RowMoved(p) \/ OneFails(p)

Next ==
    \/ \E p \in Procs :
          \/ Ends(p) \/ Dies(p)
          \/ SyncBegins(p) \/ FinalizeBegins(p) \/ RecoverBegins(p) \/ Enqueued(p) \/ EnqueueFails(p)
          \/ Lock(p) \/ Moves(p) \/ Release(p) \/ Completed(p) \/ CompleteFails(p)
    \/ CodexStarts \/ CodexStops \/ ConfigSwitched
    \/ \E t \in Threads : CodexCreates(t) \/ CodexAppends(t) \/ CodexArchives(t)

Spec == Init /\ [][Next]_vars

-----------------------------------------------------------------------------
Sources == Providers \cup {Openai, None}

TypeOK ==
    /\ \A t \in Threads : roll[t].prov \in Sources /\ roll[t].lines \in 0 .. MaxLines
    /\ rows \in [Threads -> Sources] /\ catalog \in [Threads -> Sources]
    /\ archived \subseteq Threads
    /\ config \in Providers
    /\ queue \subseteq [t : Threads, target : Providers]
    /\ lock \in {Free} \cup {Held(p) : p \in Procs \cup {None}}

(* No line that Codex has written to a rollout is lost, whatever is         *)
(* rewritten, undone or taken over meanwhile, unless a rewriting was cut    *)
(* short.                                                                   *)
LinesKept ==
    TypeOK /\ \A t \in Threads : roll[t].lines = wrote[t] \/ t \in cut \/ Writing(t)

(* A synchronisation that reports success has moved every session it found, *)
(* in all its parts, except the rollouts it reports as passed over.          *)
Whole(r) ==
    \A t \in Threads : r.seen[t].prov # None =>
        /\ roll[t].prov = r.target \/ t \in r.passed \cup cut
        /\ rows[t] = r.target /\ catalog[t] = r.target

SyncedIsWhole ==
    [][\A p \in Procs : (Release(p) /\ work[p].op = "sync" /\ work[p].result = "synced" /\ ~stolen)
                            => Whole(work[p])]_vars

(* A queued session is done with only when no part of it is openai's any    *)
(* more, or when it is another provider's.  The lock is what this rests on. *)
(* One that was archived when it was looked up is left out: it is struck    *)
(* from the queue with all its parts still openai's.                        *)
CompletedIsServed ==
    [][\A p \in Procs :
          (/\ Release(p) /\ work[p].op = "finalize" /\ work[p].result = "synced" /\ ~stolen
           /\ work[p].t \notin work[p].was) =>
          LET t == work[p].t IN \/ Openai \notin {roll[t].prov, rows[t], catalog[t]}
                                \/ Third(t, work[p].target)]_vars

(* The same of every session, which the code does not keep.                 *)
EveryCompletedIsServed ==
    [][\A p \in Procs : (Release(p) /\ work[p].op = "finalize" /\ work[p].result = "synced" /\ ~stolen) =>
          LET t == work[p].t IN \/ Openai \notin {roll[t].prov, rows[t], catalog[t]}
                                \/ Third(t, work[p].target)]_vars
=============================================================================
