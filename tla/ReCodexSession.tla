--------------------------- MODULE ReCodexSession ---------------------------
(***************************************************************************)
(* The desktop session of ReCodexState                                     *)
(* (crates/recodex-integration/src/desktop.rs).                            *)
(*                                                                         *)
(* The launcher owns one ReCodexState and runs every panel command on a    *)
(* thread of the blocking pool, so any number of commands interleave.      *)
(* Each member of Handlers is such a thread.  A command is cut at the      *)
(* points where it does not hold the lock that guards what it uses next:   *)
(* around the network calls, around the credential store, and at the reads *)
(* of the atomic auth_epoch.                                               *)
(*                                                                         *)
(* Tokens and device codes are positive numbers, None stands for no value. *)
(* A device code is named by the epoch of the login_start that asked for   *)
(* it.  Commands that change none of this state are left out:              *)
(* organizations, check_client, report_diagnostics, doctor.  So are a      *)
(* poisoned mutex and an adapter that could not be configured, which       *)
(* answer an error from the first line on.                                 *)
(***************************************************************************)
EXTENDS Naturals

CONSTANTS
    Handlers,      \* the threads that run panel commands
    NoHandler,     \* the holder of a free lock
    Ops,           \* the commands this instance issues
    StoreFaults,   \* TRUE iff the credential store may fail
    ConfigFaults,  \* TRUE iff writing the files under ~/.codex may fail
    MaxEpoch,      \* bound: login_start and logout calls
    MaxToken       \* bound: tokens the server ever issues

Commands == {"refresh", "login", "logout", "snapshot", "gateway"}

ASSUME SessionAssumption ==
    /\ NoHandler \notin Handlers
    /\ Ops \subseteq Commands
    /\ StoreFaults \in BOOLEAN
    /\ ConfigFaults \in BOOLEAN
    /\ MaxEpoch \in Nat
    /\ MaxToken \in Nat \ {0}

None == 0

VARIABLES
    token,         \* Adapter.access_token
    cache,         \* the token whose usage Adapter.cached_usage holds
    store,         \* the token in the credential store
    epoch,         \* ReCodexState.auth_epoch
    pending,       \* ReCodexState.pending_device_code
    adapterLock,   \* holder of the adapter mutex across several steps
    refreshLock,   \* holder of refresh_lock
    snapshotLock,  \* holder of snapshot_lock
    routed,        \* the managed block, key and auth.json are installed
    valid,         \* the tokens the server accepts
    minted,        \* the last token the server issued
    pc,            \* where each handler is
    ep,            \* the epoch each handler read or created
    tok,           \* the token in each handler's forked adapter
    fresh,         \* the token each handler got from the server
    code,          \* the device code each handler polls with
    from,          \* history: epoch of the command behind token and store
    out,           \* history: epoch of the last sign-out of each place
    clearFailed    \* history: the store once failed to clear

cells == <<token, cache, store, epoch, pending, routed>>
locks == <<adapterLock, refreshLock, snapshotLock>>
server == <<valid, minted>>
locals == <<pc, ep, tok, fresh, code>>
history == <<from, out, clearFailed>>
vars == <<cells, locks, server, locals, history>>

Labels == {"idle", "r_fork", "r_call", "r_check", "r_save", "r_commit",
           "s_put", "p_code", "p_call", "p_check", "p_save", "p_commit",
           "p_forget", "p_install", "o_clear", "o_revoke", "o_forget",
           "o_restore", "o_store", "n_fork", "n_call", "n_merge",
           "g_call", "g_route"}

\* ReCodexState::from_env starts from what the credential store holds, or as
\* signed out if the store cannot be read.
Init ==
    /\ store \in {None, 1}
    /\ token \in {store} \cup (IF StoreFaults THEN {None} ELSE {})
    /\ cache = None
    /\ epoch = 0
    /\ pending = None
    /\ adapterLock = NoHandler
    /\ refreshLock = NoHandler
    /\ snapshotLock = NoHandler
    /\ routed = (store # None)
    /\ valid = {store} \ {None}
    /\ minted = 1
    /\ pc = [h \in Handlers |-> "idle"]
    /\ ep = [h \in Handlers |-> 0]
    /\ tok = [h \in Handlers |-> None]
    /\ fresh = [h \in Handlers |-> None]
    /\ code = [h \in Handlers |-> None]
    /\ from = [token |-> 0, store |-> 0]
    /\ out = [token |-> 0, store |-> 0, pending |-> 0]
    /\ clearFailed = FALSE

-----------------------------------------------------------------------------
At(h, label) == pc[h] = label

\* A command on its way to its next step.
Goto(h, label) == pc' = [pc EXCEPT ![h] = label]

\* A command that returns its answer; its locals go out of scope.
Return(h) ==
    /\ Goto(h, "idle")
    /\ ep' = [ep EXCEPT ![h] = 0]
    /\ tok' = [tok EXCEPT ![h] = None]
    /\ fresh' = [fresh EXCEPT ![h] = None]
    /\ code' = [code EXCEPT ![h] = None]

AdapterFree == adapterLock = NoHandler

Current(h) == ep[h] = epoch

\* CredentialStore::clear, whose failure every caller but logout ignores.
ClearStore ==
    \/ /\ store' = None
       /\ UNCHANGED clearFailed
    \/ /\ StoreFaults
       /\ clearFailed' = TRUE
       /\ UNCHANGED store

SaveToken(h) ==
    /\ store' = fresh[h]
    /\ from' = [from EXCEPT !.store = ep[h]]

\* Adapter::set_access_token drops the usage cached for another token.
SetToken(h) ==
    /\ token' = fresh[h]
    /\ cache' = IF token = fresh[h] THEN cache ELSE None
    /\ from' = [from EXCEPT !.token = ep[h]]

-----------------------------------------------------------------------------
(* recodex_refresh_token *)

RefreshBegin(h) ==
    /\ "refresh" \in Ops
    /\ At(h, "idle")
    /\ refreshLock = NoHandler
    /\ refreshLock' = h
    /\ ep' = [ep EXCEPT ![h] = epoch]
    /\ Goto(h, "r_fork")
    /\ UNCHANGED <<cells, adapterLock, snapshotLock, server, tok, fresh, code, history>>

\* Every way out of the command drops the refresh guard.
RefreshReturn(h) ==
    /\ Return(h)
    /\ refreshLock' = NoHandler

RefreshFork(h) ==
    /\ At(h, "r_fork")
    /\ AdapterFree
    /\ \/ /\ token # None
          /\ tok' = [tok EXCEPT ![h] = token]
          /\ Goto(h, "r_call")
          /\ UNCHANGED <<refreshLock, ep, fresh, code>>
       \/ /\ token = None
          /\ RefreshReturn(h)
    /\ UNCHANGED <<cells, adapterLock, snapshotLock, server, history>>

\* The server rotates the token: the old one is dead at once.  The answer may
\* be lost on the way back, and the call may fail without effect.
RefreshCall(h) ==
    /\ At(h, "r_call")
    /\ \/ /\ tok[h] \in valid
          /\ minted < MaxToken
          /\ minted' = minted + 1
          /\ valid' = (valid \ {tok[h]}) \cup {minted + 1}
          /\ \/ /\ fresh' = [fresh EXCEPT ![h] = minted + 1]
                /\ Goto(h, "r_check")
                /\ UNCHANGED <<refreshLock, ep, tok, code>>
             \/ RefreshReturn(h)
       \/ /\ RefreshReturn(h)
          /\ UNCHANGED server
    /\ UNCHANGED <<cells, adapterLock, snapshotLock, history>>

RefreshCheck(h) ==
    /\ At(h, "r_check")
    /\ \/ /\ Current(h)
          /\ Goto(h, "r_save")
          /\ UNCHANGED <<refreshLock, ep, tok, fresh, code>>
       \/ /\ ~Current(h)
          /\ RefreshReturn(h)
    /\ UNCHANGED <<cells, adapterLock, snapshotLock, server, history>>

RefreshSave(h) ==
    /\ At(h, "r_save")
    /\ \/ /\ SaveToken(h)
          /\ Goto(h, "r_commit")
          /\ UNCHANGED <<refreshLock, ep, tok, fresh, code>>
       \/ /\ StoreFaults
          /\ RefreshReturn(h)
          /\ UNCHANGED <<store, from>>
    /\ UNCHANGED <<token, cache, epoch, pending, routed, adapterLock,
                   snapshotLock, server, out, clearFailed>>

\* Mutant: a cancelled refresh keeps what it saved.
RefreshCommitKeepsStore(h) ==
    /\ At(h, "r_commit")
    /\ AdapterFree
    /\ \/ /\ Current(h)
          /\ SetToken(h)
          /\ UNCHANGED <<store, clearFailed>>
       \/ /\ ~Current(h)
          /\ UNCHANGED <<token, cache, from, store, clearFailed>>
    /\ RefreshReturn(h)
    /\ UNCHANGED <<epoch, pending, routed, adapterLock, snapshotLock, server, out>>

RefreshCommit(h) ==
    /\ At(h, "r_commit")
    /\ AdapterFree
    /\ \/ /\ Current(h)
          /\ SetToken(h)
          /\ UNCHANGED <<store, clearFailed>>
       \/ /\ ~Current(h)
          /\ ClearStore
          /\ UNCHANGED <<token, cache, from>>
    /\ RefreshReturn(h)
    /\ UNCHANGED <<epoch, pending, routed, adapterLock, snapshotLock, server, out>>

-----------------------------------------------------------------------------
(* recodex_login_start *)

StartBegin(h) ==
    /\ "login" \in Ops
    /\ At(h, "idle")
    /\ epoch < MaxEpoch
    /\ epoch' = epoch + 1
    /\ ep' = [ep EXCEPT ![h] = epoch + 1]
    /\ Goto(h, "s_put")
    /\ UNCHANGED <<token, cache, store, pending, routed, locks, server, tok,
                   fresh, code, history>>

\* The server could not be reached, or the device has no identity.
StartFail(h) ==
    /\ At(h, "s_put")
    /\ Return(h)
    /\ UNCHANGED <<cells, locks, server, history>>

\* The check and the assignment are both made under the pending mutex.
StartPut(h) ==
    /\ At(h, "s_put")
    /\ Current(h)
    /\ pending' = ep[h]
    /\ Return(h)
    /\ UNCHANGED <<token, cache, store, epoch, routed, locks, server, history>>

-----------------------------------------------------------------------------
(* recodex_login_poll *)

PollBegin(h) ==
    /\ "login" \in Ops
    /\ At(h, "idle")
    /\ ep' = [ep EXCEPT ![h] = epoch]
    /\ Goto(h, "p_code")
    /\ UNCHANGED <<cells, locks, server, tok, fresh, code, history>>

PollCode(h) ==
    /\ At(h, "p_code")
    /\ \/ /\ pending # None
          /\ code' = [code EXCEPT ![h] = pending]
          /\ Goto(h, "p_call")
          /\ UNCHANGED <<ep, tok, fresh>>
       \/ /\ pending = None
          /\ Return(h)
    /\ UNCHANGED <<cells, locks, server, history>>

\* The user may have approved the code in the browser, and the server then
\* issues a token; any other answer ends the command.
PollCall(h) ==
    /\ At(h, "p_call")
    /\ \/ /\ code[h] # None
          /\ minted < MaxToken
          /\ minted' = minted + 1
          /\ valid' = valid \cup {minted + 1}
          /\ fresh' = [fresh EXCEPT ![h] = minted + 1]
          /\ Goto(h, "p_check")
          /\ UNCHANGED <<ep, tok, code>>
       \/ /\ Return(h)
          /\ UNCHANGED server
    /\ UNCHANGED <<cells, locks, history>>

\* From here to PollCommit the command holds the adapter mutex.
PollCheck(h) ==
    /\ At(h, "p_check")
    /\ AdapterFree
    /\ \/ /\ Current(h)
          /\ adapterLock' = h
          /\ Goto(h, "p_save")
          /\ UNCHANGED <<ep, tok, fresh, code>>
       \/ /\ ~Current(h)
          /\ Return(h)
          /\ UNCHANGED adapterLock
    /\ UNCHANGED <<cells, refreshLock, snapshotLock, server, history>>

PollSave(h) ==
    /\ At(h, "p_save")
    /\ \/ /\ SaveToken(h)
          /\ Goto(h, "p_commit")
          /\ UNCHANGED <<adapterLock, ep, tok, fresh, code>>
       \/ /\ StoreFaults
          /\ Return(h)
          /\ adapterLock' = NoHandler
          /\ UNCHANGED <<store, from>>
    /\ UNCHANGED <<token, cache, epoch, pending, routed, refreshLock,
                   snapshotLock, server, out, clearFailed>>

\* Mutant: the cancelled login returns with the adapter still locked.
PollCommitKeepsLock(h) ==
    /\ At(h, "p_commit")
    /\ adapterLock' = IF Current(h) THEN NoHandler ELSE h
    /\ \/ /\ Current(h)
          /\ SetToken(h)
          /\ Goto(h, "p_forget")
          /\ UNCHANGED <<store, clearFailed, ep, tok, fresh, code>>
       \/ /\ ~Current(h)
          /\ ClearStore
          /\ Return(h)
          /\ UNCHANGED <<token, cache, from>>
    /\ UNCHANGED <<epoch, pending, routed, refreshLock, snapshotLock, server, out>>

PollCommit(h) ==
    /\ At(h, "p_commit")
    /\ adapterLock' = NoHandler
    /\ \/ /\ Current(h)
          /\ SetToken(h)
          /\ Goto(h, "p_forget")
          /\ UNCHANGED <<store, clearFailed, ep, tok, fresh, code>>
       \/ /\ ~Current(h)
          /\ ClearStore
          /\ Return(h)
          /\ UNCHANGED <<token, cache, from>>
    /\ UNCHANGED <<epoch, pending, routed, refreshLock, snapshotLock, server, out>>

PollForget(h) ==
    /\ At(h, "p_forget")
    /\ pending' = None
    /\ Goto(h, "p_install")
    /\ UNCHANGED <<token, cache, store, epoch, routed, locks, server, ep, tok,
                   fresh, code, history>>

\* install_login_config; a failure is a warning, not an error.
PollInstall(h) ==
    /\ At(h, "p_install")
    /\ routed' \in {TRUE} \cup (IF ConfigFaults THEN {routed} ELSE {})
    /\ Return(h)
    /\ UNCHANGED <<token, cache, store, epoch, pending, locks, server, history>>

-----------------------------------------------------------------------------
(* recodex_logout, which recodex_prepare_uninstall also runs first *)

LogoutBegin(h) ==
    /\ "logout" \in Ops
    /\ At(h, "idle")
    /\ epoch < MaxEpoch
    /\ epoch' = epoch + 1
    /\ ep' = [ep EXCEPT ![h] = epoch + 1]
    /\ Goto(h, "o_clear")
    /\ UNCHANGED <<token, cache, store, pending, routed, locks, server, tok,
                   fresh, code, history>>

\* Adapter::clear_access_token, on a copy kept for the revocation.
LogoutClear(h) ==
    /\ At(h, "o_clear")
    /\ AdapterFree
    /\ tok' = [tok EXCEPT ![h] = token]
    /\ token' = None
    /\ cache' = None
    /\ out' = [out EXCEPT !.token = epoch]
    /\ Goto(h, "o_revoke")
    /\ UNCHANGED <<store, epoch, pending, routed, locks, server, ep, fresh,
                   code, from, clearFailed>>

\* The request may not arrive; the answer only changes what the user is told.
LogoutRevoke(h) ==
    /\ At(h, "o_revoke")
    /\ valid' \in {valid, valid \ {tok[h]}}
    /\ Goto(h, "o_forget")
    /\ UNCHANGED <<cells, locks, minted, ep, tok, fresh, code, history>>

LogoutForget(h) ==
    /\ At(h, "o_forget")
    /\ pending' = None
    /\ out' = [out EXCEPT !.pending = IF @ < ep[h] THEN ep[h] ELSE @]
    /\ Goto(h, "o_restore")
    /\ UNCHANGED <<token, cache, store, epoch, routed, locks, server, ep, tok,
                   fresh, code, from, clearFailed>>

\* lease_teardown_for_sign_out, restore_all, discard_snapshot: best effort.
LogoutRestore(h) ==
    /\ At(h, "o_restore")
    /\ routed' \in {FALSE} \cup (IF ConfigFaults THEN {routed} ELSE {})
    /\ Goto(h, "o_store")
    /\ UNCHANGED <<token, cache, store, epoch, pending, locks, server, ep, tok,
                   fresh, code, history>>

LogoutStore(h) ==
    /\ At(h, "o_store")
    /\ ClearStore
    /\ out' = [out EXCEPT !.store = IF @ < ep[h] THEN ep[h] ELSE @]
    /\ Return(h)
    /\ UNCHANGED <<token, cache, epoch, pending, routed, locks, server, from>>

-----------------------------------------------------------------------------
(* snapshot, behind recodex_status and recodex_refresh_usage.  A call that *)
(* finds snapshot_lock taken, at once or after two seconds, answers "busy" *)
(* and changes nothing.                                                    *)

SnapshotBegin(h) ==
    /\ "snapshot" \in Ops
    /\ At(h, "idle")
    /\ snapshotLock = NoHandler
    /\ snapshotLock' = h
    /\ ep' = [ep EXCEPT ![h] = epoch]
    /\ Goto(h, "n_fork")
    /\ UNCHANGED <<cells, adapterLock, refreshLock, server, tok, fresh, code, history>>

SnapshotReturn(h) ==
    /\ Return(h)
    /\ snapshotLock' = NoHandler

SnapshotFork(h) ==
    /\ At(h, "n_fork")
    /\ AdapterFree
    /\ \/ /\ token # None
          /\ tok' = [tok EXCEPT ![h] = token]
          /\ Goto(h, "n_call")
          /\ UNCHANGED <<snapshotLock, ep, fresh, code>>
       \/ /\ token = None
          /\ SnapshotReturn(h)
    /\ UNCHANGED <<cells, adapterLock, refreshLock, server, history>>

\* Three requests in parallel; a 401 on any of them, or no usage at all, ends
\* the command with the session as it was.
SnapshotCall(h) ==
    /\ At(h, "n_call")
    /\ \/ /\ tok[h] \in valid
          /\ Goto(h, "n_merge")
          /\ UNCHANGED <<snapshotLock, ep, tok, fresh, code>>
       \/ SnapshotReturn(h)
    /\ UNCHANGED <<cells, adapterLock, refreshLock, server, history>>

\* Mutant: the usage is merged whoever the adapter's token belongs to by now.
SnapshotMergeAnyToken(h) ==
    /\ At(h, "n_merge")
    /\ AdapterFree
    /\ cache' = IF Current(h) THEN tok[h] ELSE cache
    /\ SnapshotReturn(h)
    /\ UNCHANGED <<token, store, epoch, pending, routed, adapterLock,
                   refreshLock, server, history>>

\* Adapter::merge_cache_from, if no login or logout began since the fork.
SnapshotMerge(h) ==
    /\ At(h, "n_merge")
    /\ AdapterFree
    /\ cache' = IF Current(h) /\ token = tok[h] THEN tok[h] ELSE cache
    /\ SnapshotReturn(h)
    /\ UNCHANGED <<token, store, epoch, pending, routed, adapterLock,
                   refreshLock, server, history>>

-----------------------------------------------------------------------------
(* recodex_select_gateway, recodex_use_fastest_gateway and                 *)
(* recodex_doctor_fix: a request with a copy of the token, then the files. *)

GatewayBegin(h) ==
    /\ "gateway" \in Ops
    /\ At(h, "idle")
    /\ AdapterFree
    /\ token # None
    /\ tok' = [tok EXCEPT ![h] = token]
    /\ Goto(h, "g_call")
    /\ UNCHANGED <<cells, locks, server, ep, fresh, code, history>>

GatewayCall(h) ==
    /\ At(h, "g_call")
    /\ \/ /\ tok[h] \in valid
          /\ Goto(h, "g_route")
          /\ UNCHANGED <<ep, tok, fresh, code>>
       \/ Return(h)
    /\ UNCHANGED <<cells, locks, server, history>>

\* route_codex_through_gateway, or install_login_config for the doctor.
GatewayRoute(h) ==
    /\ At(h, "g_route")
    /\ routed' \in {TRUE} \cup (IF ConfigFaults THEN {routed} ELSE {})
    /\ Return(h)
    /\ UNCHANGED <<token, cache, store, epoch, pending, locks, server, history>>

-----------------------------------------------------------------------------
Refresh(h) ==
    \/ RefreshBegin(h) \/ RefreshFork(h) \/ RefreshCall(h)
    \/ RefreshCheck(h) \/ RefreshSave(h) \/ RefreshCommit(h)

LoginStart(h) == StartBegin(h) \/ StartFail(h) \/ StartPut(h)

LoginPoll(h) ==
    \/ PollBegin(h) \/ PollCode(h) \/ PollCall(h) \/ PollCheck(h)
    \/ PollSave(h) \/ PollCommit(h) \/ PollForget(h) \/ PollInstall(h)

Logout(h) ==
    \/ LogoutBegin(h) \/ LogoutClear(h) \/ LogoutRevoke(h)
    \/ LogoutForget(h) \/ LogoutRestore(h) \/ LogoutStore(h)

Snapshot(h) ==
    \/ SnapshotBegin(h) \/ SnapshotFork(h) \/ SnapshotCall(h) \/ SnapshotMerge(h)

Gateway(h) == GatewayBegin(h) \/ GatewayCall(h) \/ GatewayRoute(h)

Next ==
    \E h \in Handlers :
        \/ Refresh(h) \/ LoginStart(h) \/ LoginPoll(h)
        \/ Logout(h) \/ Snapshot(h) \/ Gateway(h)

Spec == Init /\ [][Next]_vars

-----------------------------------------------------------------------------
Types ==
    /\ token \in Nat /\ cache \in Nat /\ store \in Nat
    /\ epoch \in Nat /\ pending \in Nat /\ minted \in Nat
    /\ routed \in BOOLEAN /\ clearFailed \in BOOLEAN
    /\ adapterLock \in Handlers \cup {NoHandler}
    /\ refreshLock \in Handlers \cup {NoHandler}
    /\ snapshotLock \in Handlers \cup {NoHandler}
    /\ valid \subseteq Nat
    /\ pc \in [Handlers -> Labels]
    /\ ep \in [Handlers -> Nat]
    /\ tok \in [Handlers -> Nat]
    /\ fresh \in [Handlers -> Nat]
    /\ code \in [Handlers -> Nat]
    /\ from \in [token : Nat, store : Nat]
    /\ out \in [token : Nat, store : Nat, pending : Nat]

InRefresh == {"r_fork", "r_call", "r_check", "r_save", "r_commit"}
InSnapshot == {"n_fork", "n_call", "n_merge"}
InPollCritical == {"p_save", "p_commit"}

\* A lock is held by h iff h is between the two points of its command.
LocksHeld ==
    \A h \in Handlers :
        /\ pc[h] \in InRefresh <=> refreshLock = h
        /\ pc[h] \in InSnapshot <=> snapshotLock = h
        /\ pc[h] \in InPollCritical <=> adapterLock = h

\* Every variable has its type, and every way out of a command drops exactly
\* the guards it took.
TypeOK == Types /\ LocksHeld

\* A command that read the epoch before a sign-out never signs the desktop in
\* again: a token in the adapter comes from a command that saw an epoch at least
\* as new as the one at which the adapter was last cleared.
SignOutClearsAdapter == token # None => from.token >= out.token

\* The same for the credential store, where a cancelled command may already
\* have written: what an older command left there after a sign-out is still
\* going to be cleared by that command, unless the store itself fails to clear.
SignOutClearsStore ==
    store # None /\ from.store < out.store =>
        \/ clearFailed
        \/ \E h \in Handlers : pc[h] \in {"r_commit", "p_commit"} /\ ~Current(h)

\* A login begun before a sign-out cannot be completed after it: the device
\* code on offer is not older than the last sign-out that withdrew the code.
SignOutClearsPending == pending # None => pending >= out.pending

\* Signing out is final: what a command begun before it does afterwards brings
\* back neither the session, nor its copy on disk, nor its login in progress.
SignOutIsFinal == SignOutClearsAdapter /\ SignOutClearsStore /\ SignOutClearsPending

\* No command, and no trace of a sign-out, is from an epoch yet to come.
Epochs ==
    /\ \A h \in Handlers : ep[h] <= epoch
    /\ out.token <= epoch /\ out.store <= epoch /\ out.pending <= epoch

\* Usage is shown only for the account it was read for: the cached usage
\* belongs to the token the adapter holds, through refreshes, logins, logouts.
CacheBelongsToToken == cache # None => cache = token

-----------------------------------------------------------------------------
AllIdle == \A h \in Handlers : pc[h] = "idle"

\* desktop.rs:1055, logout reverts the Codex config "so Codex stops using
\* ReCodex": with no command running and no session, Codex is not routed.
SignedOutIsUnrouted == AllIdle /\ token = None => ~routed

\* desktop.rs:24-29, a user who has logged in is not signed out by a restart:
\* with no command running, the store holds the adapter's token if the server
\* still accepts that token.
LoginSurvivesRestart == AllIdle /\ token \in valid => store = token
=============================================================================
