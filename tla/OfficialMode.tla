----------------------------- MODULE OfficialMode -----------------------------
(***************************************************************************)
(* Whose Codex this is (recodex-integration: officialmode.rs, codexcfg.rs   *)
(* and their callers in desktop.rs).  ReCodex installs itself into files    *)
(* that are the user's: a block in config.toml that takes over the default  *)
(* provider, an auth.json in the place of the user's own, which is kept as   *)
(* a backup, and a key in the environment.  Signing out takes all of it     *)
(* away; the official mode takes it away for a while and keeps a snapshot.  *)
(*                                                                         *)
(* Every operation is a list of writes of one file each, each atomic (a      *)
(* temporary file that is renamed).  A write may fail, and the program may  *)
(* end between two of them.                                                *)
(***************************************************************************)
EXTENDS Naturals

CONSTANTS
    Gateways,     \* the gateways Codex can be routed through
    Providers,    \* the default providers the user may choose in config.toml
    MaxSessions,  \* bound: how often somebody signs in to ReCodex
    MaxSignIns,   \* bound: how often the user signs in to Codex itself
    MaxIncidents  \* bound: failed writes and ends of the program

ASSUME GatewaysAssumption == Gateways # {} /\ "none" \notin Gateways
ASSUME ProvidersAssumption == "none" \notin Providers
ASSUME BoundsAssumption == {MaxSessions, MaxSignIns, MaxIncidents} \subseteq Nat

Nobody  == <<"nobody", 0>>
User(i) == <<"user", i>>       \* the credentials of the user's i-th sign-in
Ours(s) == <<"recodex", s>>    \* the ones the server hands out with a session
IsOurs(a) == a[1] = "recodex"

NoBlock == [gw |-> "none", key |-> 0, leads |-> FALSE]
NoSnapshot == [taken |-> FALSE, block |-> NoBlock, auth |-> Nobody, key |-> 0]

VARIABLES
    cfg,      \* config.toml: the managed block (its gateway, its key and whether it sets
              \* the default provider), the user's default and the one set aside in the block
    auth,     \* auth.json
    backup,   \* what was in its place
    managed,  \* the mark that says that auth.json is ours
    key,      \* RECODEX_KEY
    snap,     \* official-mode.json
    run,      \* the operation under way and its writes that are left
    session,  \* the ReCodex session, 0 if there is none
    count,    \* the sessions, sign-ins and incidents so far
    own,      \* history: the user's last sign-in to Codex with nothing of ReCodex's in place
    ownDflt,  \* history: the default provider the user chose last
    newer,    \* history: the one made since then over a backup or a mark of ours
    want,     \* history: the gateway that was chosen last
    whole,    \* history: ReCodex's installation has been completed and nothing undid a part,
              \* a sign-in of the user's over the live one included
    settled   \* history: the official mode was entered without an incident, and none followed

files == <<cfg, auth, backup, managed, key, snap>>
world == <<session, count, own, ownDflt, newer>>
vars == <<files, run, world, want, whole, settled>>

Idle == [flow |-> "none", at |-> "end", block |-> NoBlock, auth |-> Nobody, key |-> 0, clean |-> TRUE]

is_official_mode == snap.taken

Init ==
    /\ \E d \in Providers \cup {"none"} :
          cfg = [block |-> NoBlock, dflt |-> d, prev |-> "none"] /\ ownDflt = d
    /\ auth \in {Nobody, User(0)} /\ own = auth
    /\ backup = Nobody /\ managed = FALSE /\ key = 0 /\ snap = NoSnapshot
    /\ run = Idle
    /\ session = 0 /\ count = [sessions |-> 0, signIns |-> 0, incidents |-> 0]
    /\ newer = Nobody /\ want = "none" /\ whole = FALSE /\ settled = FALSE

-----------------------------------------------------------------------------
(* The writes of an operation, one after the other.                           *)
FirstStep(flow) ==
    CASE flow = "enable"             -> "save"
      [] flow \in {"disable", "route"} -> "apply"
      [] flow = "login"              -> "discard"
      [] flow = "logout"             -> "restore config"
      [] flow = "stage"              -> "stage"

NextStep(flow, s) ==
    CASE s = "save"                         -> "demote"
      [] s \in {"demote", "restore config"} -> "auth back"
      [] s = "auth back"                    -> "unmark"
      [] s = "unmark"                       -> "drop backup"
      [] s = "drop backup" /\ flow = "logout" -> "unset key"
      [] s = "unset key"                    -> "discard"
      [] s = "discard"                      -> "clear"
      [] s = "clear" /\ flow = "login"      -> "apply"
      [] s = "apply" /\ flow # "route"      -> "keep own"
      [] s = "keep own"                     -> "mark"
      [] s = "mark"                         -> "write auth"
      [] s = "write auth"                   -> "set key"
      [] s = "set key" /\ flow = "disable"  -> "clear"
      [] OTHER                              -> "end"

(* The user's default provider while the block is there, or after it.          *)
Chosen(c) == IF c.dflt # "none" THEN c.dflt ELSE c.prev

(* apply_config: the block is replaced; a default of the user's is set aside.  *)
Applied(c, b) ==
    IF b = NoBlock THEN c
    ELSE [block |-> IF b.key = 0 THEN [b EXCEPT !.key = key] ELSE b, dflt |-> "none", prev |-> Chosen(c)]

demote_managed_provider(c) == [c EXCEPT !.block.leads = FALSE]

(* Wrong variant: the block goes and takes along what was set aside in it.     *)
RestoredWithoutDefault(c) == [block |-> NoBlock, dflt |-> c.dflt, prev |-> "none"]

restore_config(c) == [block |-> NoBlock, dflt |-> Chosen(c), prev |-> "none"]

(* Wrong variant: auth.json is left out, it was once.                          *)
SnapshotWithoutAuth == [taken |-> TRUE, block |-> cfg.block, auth |-> Nobody, key |-> key]

current_snapshot ==
    [taken |-> TRUE, block |-> cfg.block, auth |-> IF managed THEN auth ELSE Nobody, key |-> key]

(* Wrong variant: whatever is in auth.json is kept, over an older backup.      *)
KeptAlways(r) == IF r.auth # Nobody /\ auth # Nobody THEN auth ELSE backup

Kept(r) == IF r.auth # Nobody /\ auth # Nobody /\ backup = Nobody THEN auth ELSE backup

Config(s, r) ==
    CASE s = "apply"          -> Applied(cfg, r.block)
      [] s = "demote"         -> demote_managed_provider(cfg)
      [] s \in {"restore config", "discard"} -> restore_config(cfg)
      [] OTHER                -> cfg

Auth(s, r) ==
    CASE s = "auth back" /\ (managed \/ backup # Nobody) -> backup
      [] s = "write auth" /\ r.auth # Nobody             -> r.auth
      [] OTHER                                           -> auth

Backup(s, r) ==
    CASE s = "keep own"    -> Kept(r)
      [] s = "drop backup" -> Nobody
      [] OTHER             -> backup

Mark(s, r) ==
    CASE s = "mark" /\ r.auth # Nobody -> TRUE
      [] s = "unmark"                  -> FALSE
      [] OTHER                         -> managed

Key(s, r) ==
    CASE s = "set key" /\ r.key # 0 -> r.key
      [] s = "unset key"            -> 0
      [] OTHER                      -> key

Snapshot(s, r) ==
    CASE s = "save"  -> current_snapshot
      [] s = "stage" -> [snap EXCEPT !.block = r.block]
      [] s = "clear" -> NoSnapshot
      [] OTHER       -> snap

-----------------------------------------------------------------------------
Begins(flow, block, credentials, newKey) ==
    run' = [flow |-> flow, at |-> FirstStep(flow), block |-> block, auth |-> credentials,
            key |-> newKey, clean |-> TRUE]

Block(g, k) == [gw |-> g, key |-> k, leads |-> TRUE]

(* recodex_login_poll approved: install_login_config.                         *)
Login(g) ==
    LET s == count.sessions + 1 IN
    /\ run = Idle /\ s <= MaxSessions
    /\ session' = s /\ count' = [count EXCEPT !.sessions = s]
    /\ Begins("login", Block(g, s), Ours(s), s)
    /\ whole' = FALSE
    /\ UNCHANGED <<files, own, ownDflt, newer, want, settled>>

(* sync_managed_config, at the start of the program: the server's choice of a  *)
(* gateway, without a new key; in official mode for the snapshot only.        *)
Sync(g) ==
    /\ run = Idle /\ session # 0
    /\ IF is_official_mode
       THEN Begins("stage", Block(g, 0), Nobody, 0) /\ UNCHANGED whole
       ELSE Begins("login", Block(g, 0), Ours(session), 0) /\ whole' = FALSE
    /\ UNCHANGED <<files, world, want, settled>>

(* recodex_doctor_fix: the user wants ReCodex now, whatever the mode.          *)
DoctorFix(g) ==
    /\ run = Idle /\ session # 0
    /\ Begins("login", Block(g, 0), Ours(session), 0)
    /\ whole' = FALSE
    /\ UNCHANGED <<files, world, want, settled>>

(* Wrong variant: the live configuration is written in every mode.            *)
RouteLive(g) ==
    /\ run = Idle /\ session # 0
    /\ Begins("route", Block(g, 0), Nobody, 0)
    /\ UNCHANGED <<files, world, want, whole, settled>>

(* route_codex_through_gateway.                                               *)
Route(g) ==
    /\ run = Idle /\ session # 0
    /\ Begins(IF is_official_mode THEN "stage" ELSE "route", Block(g, 0), Nobody, 0)
    /\ UNCHANGED <<files, world, want, whole, settled>>

Logout ==
    /\ run = Idle
    /\ session' = 0
    /\ Begins("logout", NoBlock, Nobody, 0)
    /\ whole' = FALSE
    /\ UNCHANGED <<files, count, own, ownDflt, newer, want, settled>>

(* switch_to_official; there is nothing to do in official mode.               *)
SwitchToOfficial ==
    /\ run = Idle /\ ~is_official_mode
    /\ Begins("enable", NoBlock, Nobody, 0)
    /\ UNCHANGED <<files, world, want, whole, settled>>

(* switch_to_recodex.                                                         *)
SwitchToRecodex ==
    /\ run = Idle /\ is_official_mode
    /\ Begins("disable", snap.block, snap.auth, snap.key)
    /\ UNCHANGED <<files, world, want, whole, settled>>

-----------------------------------------------------------------------------
(* What is left to do when a write has failed: signing in and out go on where   *)
(* an error is not looked at, a switch to the official mode drops its snapshot. *)
AfterFailure(flow, s) ==
    CASE flow = "login" /\ s \in {"discard", "clear"}      -> NextStep(flow, s)
      [] flow = "logout" /\ s \notin {"discard", "clear"} -> "discard"
      [] flow = "logout" /\ s = "discard"                 -> "clear"
      [] flow = "enable" /\ s \notin {"save", "clear"}    -> "clear"
      [] OTHER                                            -> "end"

GoesOn(r) == run' = IF r.at = "end" THEN Idle ELSE r
Completed == run # Idle /\ run' = Idle /\ count' = count

(* The next write is done.                                                    *)
Write ==
    LET s == run.at IN
    /\ run # Idle
    /\ UNCHANGED world
    /\ cfg' = Config(s, run)
    /\ auth' = Auth(s, run) /\ backup' = Backup(s, run) /\ managed' = Mark(s, run)
    /\ key' = Key(s, run)
    /\ snap' = Snapshot(s, run)
    /\ GoesOn([run EXCEPT !.at = NextStep(run.flow, @)])
    /\ whole' = (whole \/ (run.flow = "login" /\ run.clean /\ Completed /\ key' = session))
    /\ settled' = IF run.flow = "enable" /\ Completed THEN run.clean ELSE settled
    /\ want' = IF s \in {"apply", "stage"} /\ run.flow # "disable" THEN run.block.gw ELSE want

Incident == count.incidents < MaxIncidents /\ count' = [count EXCEPT !.incidents = @ + 1]

(* It fails.  The key of this process is set or cleared all the same.          *)
WriteFails ==
    /\ run # Idle
    /\ Incident
    /\ GoesOn([run EXCEPT !.at = AfterFailure(run.flow, @), !.clean = FALSE])
    /\ key' \in {key, Key(run.at, run)}
    /\ whole' = (whole /\ run.flow # "enable")
    /\ settled' = FALSE
    /\ UNCHANGED <<cfg, auth, backup, managed, snap, session, own, ownDflt, newer, want>>

(* The program ends between two writes.                                       *)
Dies ==
    /\ run # Idle
    /\ Incident
    /\ run' = Idle
    /\ settled' = FALSE
    /\ UNCHANGED <<files, session, own, ownDflt, newer, want, whole>>

-----------------------------------------------------------------------------
(* The user signs in to Codex itself, whoever's it is: auth.json is written,   *)
(* the backup and the mark are not.  One that ReCodex had there is gone then.  *)
UserSignsIn ==
    LET i == count.signIns + 1 IN
    /\ run = Idle /\ i <= MaxSignIns
    /\ count' = [count EXCEPT !.signIns = i]
    /\ auth' = User(i)
    /\ IF managed \/ backup # Nobody
       THEN newer' = User(i) /\ UNCHANGED own
       ELSE own' = User(i) /\ newer' = Nobody
    /\ whole' = (whole /\ is_official_mode)
    /\ UNCHANGED <<cfg, backup, managed, key, snap, run, session, ownDflt, want, settled>>

(* The user chooses a provider.                                               *)
UserChooses(p) ==
    /\ run = Idle /\ ~cfg.block.leads /\ cfg.dflt # p
    /\ cfg' = [cfg EXCEPT !.dflt = p] /\ ownDflt' = p
    /\ UNCHANGED <<auth, backup, managed, key, snap, run, session, count, own, newer, want, whole, settled>>

Next ==
    \/ \E g \in Gateways : Login(g) \/ Sync(g) \/ DoctorFix(g) \/ Route(g)
    \/ Logout \/ SwitchToOfficial \/ SwitchToRecodex
    \/ Write \/ WriteFails \/ Dies
    \/ UserSignsIn \/ \E p \in Providers : UserChooses(p)

Spec == Init /\ [][Next]_vars

-----------------------------------------------------------------------------
(* Whatever fails and wherever the program ends, the user's last sign-in to    *)
(* Codex with nothing of ReCodex's in place is in auth.json or in the backup,  *)
(* and the provider chosen last is the default or set aside in the block.      *)
(* It says nothing of a sign-in that is made over a backup or a mark of ours.  *)
UsersOwnIsKept ==
    /\ own = Nobody \/ own \in {auth, backup}
    /\ ownDflt = "none" \/ ownDflt = Chosen(cfg)

(* The same of that one, which the code does not keep: while there is a backup  *)
(* the next write_auth or restore_auth puts something else in its place, and   *)
(* where there is only the mark restore_auth removes it.                       *)
EverySignInIsKept == newer = Nobody \/ newer \in {auth, backup}

(* The auth.json in the snapshot is ReCodex's, which the code takes from the    *)
(* mark: it is the user's when he signed in to Codex over it.                  *)
SnapshotIsOurs == snap.auth = Nobody \/ IsOurs(snap.auth)

(* Coming back from the official mode brings back the whole installation, with  *)
(* the gateway that was chosen last, however often a switch was interrupted.   *)
(* An installation over which the user signed in to Codex is not whole: the     *)
(* snapshot then holds that sign-in as ReCodex's (SnapshotIsOurs).             *)
ReturnRestores ==
    [][run.flow = "disable" /\ is_official_mode /\ ~is_official_mode' /\ whole =>
          /\ cfg'.block = Block(want, session)
          /\ auth' = Ours(session) /\ managed' /\ key' = session]_vars

(* In official mode Codex is the user's, whatever is chosen and synchronised in *)
(* the meantime, as long as nothing went wrong: our block does not lead, and   *)
(* auth.json is the user's, if he had one before ReCodex.  Where he had none,  *)
(* it may be ours (OursIsRemoved).                                             *)
OfficialStaysOfficial ==
    is_official_mode /\ settled /\ run = Idle =>
        ~cfg.block.leads /\ (own = Nobody \/ auth = own)

(* Signing out, when its own writes succeed, takes away block, key, mark,       *)
(* backup and snapshot, and gives back the user's default and the sign-in that *)
(* ReCodex took the place of, whatever went wrong before.  One made over a     *)
(* backup gives way to it, and with no sign-in of the user's to give back      *)
(* nothing is said of auth.json: it may stay ours (OursIsRemoved).             *)
SignOutRestores ==
    [][run.flow = "logout" /\ run.clean /\ Completed =>
          /\ ~is_official_mode'
          /\ cfg'.block = NoBlock /\ cfg'.dflt = ownDflt
          /\ key' = 0 /\ ~managed' /\ backup' = Nobody
          /\ own = Nobody \/ auth' = own]_vars

(* Signing out takes away the auth.json that ReCodex wrote.                    *)
OursIsRemoved ==
    [][run.flow = "logout" /\ run.clean /\ Completed => ~IsOurs(auth')]_vars
=============================================================================
