----------------------------- MODULE SessionStorage -----------------------------
(***************************************************************************)
(* Deleting sessions, undoing it, and the sweep of what old deletions left  *)
(* behind (codex-plus-data: storage.rs, backup.rs, deleted_leftovers.rs and *)
(* the sidebar functions of provider_sync.rs).  A thread has a row in each  *)
(* of several SQLite databases and a rollout file; every session may have a *)
(* line in session_index.jsonl ("index") and entries in the global state of *)
(* the sidebar ("global").  A session of the pure API mode has only those.  *)
(*                                                                         *)
(* Two processes work on one Codex home: the launcher, which sweeps when it *)
(* starts and then serves the panel's deletes and undos, and the manager,   *)
(* which deletes.  Codex keeps the global state in memory and writes it     *)
(* back as a whole.  Any read or write may fail, any process may die.       *)
(***************************************************************************)
EXTENDS Naturals, Sequences, FiniteSets, FiniteSetsExt

CONSTANTS
    Threads,      \* sessions with rows and a rollout
    Apis,         \* sessions of the pure API mode
    NumDbs,       \* databases that may hold a thread, in the order they are tried
    MaxBackups,   \* bound on the backups ever written
    Bounds        \* the bounds to explore: deletions by each worker, undos, starts of the
                  \* launcher, incidents (failures, crashes, starts and writes of Codex)

ASSUME SessionsDiffer == Threads \cap Apis = {}
ASSUME SomeDbs == NumDbs \in Nat \ {0}

Sessions == Threads \cup Apis
Dbs      == 1 .. NumDbs
Files    == {"index", "global"}
Tokens   == 1 .. MaxBackups
Workers  == {"launcher", "manager"}
Versions == {"none", "old", "new"}

ASSUME BoundsAssumption ==
    /\ MaxBackups \in Nat
    /\ Bounds \subseteq [Workers \cup {"undos", "starts", "incidents"} -> Nat]

VARIABLES
    rows,      \* per thread and database: no row, or which version of it
    rollout,   \* per thread: no rollout file, or which version of it
    file,      \* the sessions that session_index.jsonl and the global state hold
    backups,   \* the backups written; a token is a place in this sequence
    sidecar,   \* per token: the entries in <token>.leftovers.json
    marked,    \* the tokens .leftover-sweep.json has done with
    offered,   \* the undo tokens the page has been given
    codex,     \* whether Codex runs, the global state it has in memory, its threads
    left,      \* what is left of the bounds of this behaviour
    work,      \* what each worker does
    since      \* history: what others took and gave since a worker's operation began

disk == <<rows, rollout, file, backups, sidecar, marked>>
vars == <<disk, offered, codex, left, work, since>>

-----------------------------------------------------------------------------
(* A worker.  "at" is the next thing to do; an edit of one of the two files    *)
(* has a "read" (with the comparison after it) and a "write" step.  "s" is the *)
(* session (as a set of at most one), "token" the backup at hand, "seen" the   *)
(* file as it was read.                                                       *)
Idle == [op |-> "none", at |-> "idle", step |-> "read", s |-> {}, db |-> 1, token |-> 0,
         good |-> {}, bad |-> {}, done |-> FALSE, seen |-> {}, toks |-> {}, todo |-> {},
         cache |-> <<>>, blind |-> FALSE, had |-> {}]
Down == [Idle EXCEPT !.at = "down"]

Does(w, op, at) == work[w].op = op /\ work[w].at = at
Session(w) == CHOOSE s \in work[w].s : TRUE
Becomes(w, r) == work' = [work EXCEPT ![w] = r]

(* What worker w, or Codex, takes from and gives to the sessions is recorded  *)
(* for the operations of the others that are under way.                       *)
Nothing == [took |-> {}, gave |-> {}]
Notes(w, took, gave) ==
    since' = [v \in Workers |->
                IF v = w \/ work[v].op = "none" THEN since[v]
                ELSE [took |-> since[v].took \cup took, gave |-> since[v].gave \cup gave]]

Spends(what) == left[what] > 0 /\ left' = [left EXCEPT ![what] = @ - 1]

(* The start and the end of an operation.                                     *)
Begins(w, r) == Becomes(w, r) /\ since' = [since EXCEPT ![w] = Nothing]
Ends(w)      == Begins(w, Idle)
MovesOn(w, r) == Becomes(w, r) /\ UNCHANGED since

CodexOff == [on |-> FALSE, mem |-> {}, open |-> {}]

RowsOf(s) == {d \in Dbs : s \in Threads /\ rows[s][d] # "none"}
HasRollout(s) == s \in Threads /\ rollout[s] # "none"
EntriesOf(s) == {f \in Files : s \in file[f]}
Parts(s) == {<<"row", d>> : d \in RowsOf(s)} \cup {<<"file", f>> : f \in EntriesOf(s)}
                \cup (IF HasRollout(s) THEN {<<"rollout", 0>>} ELSE {})

(* A backup, and what its token can restore: the sidecar is merged in.        *)
Backup(s, d, row, roll) == [s |-> s, db |-> d, row |-> row, roll |-> roll, entries |-> EntriesOf(s)]
HasDbRows(k) == backups[k].db # 0
Entries(k)   == backups[k].entries \cup sidecar[k]
Restores(k)  == {<<"row", d>> : d \in {backups[k].db} \ {0}}
                    \cup {<<"file", f>> : f \in Entries(k)}
                    \cup (IF backups[k].roll # "none" THEN {<<"rollout", 0>>} ELSE {})
Written == DOMAIN backups
BackupsOf(s) == {k \in Written : backups[k].s = s}
HasRoom == Len(backups) < MaxBackups

Init ==
    /\ rows = [t \in Threads |-> [d \in Dbs |-> "old"]]
    /\ rollout = [t \in Threads |-> "old"]
    /\ file = [f \in Files |-> Sessions]
    /\ backups = <<>>
    /\ sidecar = [k \in Tokens |-> {}]
    /\ marked = {}
    /\ offered = {}
    /\ codex \in {CodexOff, [on |-> TRUE, mem |-> Sessions, open |-> Threads]}
    /\ left \in Bounds
    /\ work = [w \in Workers |-> Idle]
    /\ since = [w \in Workers |-> Nothing]

-----------------------------------------------------------------------------
(* delete_local_from_paths.  Each database in turn: what is there is read and *)
(* backed up, the rows go in a transaction, then the rollout if the backup    *)
(* holds it, then the entries of the session.                                 *)
DeleteBegins(w, s) ==
    /\ work[w] = Idle
    /\ Spends(w)
    /\ Begins(w, [Idle EXCEPT !.op = "delete", !.at = "look", !.s = {s}, !.had = Parts(s)])
    /\ UNCHANGED <<disk, offered, codex>>

(* The next database, or the verdict on all of them: the entries alone are    *)
(* cleared only when every database says that it does not have the session.   *)
NextDb(r) ==
    IF r.db < NumDbs THEN [r EXCEPT !.at = "look", !.db = @ + 1, !.token = 0]
    ELSE IF r.good = {} /\ r.bad = {} THEN [r EXCEPT !.op = "clear", !.at = "save", !.db = 1]
    ELSE [r EXCEPT !.at = "report", !.db = 1, !.token = 0, !.done = r.good # {}]

(* Looking the session up and writing its backup; a rollout that cannot be    *)
(* read is left out of the backup.                                            *)
Look(w) ==
    LET r == work[w]  s == Session(w) IN
    /\ Does(w, "delete", "look")
    /\ \/ /\ r.db \notin RowsOf(s)
          /\ MovesOn(w, NextDb(r))
          /\ UNCHANGED <<backups, left>>
       \/ /\ r.db \in RowsOf(s) /\ HasRoom
          /\ \E roll \in {rollout[s], "none"} :
                /\ IF roll = rollout[s] THEN UNCHANGED left ELSE Spends("incidents")
                /\ backups' = Append(backups, Backup(s, r.db, rows[s][r.db], roll))
          /\ MovesOn(w, [r EXCEPT !.at = "commit", !.token = Len(backups) + 1])
    /\ UNCHANGED <<rows, rollout, file, sidecar, marked, offered, codex>>

Commit(w) ==
    LET r == work[w]  s == Session(w) IN
    /\ Does(w, "delete", "commit")
    /\ rows' = [rows EXCEPT ![s][r.db] = "none"]
    /\ Notes(w, {s}, {})
    /\ Becomes(w, [r EXCEPT !.at = "rollout", !.good = @ \cup {r.token}])
    /\ UNCHANGED <<rollout, file, backups, sidecar, marked, offered, codex, left>>

(* Wrong variant: a rollout that could not be read is removed all the same.   *)
RemoveAnyRollout(w) ==
    LET s == Session(w) IN
    /\ Does(w, "delete", "rollout")
    /\ Becomes(w, [work[w] EXCEPT !.at = "index"])
    /\ rollout' = [rollout EXCEPT ![s] = "none"] /\ Notes(w, {s}, {})
    /\ UNCHANGED <<rows, file, backups, sidecar, marked, offered, codex, left>>

RemoveRollout(w) ==
    LET s == Session(w) IN
    /\ Does(w, "delete", "rollout")
    /\ Becomes(w, [work[w] EXCEPT !.at = "index"])
    /\ IF backups[work[w].token].roll # "none"
       THEN rollout' = [rollout EXCEPT ![s] = "none"] /\ Notes(w, {s}, {})
       ELSE UNCHANGED <<rollout, since>>
    /\ UNCHANGED <<rows, file, backups, sidecar, marked, offered, codex, left>>

(* No database has the session: its entries are backed up, if there are any.  *)
SaveEntries(w) ==
    LET r == work[w]  s == Session(w) IN
    /\ Does(w, "clear", "save")
    /\ \/ /\ EntriesOf(s) = {}
          /\ MovesOn(w, [r EXCEPT !.at = "index"])
          /\ UNCHANGED backups
       \/ /\ EntriesOf(s) # {} /\ HasRoom
          /\ backups' = Append(backups, Backup(s, 0, "none", "none"))
          /\ MovesOn(w, [r EXCEPT !.at = "index", !.token = Len(backups) + 1])
    /\ UNCHANGED <<rows, rollout, file, sidecar, marked, offered, codex, left>>

(* Wrong variant: the token of the last database stands for all of them.      *)
LastTicket(r) ==
    IF r.op = "clear" THEN {k \in {r.token} \ {0} : r.done}
    ELSE {k \in r.good : \A j \in r.good : j <= k}

(* The tokens a finished deletion hands out: of all it committed, else of the *)
(* first database that failed after its backup; the entries' own, unless      *)
(* nothing was cleared.                                                       *)
Tickets(r) ==
    IF r.op = "clear" THEN {k \in {r.token} \ {0} : r.done}
    ELSE IF r.good # {} THEN r.good
    ELSE {k \in r.bad \ {0} : \A j \in r.bad \ {0} : k <= j}

Report(w) ==
    LET r == work[w] IN
    /\ r.op \in {"delete", "clear", "undo"} /\ r.at = "report"
    /\ offered' = IF w = "launcher" /\ r.op # "undo" THEN offered \cup ({Tickets(r)} \ {{}}) ELSE offered
    /\ Ends(w)
    /\ UNCHANGED <<disk, codex, left>>

-----------------------------------------------------------------------------
(* remove_session_index_entry, remove_thread_sidebar_references and their     *)
(* counterparts for undo: read the file, give up if it has changed since,     *)
(* write it as a whole.  What follows depends on the operation.               *)
FileOf(at) == IF at = "global" THEN "global" ELSE "index"

Undoes(r) == r.op = "undo"
Restorable(r) == backups[r.token].entries \cup (IF r.blind THEN {} ELSE sidecar[r.token])
Needed(r, f) ==
    IF Undoes(r) THEN f \in Restorable(r) /\ ~(r.s \subseteq file[f]) ELSE r.s \subseteq file[f]

(* The sweep leaves a session for the next start, or has done with it.        *)
Defers(r) == [r EXCEPT !.at = "judge", !.s = {}, !.token = 0, !.done = FALSE, !.todo = @ \ r.s]
Marks(r)  == Defers([r EXCEPT !.good = @ \cup {k \in r.toks : backups[k].s \in r.s}])

AfterEdit(r0, o) ==
    LET r == [r0 EXCEPT !.step = "read", !.seen = {}]
        failed == o \in {"changed", "error"}
    IN  CASE r.op = "delete" ->
               (IF r.at = "index" THEN [r EXCEPT !.at = "again"]
                ELSE IF r.at = "again" THEN [r EXCEPT !.at = "global"] ELSE NextDb(r))
          [] r.op = "clear" ->
               [r EXCEPT !.at = IF @ = "index" THEN "global" ELSE "report", !.done = @ \/ o = "done"]
          [] r.op = "undo" ->
               (IF failed /\ ~HasDbRows(r.token) THEN [r EXCEPT !.at = "record"]
                ELSE [r EXCEPT !.at = IF @ = "index" THEN "global" ELSE "verify"])
          [] r.op = "sweep" ->
               (IF r.at = "index"
                THEN IF o = "error" \/ (r.done /\ o # "done") THEN Defers(r) ELSE [r EXCEPT !.at = "global"]
                ELSE IF failed THEN Defers(r) ELSE Marks(r))

Edits(w, f) == work[w].at \in {"index", "again", "global"} /\ f = FileOf(work[w].at)

(* The comparison finds the file as it was read; that another has changed it in *)
(* between, which has the bound of the failures, it finds if any is at work.   *)
OthersWork(w) == codex.on \/ \E v \in Workers \ {w} : work[v].op # "none"

ReadFile(w) ==
    \E f \in Files :
      LET r == work[w] IN
      /\ Edits(w, f) /\ r.step = "read"
      /\ \/ ~Needed(r, f) /\ MovesOn(w, AfterEdit(r, "nothing")) /\ UNCHANGED left
         \/ Needed(r, f) /\ MovesOn(w, [r EXCEPT !.step = "write", !.seen = file[f]]) /\ UNCHANGED left
         \/ Needed(r, f) /\ OthersWork(w) /\ MovesOn(w, AfterEdit(r, "changed")) /\ Spends("incidents")
      /\ UNCHANGED <<disk, offered, codex>>

(* After the write of the global state that of the catalog may still fail.     *)
WriteFile(w) ==
    \E f \in Files :
      LET r == work[w]
          next == IF Undoes(r) THEN r.seen \cup r.s ELSE r.seen \ r.s
      IN
      /\ Edits(w, f) /\ r.step = "write"
      /\ file' = [file EXCEPT ![f] = next]
      /\ Notes(w, file[f] \ next, next \ file[f])
      /\ \/ Becomes(w, AfterEdit(r, "done")) /\ UNCHANGED left
         \/ f = "global" /\ Becomes(w, AfterEdit(r, "error")) /\ Spends("incidents")
      /\ UNCHANGED <<rows, rollout, backups, sidecar, marked, offered, codex>>

-----------------------------------------------------------------------------
(* SQLiteStorageAdapter::undo: every backup is checked for conflicts, then     *)
(* each is restored; those restored are recorded, also when a later one fails. *)
UndoBegins(T) ==
    /\ work["launcher"] = Idle
    /\ Spends("undos")
    /\ \E blind \in {FALSE} \cup {x \in {TRUE} : \E k \in T : sidecar[k] # {}} :
         Begins("launcher", [Idle EXCEPT !.op = "undo", !.at = "check", !.s = {backups[k].s : k \in T},
                                         !.toks = T, !.blind = blind])
    /\ UNCHANGED <<disk, offered, codex>>

Conflicts(k) ==
    LET b == backups[k] IN
    \/ HasDbRows(k) /\ rows[b.s][b.db] \notin {"none", b.row}
    \/ b.roll # "none" /\ rollout[b.s] \notin {"none", b.roll}

GivesUp(r) == [r EXCEPT !.at = "record"]

CheckConflicts(w) ==
    LET r == work[w] IN
    /\ Does(w, "undo", "check")
    /\ MovesOn(w, IF \E k \in r.toks : Conflicts(k) THEN GivesUp(r)
                  ELSE [r EXCEPT !.at = "rows", !.token = Min(r.toks)])
    /\ UNCHANGED <<disk, offered, codex, left>>

(* Wrong variant: INSERT OR REPLACE.                                          *)
ReplaceRows(w) ==
    LET r == work[w]  s == Session(w)  b == backups[r.token] IN
    /\ Does(w, "undo", "rows")
    /\ rows' = IF HasDbRows(r.token) THEN [rows EXCEPT ![s][b.db] = b.row] ELSE rows
    /\ Notes(w, {}, {s})
    /\ Becomes(w, [r EXCEPT !.at = "rollout"])
    /\ UNCHANGED <<rollout, file, backups, sidecar, marked, offered, codex, left>>

(* A row that is there already is left if it is the same, else the insertion  *)
(* fails.                                                                     *)
RestoreRows(w) ==
    LET r == work[w]  s == Session(w)  b == backups[r.token] IN
    /\ Does(w, "undo", "rows")
    /\ \/ /\ ~HasDbRows(r.token)
          /\ MovesOn(w, [r EXCEPT !.at = "rollout"])
          /\ UNCHANGED rows
       \/ /\ HasDbRows(r.token) /\ rows[s][b.db] \in {"none", b.row}
          /\ rows' = [rows EXCEPT ![s][b.db] = b.row]
          /\ Notes(w, {}, {s})
          /\ Becomes(w, [r EXCEPT !.at = "rollout"])
       \/ /\ HasDbRows(r.token) /\ rows[s][b.db] \notin {"none", b.row}
          /\ MovesOn(w, GivesUp(r))
          /\ UNCHANGED rows
    /\ UNCHANGED <<rollout, file, backups, sidecar, marked, offered, codex, left>>

RestoreRollout(w) ==
    LET r == work[w]  s == Session(w)  b == backups[r.token] IN
    /\ Does(w, "undo", "rollout")
    /\ \/ /\ b.roll = "none"
          /\ MovesOn(w, [r EXCEPT !.at = "index"])
          /\ UNCHANGED rollout
       \/ /\ b.roll # "none"
          /\ rollout' = [rollout EXCEPT ![s] = b.roll]
          /\ Notes(w, {}, {s})
          /\ Becomes(w, [r EXCEPT !.at = "index"])
    /\ UNCHANGED <<rows, file, backups, sidecar, marked, offered, codex, left>>

(* Without rows there is only the sidebar, so the session must be seen there.  *)
Verify(w) ==
    LET r == work[w]
        good == r.good \cup {r.token}
    IN
    /\ Does(w, "undo", "verify")
    /\ MovesOn(w, IF ~HasDbRows(r.token) /\ EntriesOf(Session(w)) = {} THEN GivesUp(r)
                  ELSE IF good = r.toks
                  THEN [r EXCEPT !.at = "record", !.token = 0, !.good = good, !.done = TRUE]
                  ELSE [r EXCEPT !.at = "rows", !.token = Min(r.toks \ good), !.good = good])
    /\ UNCHANGED <<disk, offered, codex, left>>

(* save_marker, which may fail.                                               *)
MarkersSaved(toks) ==
    \/ marked' = marked \cup toks /\ UNCHANGED left
    \/ toks \ marked # {} /\ UNCHANGED marked /\ Spends("incidents")

(* record_undone_backups: the mark may not be saved, the sidecars go.         *)
RecordUndone(w) ==
    LET r == work[w] IN
    /\ Does(w, "undo", "record")
    /\ MarkersSaved(r.good)
    /\ sidecar' = [k \in Tokens |-> IF k \in r.good THEN {} ELSE sidecar[k]]
    /\ MovesOn(w, [r EXCEPT !.at = "report", !.token = 0])
    /\ UNCHANGED <<rows, rollout, file, backups, offered, codex>>

-----------------------------------------------------------------------------
(* The launcher starts: it sweeps, unless Codex runs or nothing could be read  *)
(* in time, and then serves the panel.                                        *)
LauncherStarts ==
    LET toks == Written \ marked IN
    /\ work["launcher"] = Down
    /\ \/ ~codex.on /\ Begins("launcher", [Idle EXCEPT !.op = "sweep", !.at = "judge", !.toks = toks,
                                                       !.todo = {backups[k].s : k \in toks}])
       \/ Ends("launcher")
    /\ Spends("starts")
    /\ UNCHANGED <<disk, offered, codex>>

(* Wrong variant: a backup of rows is taken as proof that the rows are gone.   *)
JudgeByBackup(w, s) ==
    LET r == [work[w] EXCEPT !.s = {s}]
        toks == r.toks \cap BackupsOf(s)
    IN
    /\ Does(w, "sweep", "judge") /\ s \in r.todo
    /\ MovesOn(w, IF \E k \in toks : HasDbRows(k)
                  THEN [r EXCEPT !.at = "snapshot", !.token = Max(toks)] ELSE Marks(r))
    /\ UNCHANGED <<disk, offered, codex, left>>

(* thread_presence: a session that is in a database is no leftover; one with   *)
(* a backup of rows is, if it is in none; for the others the index decides,    *)
(* as it was when it was first needed in this round.                          *)
Judge(w, s) ==
    LET r0 == work[w]
        r == [r0 EXCEPT !.s = {s}]
        toks == r.toks \cap BackupsOf(s)
        ids == IF r.cache = <<>> THEN file["index"] ELSE r.cache[1]
        cached == [r EXCEPT !.cache = <<ids>>]
        absent == [r EXCEPT !.at = "snapshot", !.token = Max(toks)]
    IN
    /\ Does(w, "sweep", "judge") /\ s \in r.todo
    /\ \/ RowsOf(s) # {} /\ MovesOn(w, Marks(r))
       \/ /\ RowsOf(s) = {} /\ \E k \in toks : HasDbRows(k)
          /\ MovesOn(w, absent)
       \/ /\ RowsOf(s) = {} /\ \A k \in toks : ~HasDbRows(k)
          /\ IF s \in ids \/ \A k \in toks : "index" \notin backups[k].entries
             THEN MovesOn(w, Marks(cached))
             ELSE MovesOn(w, [absent EXCEPT !.cache = <<ids>>])
    /\ UNCHANGED <<disk, offered, codex, left>>

(* clean_thread keeps the entries in the sidecar of the newest backup first.   *)
KeepLeftovers(w) ==
    LET r == work[w]
        entries == EntriesOf(Session(w))
    IN
    /\ Does(w, "sweep", "snapshot")
    /\ \/ entries = {} /\ MovesOn(w, Marks(r)) /\ UNCHANGED sidecar
       \/ /\ entries # {}
          /\ sidecar' = [sidecar EXCEPT ![r.token] = @ \cup entries]
          /\ MovesOn(w, [r EXCEPT !.at = "index", !.done = "index" \in entries])
    /\ UNCHANGED <<rows, rollout, file, backups, marked, offered, codex, left>>

SweepEnds(w) ==
    /\ Does(w, "sweep", "judge") /\ work[w].todo = {}
    /\ MarkersSaved(work[w].good)
    /\ Ends(w)
    /\ UNCHANGED <<rows, rollout, file, backups, sidecar, offered, codex>>

(* Wrong variant: the rollout is restored on a best-effort basis.             *)
AfterFailureBestEffort(r) ==
    CASE r.at = "look"   -> NextDb([r EXCEPT !.bad = @ \cup {0}])
      [] r.at = "commit" -> NextDb([r EXCEPT !.bad = @ \cup {r.token}])
      [] r.at = "rollout" -> [r EXCEPT !.at = "index"]
      [] r.at = "save"   -> [r EXCEPT !.at = "report"]
      [] r.at \in {"index", "again", "global"} -> AfterEdit(r, "error")
      [] r.at \in {"judge", "snapshot"} -> Defers(r)
      [] OTHER -> GivesUp(r)

(* The step at hand fails: a database is locked, a file cannot be read or      *)
(* written, the time of the sweep is up.                                      *)
AfterFailure(r) ==
    CASE r.at = "look"   -> NextDb([r EXCEPT !.bad = @ \cup {0}])
      [] r.at = "commit" -> NextDb([r EXCEPT !.bad = @ \cup {r.token}])
      [] r.at = "rollout" /\ r.op = "delete" -> [r EXCEPT !.at = "index"]
      [] r.at = "save"   -> [r EXCEPT !.at = "report"]
      [] r.at \in {"index", "again", "global"} -> AfterEdit(r, "error")
      [] r.at \in {"judge", "snapshot"} -> Defers(r)
      [] OTHER -> GivesUp(r)

Fails(w) ==
    LET r == work[w] IN
    /\ r.at \notin {"idle", "down", "record", "report"}
    /\ Spends("incidents")
    /\ \E s \in IF r.at = "judge" THEN {{x} : x \in r.todo} ELSE {r.s} :
          MovesOn(w, AfterFailure([r EXCEPT !.s = s]))
    /\ UNCHANGED <<disk, offered, codex>>

(* A process dies in the middle of anything; the manager waits for the user.  *)
Crash(w) ==
    /\ work[w] \notin {Down} \cup {x \in {Idle} : w = "manager"}
    /\ Spends("incidents")
    /\ Begins(w, IF w = "launcher" THEN Down ELSE Idle)
    /\ UNCHANGED <<disk, offered, codex>>

-----------------------------------------------------------------------------
(* Codex, as far as these files show it (external).                          *)
CodexStarts ==
    /\ ~codex.on /\ Spends("incidents")
    /\ codex' = [on |-> TRUE, mem |-> file["global"], open |-> {t \in Threads : RowsOf(t) # {}}]
    /\ UNCHANGED <<disk, offered, work, since>>

CodexStops ==
    /\ codex.on
    /\ codex' = CodexOff
    /\ UNCHANGED <<disk, offered, left, work, since>>

CodexFlushes ==
    /\ codex.on /\ file["global"] # codex.mem /\ Spends("incidents")
    /\ file' = [file EXCEPT !["global"] = codex.mem]
    /\ Notes("codex", file["global"] \ codex.mem, codex.mem \ file["global"])
    /\ UNCHANGED <<rows, rollout, backups, sidecar, marked, offered, codex, work>>

CodexIndexes(s) ==
    /\ s \in (codex.mem \cup codex.open) \ file["index"] /\ Spends("incidents")
    /\ file' = [file EXCEPT !["index"] = @ \cup {s}]
    /\ Notes("codex", {}, {s})
    /\ UNCHANGED <<rows, rollout, backups, sidecar, marked, offered, codex, work>>

(* A thread that Codex has open goes on: its row, its rollout are new.         *)
CodexRewrites(t) ==
    /\ t \in codex.open /\ Spends("incidents")
    /\ \/ \E d \in Dbs : rows' = [rows EXCEPT ![t][d] = "new"] /\ UNCHANGED rollout
       \/ rollout' = [rollout EXCEPT ![t] = "new"] /\ UNCHANGED rows
    /\ Notes("codex", {}, {t})
    /\ UNCHANGED <<file, backups, sidecar, marked, offered, codex, work>>

DeleteStep(w) == Look(w) \/ Commit(w) \/ RemoveRollout(w) \/ SaveEntries(w)
EditStep(w)   == ReadFile(w) \/ WriteFile(w)
UndoStep(w)   == CheckConflicts(w) \/ RestoreRows(w) \/ RestoreRollout(w) \/ Verify(w) \/ RecordUndone(w)
SweepStep(w)  == (\E s \in Sessions : Judge(w, s)) \/ KeepLeftovers(w) \/ SweepEnds(w)
CodexStep     == \/ CodexStarts \/ CodexStops \/ CodexFlushes
                 \/ \E s \in Sessions : CodexIndexes(s) \/ CodexRewrites(s)

Next ==
    \/ \E w \in Workers :
         \/ \E s \in Sessions : DeleteBegins(w, s)
         \/ DeleteStep(w) \/ EditStep(w) \/ UndoStep(w) \/ SweepStep(w)
         \/ Report(w) \/ Fails(w) \/ Crash(w)
    \/ \E T \in offered : UndoBegins(T)
    \/ LauncherStarts
    \/ CodexStep

Spec == Init /\ [][Next]_vars

-----------------------------------------------------------------------------
(* The state of every part; a worker edits or restores with a backup that      *)
(* exists, and only the launcher undoes and sweeps.                           *)
TypeOK ==
    /\ rows \in [Threads -> [Dbs -> Versions]]
    /\ rollout \in [Threads -> Versions]
    /\ file \in [Files -> SUBSET Sessions]
    /\ \A k \in Written : /\ backups[k].s \in Sessions /\ backups[k].db \in 0 .. NumDbs
                          /\ {backups[k].row, backups[k].roll} \subseteq Versions
                          /\ backups[k].entries \subseteq Files
    /\ sidecar \in [Tokens -> SUBSET Files]
    /\ marked \subseteq Written
    /\ UNION offered \subseteq Written
    /\ codex.mem \cup codex.open \subseteq Sessions
    /\ \A w \in Workers :
         /\ work[w].token \in Written \cup {0}
         /\ work[w].op \in {"undo", "sweep"} => w = "launcher"

(* Nothing of a session is ever beyond reach: a row or a rollout is in place   *)
(* or in a backup, and a session that is only in the sidebar is there or in a  *)
(* backup, whatever failed, died or happened at the same time.                *)
NothingIsLost ==
    /\ TypeOK
    /\ \A t \in Threads :
         /\ \A d \in Dbs : rows[t][d] # "none" \/ \E k \in BackupsOf(t) : backups[k].db = d
         /\ HasRollout(t) \/ \E k \in BackupsOf(t) : backups[k].roll # "none"
    /\ \A a \in Apis : EntriesOf(a) # {} \/ \E k \in BackupsOf(a) : Entries(k) # {}

(* A deletion that reports success hands out tokens that restore every part    *)
(* the session had when it began and has no more, unless another took it.     *)
DeletionIsUndoable ==
    [][\A w \in Workers :
         LET r == work[w] IN
         (r.op \in {"delete", "clear"} /\ r.at = "report" /\ r.done /\ Report(w)) =>
            \/ r.s \subseteq since[w].took
            \/ r.had \subseteq Parts(Session(w)) \cup UNION {Restores(k) : k \in Tickets(r)}]_vars

(* An undo that reports success has brought back what its tokens restore: the  *)
(* rows and the rollout, or a place in the sidebar, unless another took it.   *)
UndoneMeansBack ==
    [][\A w \in Workers :
         LET r == work[w] IN
         (r.op = "undo" /\ r.at = "report" /\ r.done /\ Report(w)) =>
            \A k \in r.toks :
               \/ backups[k].s \in since[w].took
               \/ IF HasDbRows(k)
                  THEN Restores(k) \ {<<"file", f>> : f \in Files} \subseteq Parts(backups[k].s)
                  ELSE EntriesOf(backups[k].s) # {}]_vars

(* A row that was written after a deletion is never replaced by the row of the *)
(* backup.                                                                    *)
NewerRowsStay ==
    [][\A t \in Threads : \A d \in Dbs : rows[t][d] = "new" => rows'[t][d] # "old"]_rows

(* The sweep removes entries only of a session that is in no database, and not *)
(* before a backup or its sidecar holds them, unless the session came back     *)
(* while it swept.                                                            *)
SweepIsSafe ==
    [][\A s \in work["launcher"].s, f \in Files :
         (work["launcher"].op = "sweep" /\ WriteFile("launcher") /\ s \in file[f] \ file'[f]) =>
            \/ s \in since["launcher"].gave
            \/ RowsOf(s) = {} /\ \E k \in BackupsOf(s) : f \in Entries(k)]_vars
=============================================================================
