-------------------------- MODULE ProviderSyncProofs --------------------------
(***************************************************************************)
(* For any number of processes, sessions and providers, whatever fails or   *)
(* dies: no line that Codex wrote is lost, a synchronisation that reports   *)
(* success has moved what it found, and a queued session that is not        *)
(* archived is done with only when it is served.                            *)
(*                                                                         *)
(* The first rests on the comparison before a rollout is rewritten, the     *)
(* other two on the lock: who is between owner.json and release_lock is     *)
(* alone there, as long as no lock was taken from the living.               *)
(***************************************************************************)
EXTENDS ProviderSync, TLAPS

(* Types, and which steps belong to which operation.                        *)

Rollouts == [prov : Sources, lines : Nat]
Requests == [t : Threads, target : Providers]
Steps    == {"idle", "enqueue", "lock", "judge", "isolate", "again", "owner",
             "collect", "lookup", "rollouts", "write", "verify", "entry", "catalog", "rows",
             "repair", "global", "release", "complete"}
Ops      == {"none", "sync", "finalize", "recover"}
Works    == [op : Ops, at : Steps, target : Providers \cup {None}, t : Threads \cup {None},
             dead : Procs \cup {None}, result : {"skipped", "synced"},
             seen : [Threads -> Rollouts], was : SUBSET Threads,
             todo : SUBSET Threads, done : SUBSET Threads, passed : SUBSET Threads, back : BOOLEAN, queue : SUBSET Requests]

Entering == {"lock", "judge", "isolate", "again", "owner", "release"}
StepsOf(o) ==
    CASE o = "none" -> {"idle"}
      [] o = "sync" -> Entering \cup {"collect", "rollouts", "write", "catalog", "rows", "repair", "global"}
      [] o = "finalize" -> Entering \cup {"lookup", "rollouts", "write", "verify", "entry", "catalog",
                                          "rows", "complete"}
      [] o = "recover" -> Entering \cup {"enqueue", "entry", "catalog"}

ProcOK(r) ==
    /\ r \in Works
    /\ r.at \in StepsOf(r.op)
    /\ r.op # "none" /\ r.at # "complete" => r.target \in Providers
    /\ r.op \in {"finalize", "recover"} \/ r.at = "write" => r.t \in Threads
    /\ r.op = "finalize" /\ r.at \in {"rollouts", "write"} => r.todo \subseteq {r.t}
    /\ r.back => r.op = "sync"
    /\ r.result = "synced" => r.at = "release"
    /\ r.at = "isolate" => r.dead \in Procs

StateOK ==
    /\ roll \in [Threads -> Rollouts] /\ rows \in [Threads -> Sources] /\ catalog \in [Threads -> Sources]
    /\ archived \in SUBSET Threads
    /\ config \in Providers /\ queue \in SUBSET Requests
    /\ lock \in {Free} \cup {Held(p) : p \in Procs \cup {None}}
    /\ up \in [Procs -> {"up", "down"}]
    /\ codex \in [on : BOOLEAN, open : SUBSET Threads]
    /\ left \in [lines : Nat, switches : Nat, trouble : Nat]
    /\ wrote \in [Threads -> Nat] /\ cut \in SUBSET Threads /\ stolen \in BOOLEAN

WorkOK ==
    /\ work \in [Procs -> Works]
    /\ \A p \in Procs : ProcOK(work[p])

(* A session that Codex has not begun is named nowhere.                     *)
Names(r, t) == \/ r.seen[t].prov # None
               \/ t \in r.todo \cup r.done
               \/ r.t = t
               \/ \E q \in r.queue : q.t = t

UnknownUntouched ==
    \A t \in Threads : rows[t] = None =>
        /\ roll[t].prov = None /\ wrote[t] = 0
        /\ \A q \in queue : q.t # t
        /\ \A p \in Procs : ~Names(work[p], t)

(* No more lines are known anywhere than Codex has written.                 *)
Counted ==
    \A t \in Threads :
        /\ wrote[t] + left.lines <= MaxLines
        /\ roll[t].lines <= wrote[t]
        /\ \A p \in Procs : work[p].seen[t].lines <= wrote[t]

IInv == StateOK /\ WorkOK /\ UnknownUntouched /\ Counted

(* One process writes to a rollout, and it remembers what the rollout held. *)
OneWriter ==
    \A p, q \in Procs : At(p, "write") /\ At(q, "write") /\ work[p].t = work[q].t => p = q
Remembered ==
    \A p \in Procs : At(p, "write") =>
        LET t == work[p].t IN work[p].seen[t].lines = wrote[t] \/ t \in cut
Intact == \A t \in Threads : roll[t].lines = wrote[t] \/ t \in cut \/ Writing(t)
LInv == OneWriter /\ Remembered /\ Intact

(* From the directory that was created to the one that is removed.          *)
Locking == {"owner", "collect", "lookup", "rollouts", "write", "verify", "entry", "catalog",
            "rows", "repair", "global", "release"}
Holds(p) == up[p] = "up" /\ work[p].at \in Locking
OwnLock == \A p \in Procs : Holds(p) => lock = Held(IF work[p].at = "owner" THEN None ELSE p)
Alone == \A p, q \in Procs : Holds(p) /\ Holds(q) => p = q
\* Who renames a lock away has seen its owner dead, and the dead stay dead.
Dead == \A p \in Procs : At(p, "isolate") => up[work[p].dead] = "down"
KInv == ~stolen => OwnLock /\ Alone /\ Dead

(* What a synchronisation and a finalization have achieved, step by step.   *)
HasMoved(r, t) == roll[t].prov = r.target \/ t \in r.passed \cup cut
SyncOK(r) ==
    LET found == {t \in Threads : r.seen[t].prov # None} IN
    /\ r.at \in {"rollouts", "write"} /\ ~r.back =>
          \A t \in found : HasMoved(r, t) \/ t \in r.todo \/ (r.at = "write" /\ t = r.t)
    /\ r.at \in {"catalog", "rows", "repair", "global"} => ~r.back /\ \A t \in found : HasMoved(r, t)
    /\ r.at \in {"rows", "repair", "global"} => \A t \in Threads : catalog[t] \in {None, r.target}
    /\ r.at \in {"repair", "global"} => \A t \in found : rows[t] = r.target
    /\ r.at = "global" => \A t \in found : catalog[t] = r.target
    /\ r.result = "synced" => Whole(r)
Served(r) == Openai \notin {roll[r.t].prov, rows[r.t], catalog[r.t]} \/ Third(r.t, r.target)
FinalizeOK(r) ==
    /\ r.at \in {"entry", "catalog", "rows"} => roll[r.t].prov = r.target
    /\ r.at = "rows" => catalog[r.t] # Openai
    /\ r.result = "synced" => Served(r) \/ r.t \in r.was
SInv == ~stolen => \A p \in Procs : up[p] = "up" =>
           /\ work[p].op = "sync" => SyncOK(work[p])
           /\ work[p].op = "finalize" => FinalizeOK(work[p])

-----------------------------------------------------------------------------
\* Nothing is in the way at first.
LEMMA InitOK == Init => IInv
<1> SUFFICES ASSUME Init PROVE IInv
    OBVIOUS
<1> USE ConstantsAssumption
<1>1. Idle \in Works /\ ProcOK(Idle)
  BY DEF Idle, Works, ProcOK, NoSeen, NoRollout, Rollouts, Sources, Steps, Ops, StepsOf
<1>2. PICK T \in SUBSET Threads :
         /\ roll = [t \in Threads |-> IF t \in T THEN [prov |-> Openai, lines |-> 0] ELSE NoRollout]
         /\ rows = [t \in Threads |-> IF t \in T THEN Openai ELSE None]
         /\ \E C \in SUBSET T : catalog = [t \in Threads |-> IF t \in C THEN Openai ELSE None]
         /\ archived \in SUBSET T
  BY DEF Init
<1>3. StateOK
  <2>1. roll \in [Threads -> Rollouts] /\ rows \in [Threads -> Sources]
    BY <1>2 DEF NoRollout, Rollouts, Sources
  <2>2. catalog \in [Threads -> Sources] /\ archived \in SUBSET Threads
    BY <1>2 DEF Sources
  <2>3. lock \in {Free} /\ config \in Providers /\ queue \in SUBSET Requests /\ stolen \in BOOLEAN
    BY DEF Init
  <2>4. /\ up \in [Procs -> {"up", "down"}] /\ codex \in [on : BOOLEAN, open : SUBSET Threads]
        /\ left \in [lines : Nat, switches : Nat, trouble : Nat]
        /\ wrote \in [Threads -> Nat] /\ cut \in SUBSET Threads
    BY DEF Init
  <2>. QED BY <2>1, <2>2, <2>3, <2>4 DEF StateOK
<1>4. WorkOK
  BY <1>1 DEF Init, WorkOK
<1>5. \A t \in Threads : ~Names(Idle, t) /\ Idle.seen[t].lines = 0
  BY DEF Names, Idle, NoSeen, NoRollout
<1>6. \A t \in Threads : rows[t] = None => roll[t].prov = None
  BY <1>2 DEF NoRollout
<1>7. \A t \in Threads : roll[t].lines = 0
  BY <1>2 DEF NoRollout
<1>8. UnknownUntouched
  BY <1>5, <1>6 DEF Init, UnknownUntouched
<1>9. Counted
  BY <1>5, <1>7 DEF Init, Counted
<1> QED BY <1>3, <1>4, <1>8, <1>9 DEF IInv

-----------------------------------------------------------------------------
(* One process steps: what the rest sees.                                   *)
StepsTo(p, q) ==
    /\ work' = [work EXCEPT ![p] = q]
    /\ ProcOK(q)
    /\ \A t \in Threads : rows[t] = None => ~Names(q, t)
    /\ \A t \in Threads : q.seen[t].lines <= wrote[t]

\* An operation that is over or given up.
LEMMA IdleSteps ==
  ASSUME IInv, NEW p \in Procs, Becomes(p, Idle) PROVE StepsTo(p, Idle)
<1> USE ConstantsAssumption
<1>1. ProcOK(Idle)
  BY DEF Idle, Works, ProcOK, NoSeen, NoRollout, Rollouts, Sources, Steps, Ops, StepsOf
<1>2. \A t \in Threads : ~Names(Idle, t) /\ Idle.seen[t].lines = 0
  BY DEF Names, Idle, NoSeen, NoRollout
<1>. QED BY <1>1, <1>2 DEF StepsTo, Becomes, IInv, StateOK

\* q is r a step further: it names nothing that r does not.
LEMMA Onward ==
  ASSUME IInv, NEW p \in Procs, NEW q, Becomes(p, q), ProcOK(q),
         q.seen = work[p].seen, q.todo \cup q.done \subseteq work[p].todo \cup work[p].done,
         q.t = work[p].t \/ q.t \in work[p].todo, q.queue = work[p].queue
  PROVE  StepsTo(p, q)
  BY DEF StepsTo, Becomes, IInv, Names, UnknownUntouched, Counted

\* Another place of the same operation is sound.
LEMMA FurtherOK ==
  ASSUME NEW r, ProcOK(r), NEW at \in Steps, at \in StepsOf(r.op),
         at \notin {"complete", "write", "rollouts", "isolate"}, r.at # "complete", r.result = "skipped"
  PROVE  ProcOK([r EXCEPT !.at = at])
<1> DEFINE q == [r EXCEPT !.at = at]
<1>1. r \in Works
  BY DEF ProcOK
<1>2. /\ q \in Works
      /\ q.op = r.op /\ q.at = at /\ q.target = r.target /\ q.t = r.t /\ q.result = r.result
      /\ q.back = r.back
  BY <1>1 DEF Works
<1> HIDE DEF q
<1>3. ProcOK(q)
  BY <1>2 DEF ProcOK
<1>. QED BY <1>3 DEF q

\* A step that only goes on to another place.
LEMMA GoingOn ==
  ASSUME IInv, NEW p \in Procs, NEW at \in Steps, at \in StepsOf(work[p].op), GoesTo(p, at),
         at \notin {"complete", "write", "rollouts", "isolate"},
         work[p].at # "complete", work[p].result = "skipped"
  PROVE  \E q : StepsTo(p, q)
<1> DEFINE q == [work[p] EXCEPT !.at = at]
<1>1. work[p] \in Works /\ ProcOK(work[p])
  BY DEF IInv, WorkOK
<1>2. ProcOK(q)
  BY <1>1, FurtherOK
<1>3. q.seen = work[p].seen /\ q.todo = work[p].todo /\ q.done = work[p].done /\ q.t = work[p].t
      /\ q.queue = work[p].queue
  BY <1>1 DEF Works
<1>4. Becomes(p, q)
  BY DEF GoesTo
<1> HIDE DEF q
<1>5. StepsTo(p, q)
  BY <1>2, <1>3, <1>4, Onward
<1>. QED BY <1>5

\* Success is reported in the last step only.
LEMMA Skipped ==
  ASSUME IInv, NEW p \in Procs, work[p].at # "release" PROVE work[p].result = "skipped"
  BY DEF IInv, WorkOK, ProcOK, Works

\* What the steps about the lock make of a process.
LEMMA LockSteps ==
  ASSUME IInv, NEW p \in Procs, Lock(p) PROVE \E q : StepsTo(p, q)
<1> DEFINE r == work[p]
<1>0. ProcOK(r) /\ r \in Works
  BY DEF IInv, WorkOK
<1>1. CASE CreateLock(p)
  <2>1. r.at \in {"lock", "again"} /\ GoesTo(p, "owner")
    BY <1>1 DEF CreateLock
  <2>2. "owner" \in Steps /\ "owner" \in StepsOf(r.op)
    BY <1>0, <2>1 DEF ProcOK, StepsOf, Steps, Entering, Works, Ops
  <2>. QED BY <2>1, <2>2, GoingOn, Skipped
<1>2. CASE LockExists(p)
  <2>1. CASE At(p, "lock") /\ GoesTo(p, "judge")
    <3>1. "judge" \in Steps /\ "judge" \in StepsOf(r.op)
      BY <1>0, <2>1 DEF ProcOK, StepsOf, Steps, Entering, Works, Ops, At
    <3>. QED BY <2>1, <3>1, GoingOn, Skipped DEF At
  <2>. QED BY <1>2, <2>1, IdleSteps DEF LockExists
<1>3. CASE OwnerWritten(p)
  <2>1. r.at = "owner" /\ GoesTo(p, Work(p))
    BY <1>3 DEF OwnerWritten, At
  <2>2. /\ Work(p) \in Steps /\ Work(p) \in StepsOf(r.op)
        /\ Work(p) \notin {"complete", "write", "rollouts", "isolate"}
    BY <1>0, <2>1 DEF ProcOK, StepsOf, Steps, Entering, Works, Ops, Work
  <2>. QED BY <2>1, <2>2, GoingOn, Skipped
<1>4. CASE OwnerNotWritten(p) \/ JudgedAlive(p)
  BY <1>4, IdleSteps DEF OwnerNotWritten, JudgedAlive
<1>5. CASE JudgedDead(p)
  <2> DEFINE q == [work[p] EXCEPT !.at = "isolate", !.dead = lock.owner]
  <2>1. Becomes(p, q) /\ r.at = "judge" /\ lock.owner # None
    BY <1>5 DEF JudgedDead, At
  <2>2. lock.owner \in Procs
    BY <2>1 DEF IInv, StateOK, Free, Held
  <2>3. /\ q \in Works
        /\ q.op = r.op /\ q.at = "isolate" /\ q.target = r.target /\ q.t = r.t /\ q.result = r.result
        /\ q.back = r.back /\ q.dead \in Procs /\ q.seen = r.seen /\ q.todo = r.todo /\ q.done = r.done
        /\ q.queue = r.queue
    BY <1>0, <2>2 DEF Works, Steps
  <2>4. "isolate" \in StepsOf(r.op)
    BY <1>0, <2>1 DEF ProcOK, StepsOf, Entering, Works, Ops
  <2> HIDE DEF q
  <2>5. ProcOK(q)
    BY <1>0, <2>1, <2>3, <2>4, Skipped DEF ProcOK
  <2>6. StepsTo(p, q)
    BY <2>1, <2>3, <2>5, Onward
  <2>. QED BY <2>6
<1>6. CASE Isolated(p)
  <2>1. CASE GoesTo(p, "again")
    <3>1. r.at = "isolate" /\ "again" \in Steps /\ "again" \in StepsOf(r.op)
      BY <1>0, <1>6 DEF ProcOK, StepsOf, Steps, Entering, Works, Ops, At, Isolated
    <3>. QED BY <2>1, <3>1, GoingOn, Skipped
  <2>. QED BY <1>6, <2>1, IdleSteps DEF Isolated
<1>. QED BY <1>1, <1>2, <1>3, <1>4, <1>5, <1>6 DEF Lock

\* An operation begins with a target and nothing seen.
LEMMA Beginning ==
  ASSUME IInv, NEW p \in Procs, NEW q \in Works, Becomes(p, q),
         q.op \in {"sync", "finalize", "recover"}, q.at \in StepsOf(q.op),
         q.at \notin {"isolate", "write", "complete"}, q.target \in Providers,
         q.op # "sync" => q.t \in Threads, q.t \in Threads => rows[q.t] # None,
         \A k \in q.queue : rows[k.t] # None,
         q.seen = NoSeen, q.todo = {}, q.done = {}, q.back = FALSE, q.result = "skipped"
  PROVE  StepsTo(p, q)
<1> USE ConstantsAssumption
<1>1. ProcOK(q)
  BY DEF ProcOK
<1>2. \A u \in Threads : q.seen[u].prov = None /\ q.seen[u].lines = 0
  BY DEF NoSeen, NoRollout
<1>3. \A u \in Threads : rows[u] = None => ~Names(q, u)
  BY <1>2 DEF Names
<1>4. \A u \in Threads : wrote[u] \in Nat
  BY DEF IInv, StateOK
<1>. QED BY <1>1, <1>2, <1>3, <1>4 DEF StepsTo, Becomes

\* sync, finalize and recover begin so, and the queue is written next.
LEMMA BeginSteps ==
  ASSUME IInv, NEW p \in Procs,
         SyncBegins(p) \/ FinalizeBegins(p) \/ RecoverBegins(p) \/ Enqueued(p) \/ EnqueueFails(p)
           \/ Dies(p)
  PROVE  \E q : StepsTo(p, q)
<1> USE ConstantsAssumption
<1>0. NoSeen \in [Threads -> Rollouts] /\ config \in Providers /\ queue \in SUBSET Requests
  BY DEF NoSeen, NoRollout, Rollouts, Sources, IInv, StateOK
<1>1. CASE SyncBegins(p)
  <2> DEFINE q == [Idle EXCEPT !.op = "sync", !.at = "lock", !.target = config]
  <2>1. /\ q \in Works /\ q.op = "sync" /\ q.at = "lock" /\ q.target = config /\ q.t = None
        /\ q.queue = {} /\ q.seen = NoSeen /\ q.todo = {} /\ q.done = {} /\ q.back = FALSE /\ q.result = "skipped"
    BY <1>0 DEF Idle, Works, Ops, Steps
  <2>2. Becomes(p, q)
    BY <1>1 DEF SyncBegins
  <2> HIDE DEF q
  <2>3. StepsTo(p, q)
    BY <1>0, <2>1, <2>2, Beginning DEF StepsOf, Entering
  <2>. QED BY <2>3
<1>2. CASE FinalizeBegins(p)
  <2>1. PICK k \in queue :
           Becomes(p, [Idle EXCEPT !.op = "finalize", !.at = "lock", !.target = k.target, !.t = k.t])
    BY <1>2 DEF FinalizeBegins
  <2>2. k.target \in Providers /\ k.t \in Threads /\ rows[k.t] # None
    BY <1>0 DEF Requests, IInv, UnknownUntouched
  <2> DEFINE q == [Idle EXCEPT !.op = "finalize", !.at = "lock", !.target = k.target, !.t = k.t]
  <2>3. /\ q \in Works /\ q.op = "finalize" /\ q.at = "lock" /\ q.target = k.target /\ q.t = k.t
        /\ q.queue = {} /\ q.seen = NoSeen /\ q.todo = {} /\ q.done = {} /\ q.back = FALSE /\ q.result = "skipped"
    BY <1>0, <2>2 DEF Idle, Works, Ops, Steps
  <2> HIDE DEF q
  <2>4. StepsTo(p, q)
    <3>1. Becomes(p, q)
      BY <2>1 DEF q
    <3>. QED BY <2>2, <2>3, <3>1, Beginning DEF StepsOf, Entering
  <2>. QED BY <2>4
<1>3. CASE RecoverBegins(p)
  <2>1. PICK t \in Threads :
           /\ rows[t] = Openai
           /\ Becomes(p, [Idle EXCEPT !.op = "recover", !.at = "enqueue", !.target = config, !.t = t,
                                      !.queue = queue])
    BY <1>3 DEF RecoverBegins
  <2>2. rows[t] # None /\ \A k \in queue : rows[k.t] # None
    BY <1>0, <2>1 DEF IInv, UnknownUntouched, Requests
  <2> DEFINE q == [Idle EXCEPT !.op = "recover", !.at = "enqueue", !.target = config, !.t = t,
                               !.queue = queue]
  <2>3. /\ q \in Works /\ q.op = "recover" /\ q.at = "enqueue" /\ q.target = config /\ q.t = t
        /\ q.queue = queue /\ q.seen = NoSeen /\ q.todo = {} /\ q.done = {} /\ q.back = FALSE
        /\ q.result = "skipped"
    BY <1>0 DEF Idle, Works, Ops, Steps
  <2> HIDE DEF q
  <2>4. StepsTo(p, q)
    <3>1. Becomes(p, q)
      BY <2>1 DEF q
    <3>. QED BY <1>0, <2>2, <2>3, <3>1, Beginning DEF StepsOf, Entering
  <2>. QED BY <2>4
<1>4. CASE Enqueued(p)
  <2>1. work[p].at = "enqueue" /\ GoesTo(p, "lock")
    BY <1>4 DEF Enqueued, At
  <2>2. "lock" \in Steps /\ "lock" \in StepsOf(work[p].op)
    BY <2>1 DEF IInv, WorkOK, ProcOK, StepsOf, Steps, Entering, Works, Ops
  <2>. QED BY <2>1, <2>2, GoingOn, Skipped
<1>5. CASE EnqueueFails(p) \/ Dies(p)
  BY <1>5, IdleSteps DEF EnqueueFails, Dies
<1>. QED BY <1>1, <1>2, <1>3, <1>4, <1>5

\* What a step at "rollouts" or "write" leaves behind.
LEMMA AtRollouts ==
  ASSUME IInv, NEW p \in Procs, NEW q \in Works, Becomes(p, q),
         work[p].at # "complete", work[p].op \in {"sync", "finalize"}, work[p].result = "skipped",
         q.op = work[p].op, q.at \in {"rollouts", "write"}, q.target = work[p].target,
         q.result = "skipped", q.back => work[p].op = "sync",
         q.todo \cup q.done \subseteq work[p].todo \cup work[p].done, q.seen = work[p].seen,
         q.queue = work[p].queue,
         work[p].op = "finalize" => q.todo \subseteq work[p].todo /\ work[p].todo \subseteq {work[p].t},
         q.t = work[p].t \/ q.t \in work[p].todo, q.at = "write" => q.t \in Threads
  PROVE  StepsTo(p, q)
<1>1. ProcOK(work[p])
  BY DEF IInv, WorkOK
<1>2. ProcOK(q)
  BY <1>1 DEF ProcOK, StepsOf
<1>. QED BY <1>2, Onward

\* The rollouts one after the other (replace_session_text_if_unchanged).
LEMMA RolloutSteps ==
  ASSUME IInv, NEW p \in Procs,
         Rewrite(p) \/ Rewritten(p) \/ PassedOver(p) \/ RewriteFails(p) \/ AllRewritten(p)
  PROVE  \E q : StepsTo(p, q)
<1>0. PICK r : r = work[p]
  OBVIOUS
<1>1. r \in Works /\ ProcOK(r) /\ r.at \in {"rollouts", "write"}
  BY <1>0 DEF IInv, WorkOK, Rewrite, Rewritten, PassedOver, RewriteFails, AllRewritten, At
<1>2. /\ r.op \in {"sync", "finalize"} /\ r.result = "skipped" /\ r.at \notin {"complete", "release"}
      /\ r.op = "finalize" => r.todo \subseteq {r.t}
      /\ r.at = "write" => r.t \in Threads
      /\ r.back => r.op = "sync"
  BY <1>1 DEF ProcOK, StepsOf, Works, Ops, Entering
<1>3. CASE Rewrite(p)
  <2>1. PICK t \in r.todo : Becomes(p, [r EXCEPT !.at = "write", !.t = t, !.todo = @ \ {t}])
    BY <1>0, <1>3 DEF Rewrite
  <2> DEFINE q == [r EXCEPT !.at = "write", !.t = t, !.todo = @ \ {t}]
  <2>2. /\ q \in Works /\ q.op = r.op /\ q.at = "write" /\ q.target = r.target /\ q.t = t
        /\ q.result = r.result /\ q.back = r.back /\ q.todo = r.todo \ {t} /\ q.done = r.done
        /\ q.seen = r.seen /\ q.queue = r.queue /\ t \in Threads
    BY <1>1 DEF Works, Steps
  <2>3. Becomes(p, q)
    BY <2>1
  <2> HIDE DEF q
  <2>4. StepsTo(p, q)
    BY <1>0, <1>1, <1>2, <2>1, <2>2, <2>3, AtRollouts
  <2>. QED BY <2>4
<1>4. CASE Rewritten(p)
  <2> DEFINE q == [r EXCEPT !.at = "rollouts", !.done = @ \cup {r.t}]
  <2>1. r.at = "write"
    BY <1>0, <1>4 DEF Rewritten, At
  <2>2. /\ q \in Works /\ q.op = r.op /\ q.at = "rollouts" /\ q.target = r.target /\ q.t = r.t
        /\ q.result = r.result /\ q.back = r.back /\ q.todo = r.todo /\ q.done = r.done \cup {r.t}
        /\ q.seen = r.seen /\ q.queue = r.queue
    BY <1>1, <1>2, <2>1 DEF Works, Steps
  <2>3. Becomes(p, q)
    BY <1>0, <1>4 DEF Rewritten
  <2> HIDE DEF q
  <2>4. ProcOK(q)
    BY <1>1, <1>2, <2>2 DEF ProcOK, StepsOf
  <2>5. \A t \in Threads : Names(q, t) => Names(r, t)
    BY <2>2 DEF Names
  <2>6. \A t \in Threads : /\ rows[t] = None => ~Names(q, t)
                           /\ q.seen[t].lines <= wrote[t]
    BY <1>0, <2>2, <2>5 DEF IInv, UnknownUntouched, Counted
  <2>7. StepsTo(p, q)
    BY <2>3, <2>4, <2>6 DEF StepsTo, Becomes
  <2>. QED BY <2>7
<1>5. CASE PassedOver(p)
  <2>1. PICK t \in r.todo :
          Becomes(p, [r EXCEPT !.passed = @ \cup {t},
                               !.todo = IF r.back /\ Locked(t) THEN {} ELSE @ \ {t}])
    BY <1>0, <1>5 DEF PassedOver
  <2>2. PICK S : S = IF r.back /\ Locked(t) THEN {} ELSE r.todo \ {t}
    OBVIOUS
  <2> DEFINE q == [r EXCEPT !.passed = @ \cup {t}, !.todo = S]
  <2>3. r.at = "rollouts"
    BY <1>0, <1>5 DEF PassedOver, At
  <2>4. /\ q \in Works /\ q.op = r.op /\ q.at = "rollouts" /\ q.target = r.target /\ q.t = r.t
        /\ q.result = r.result /\ q.back = r.back /\ q.todo = S /\ q.done = r.done
        /\ q.seen = r.seen /\ q.queue = r.queue /\ S \subseteq r.todo
    BY <1>1, <2>2, <2>3 DEF Works
  <2>5. Becomes(p, q)
    BY <2>1, <2>2
  <2> HIDE DEF q
  <2>6. StepsTo(p, q)
    BY <1>0, <1>1, <1>2, <2>4, <2>5, AtRollouts
  <2>. QED BY <2>6
<1>6. CASE RewriteFails(p) \/ AllRewritten(p)
  <2>1. PICK at \in {"release", "catalog", "verify"} :
           GoesTo(p, at) /\ at \in StepsOf(r.op)
    BY <1>0, <1>2, <1>6 DEF RewriteFails, AllRewritten, StepsOf, Entering
  <2>. QED BY <1>0, <1>1, <1>2, <2>1, GoingOn DEF Steps
<1>. QED BY <1>3, <1>4, <1>5, <1>6

\* run_provider_sync_with_target under the lock.
LEMMA SyncSteps ==
  ASSUME IInv, NEW p \in Procs,
         \/ Collected(p) \/ CatalogMoved(p) \/ RowsMoved(p) \/ Repaired(p)
         \/ GlobalStateWritten(p) \/ SyncFails(p)
  PROVE  \E q : StepsTo(p, q)
<1> USE ConstantsAssumption
<1>0. PICK r : r = work[p]
  OBVIOUS
<1>1. r \in Works /\ ProcOK(r) /\ r.at \in {"collect", "catalog", "rows", "repair", "global"}
  BY <1>0 DEF IInv, WorkOK, Collected, CatalogMoved, RowsMoved, Repaired, GlobalStateWritten, SyncFails, At
<1>2. r.result = "skipped"
  BY <1>1 DEF ProcOK, Works
<1>3. r.op = "sync"
  BY <1>0, <1>1 DEF ProcOK, StepsOf, Works, Ops, Entering, Collected, CatalogMoved, RowsMoved, Repaired,
                    GlobalStateWritten, SyncFails, At
<1>4. CASE Collected(p)
  <2>1. PICK seen : seen = [t \in Threads |-> IF Readable(t) THEN roll[t] ELSE NoRollout]
    OBVIOUS
  <2>2. seen \in [Threads -> Rollouts]
    BY <2>1 DEF IInv, StateOK, NoRollout, Rollouts, Sources
  <2>3. \A t \in Threads : /\ rows[t] = None => seen[t].prov = None
                           /\ seen[t].lines <= wrote[t]
    BY <2>1 DEF IInv, StateOK, Rollouts, UnknownUntouched, Counted, NoRollout
  <2>4. CASE Becomes(p, [r EXCEPT !.at = "release", !.result = "synced", !.seen = seen])
    <3> DEFINE q == [r EXCEPT !.at = "release", !.result = "synced", !.seen = seen]
    <3>1. /\ q \in Works /\ q.op = "sync" /\ q.at = "release" /\ q.target = r.target /\ q.t = r.t
          /\ q.back = r.back /\ q.todo = r.todo /\ q.done = r.done /\ q.seen = seen /\ q.queue = r.queue
      BY <1>1, <1>3, <2>2 DEF Works, Steps
    <3>2. Becomes(p, q)
      BY <2>4
    <3> HIDE DEF q
    <3>3. ProcOK(q)
      BY <1>1, <1>3, <3>1 DEF ProcOK, StepsOf, Entering
    <3>4. \A t \in Threads : rows[t] = None => ~Names(q, t)
      BY <1>0, <2>3, <3>1 DEF Names, IInv, UnknownUntouched
    <3>5. StepsTo(p, q)
      BY <2>3, <3>1, <3>2, <3>3, <3>4 DEF StepsTo, Becomes
    <3>. QED BY <3>5
  <2>5. PICK S : S = {t \in Threads : seen[t].prov \notin {None, r.target}}
    OBVIOUS
  <2>6. CASE Becomes(p, [r EXCEPT !.at = "rollouts", !.seen = seen, !.was = archived, !.todo = S])
    <3> DEFINE q == [r EXCEPT !.at = "rollouts", !.seen = seen, !.was = archived, !.todo = S]
    <3>1. /\ q \in Works /\ q.op = "sync" /\ q.at = "rollouts" /\ q.target = r.target /\ q.t = r.t
          /\ q.result = r.result /\ q.back = r.back /\ q.todo = S /\ q.done = r.done /\ q.seen = seen
          /\ q.queue = r.queue
      <4>1. archived \in SUBSET Threads
        BY DEF IInv, StateOK
      <4>. QED BY <1>1, <1>3, <2>2, <2>5, <4>1 DEF Works, Steps
    <3>2. Becomes(p, q)
      BY <2>6
    <3> HIDE DEF q
    <3>3. ProcOK(q)
      BY <1>1, <1>2, <1>3, <3>1 DEF ProcOK, StepsOf, Entering
    <3>4. \A t \in Threads : rows[t] = None => ~Names(q, t)
      BY <1>0, <2>3, <2>5, <3>1 DEF Names, IInv, UnknownUntouched
    <3>5. StepsTo(p, q)
      BY <2>3, <3>1, <3>2, <3>3, <3>4 DEF StepsTo, Becomes
    <3>. QED BY <3>5
  <2>. QED BY <1>0, <1>4, <2>1, <2>4, <2>5, <2>6 DEF Collected
<1>5. CASE CatalogMoved(p) \/ RowsMoved(p) \/ Repaired(p)
  <2>1. PICK at \in {"rows", "repair", "global"} : GoesTo(p, at)
    BY <1>5 DEF CatalogMoved, RowsMoved, Repaired
  <2>. QED BY <1>0, <1>1, <1>2, <1>3, <2>1, GoingOn DEF Steps, StepsOf
<1>6. CASE GlobalStateWritten(p)
  <2> DEFINE q == [r EXCEPT !.at = "release", !.result = "synced"]
  <2>1. /\ q \in Works /\ q.op = "sync" /\ q.at = "release" /\ q.target = r.target /\ q.t = r.t
        /\ q.back = r.back /\ q.todo = r.todo /\ q.done = r.done /\ q.seen = r.seen /\ q.queue = r.queue
    BY <1>1, <1>3 DEF Works, Steps
  <2>2. Becomes(p, q)
    BY <1>0, <1>6 DEF GlobalStateWritten
  <2> HIDE DEF q
  <2>3. ProcOK(q)
    BY <1>1, <1>3, <2>1 DEF ProcOK, StepsOf, Entering
  <2>4. StepsTo(p, q)
    BY <1>0, <2>1, <2>2, <2>3, Onward
  <2>. QED BY <2>4
<1>7. CASE SyncFails(p)
  <2>1. CASE GoesTo(p, "release")
    BY <1>0, <1>1, <1>2, <1>3, <2>1, GoingOn DEF Steps, StepsOf, Entering
  <2>2. CASE Becomes(p, [r EXCEPT !.at = "rollouts", !.back = TRUE, !.todo = r.done])
    <3> DEFINE q == [r EXCEPT !.at = "rollouts", !.back = TRUE, !.todo = r.done]
    <3>1. /\ q \in Works /\ q.op = "sync" /\ q.at = "rollouts" /\ q.target = r.target /\ q.t = r.t
          /\ q.result = r.result /\ q.todo = r.done /\ q.done = r.done /\ q.seen = r.seen
          /\ q.queue = r.queue
      BY <1>1, <1>3 DEF Works, Steps
    <3>2. Becomes(p, q)
      BY <2>2
    <3> HIDE DEF q
    <3>3. StepsTo(p, q)
      BY <1>0, <1>1, <1>2, <1>3, <3>1, <3>2, AtRollouts
    <3>. QED BY <3>3
  <2>. QED BY <1>0, <1>7, <2>1, <2>2 DEF SyncFails, GoesTo
<1>. QED BY <1>4, <1>5, <1>6, <1>7

\* finalize and recover under the lock.
LEMMA SingleSteps ==
  ASSUME IInv, NEW p \in Procs,
         LookedUp(p) \/ Verified(p) \/ EntryMade(p) \/ EntryMoved(p) \/ RowMoved(p) \/ OneFails(p)
  PROVE  \E q : StepsTo(p, q)
<1> USE ConstantsAssumption
<1>0. PICK r : r = work[p]
  OBVIOUS
<1>1. r \in Works /\ ProcOK(r) /\ r.at \in {"lookup", "verify", "entry", "catalog", "rows"}
  BY <1>0 DEF IInv, WorkOK, LookedUp, Verified, EntryMade, EntryMoved, RowMoved, OneFails, At
<1>2. r.result = "skipped"
  BY <1>1 DEF ProcOK, Works
<1>3. r.op \in {"finalize", "recover"} /\ r.at \in StepsOf(r.op) /\ r.t \in Threads
  BY <1>0, <1>1 DEF ProcOK, StepsOf, Works, Ops, Entering, LookedUp, Verified, EntryMade, EntryMoved,
                    RowMoved, OneFails, At
<1>4. ASSUME Becomes(p, [r EXCEPT !.at = "release", !.result = "synced"]) PROVE \E q : StepsTo(p, q)
  <2> DEFINE q == [r EXCEPT !.at = "release", !.result = "synced"]
  <2>1. /\ q \in Works /\ q.op = r.op /\ q.at = "release" /\ q.target = r.target /\ q.t = r.t
        /\ q.back = r.back /\ q.todo = r.todo /\ q.done = r.done /\ q.seen = r.seen /\ q.queue = r.queue
    BY <1>1, <1>3 DEF Works, Steps
  <2>2. Becomes(p, q)
    BY <1>4
  <2> HIDE DEF q
  <2>3. ProcOK(q)
    BY <1>1, <1>3, <2>1 DEF ProcOK, StepsOf, Entering
  <2>4. StepsTo(p, q)
    BY <1>0, <2>1, <2>2, <2>3, Onward
  <2>. QED BY <2>4
<1>5. CASE GoesTo(p, "release")
  BY <1>0, <1>1, <1>2, <1>3, <1>5, GoingOn DEF Steps, StepsOf, Entering
<1>6. CASE LookedUp(p)
  <2>0. PICK s : s = [r EXCEPT !.was = archived]
    OBVIOUS
  <2>a. /\ s \in Works /\ s.op = r.op /\ s.at = r.at /\ s.target = r.target /\ s.t = r.t
        /\ s.result = r.result /\ s.back = r.back /\ s.todo = r.todo /\ s.done = r.done
        /\ s.seen = r.seen /\ s.queue = r.queue /\ s.dead = r.dead
    <3>1. archived \in SUBSET Threads
      BY DEF IInv, StateOK
    <3>. QED BY <1>1, <2>0, <3>1 DEF Works
  <2>1. PICK seen : seen = [r.seen EXCEPT ![r.t] = roll[r.t]]
    OBVIOUS
  <2>2. PICK S : S = IF roll[r.t].prov = Openai THEN {r.t} ELSE {}
    OBVIOUS
  <2>b. ASSUME NEW result \in {"skipped", "synced"},
               Becomes(p, [s EXCEPT !.at = "release", !.result = result])
        PROVE  \E q : StepsTo(p, q)
    <3> DEFINE q == [s EXCEPT !.at = "release", !.result = result]
    <3>1. /\ q \in Works /\ q.op = r.op /\ q.at = "release" /\ q.target = r.target /\ q.t = r.t
          /\ q.back = r.back /\ q.todo = r.todo /\ q.done = r.done /\ q.seen = r.seen /\ q.queue = r.queue
      BY <2>a, <2>b DEF Works, Steps
    <3>2. Becomes(p, q)
      BY <2>b
    <3> HIDE DEF q
    <3>3. ProcOK(q)
      BY <1>1, <1>3, <3>1 DEF ProcOK, StepsOf, Entering
    <3>4. StepsTo(p, q)
      BY <1>0, <3>1, <3>2, <3>3, Onward
    <3>. QED BY <3>4
  <2>c. [s EXCEPT !.at = "release"] = [s EXCEPT !.at = "release", !.result = "skipped"]
    BY <1>2, <2>a DEF Works
  <2>3. CASE Becomes(p, [s EXCEPT !.at = "rollouts", !.seen = seen, !.todo = S])
    <3>1. seen \in [Threads -> Rollouts]
      BY <1>1, <1>3, <2>1 DEF IInv, StateOK, Works
    <3>2. \A t \in Threads : seen[t] = r.seen[t] \/ (t = r.t /\ seen[t] = roll[t])
      BY <1>1, <1>3, <2>1 DEF Works
    <3> DEFINE q == [s EXCEPT !.at = "rollouts", !.seen = seen, !.todo = S]
    <3>3. /\ q \in Works /\ q.op = r.op /\ q.at = "rollouts" /\ q.target = r.target /\ q.t = r.t
          /\ q.result = r.result /\ q.back = r.back /\ q.todo = S /\ q.done = r.done /\ q.seen = seen
          /\ q.queue = r.queue
      BY <1>3, <2>a, <2>2, <3>1 DEF Works, Steps
    <3>4. Becomes(p, q)
      BY <2>3
    <3> HIDE DEF q
    <3>5. r.op = "finalize"
      BY <1>0, <1>3, <1>6 DEF LookedUp, At, StepsOf, Entering
    <3>6. ProcOK(q)
      BY <1>1, <1>2, <1>3, <2>2, <3>3, <3>5 DEF ProcOK, StepsOf, Entering
    <3>7. rows[r.t] # None
      BY <1>0, <1>3 DEF IInv, UnknownUntouched, Names
    <3>8. \A t \in Threads : rows[t] = None => ~Names(q, t)
      <4>1. ASSUME NEW t \in Threads, rows[t] = None PROVE ~Names(q, t)
        <5>1. ~Names(r, t) /\ t # r.t
          BY <1>0, <3>7, <4>1 DEF IInv, UnknownUntouched
        <5>. QED BY <2>2, <3>2, <3>3, <5>1 DEF Names
      <4>. QED BY <4>1
    <3>9. \A t \in Threads : q.seen[t].lines <= wrote[t]
      BY <1>0, <3>2, <3>3 DEF IInv, Counted
    <3>10. StepsTo(p, q)
      BY <3>4, <3>6, <3>8, <3>9 DEF StepsTo, Becomes
    <3>. QED BY <3>10
  <2>4. CASE Becomes(p, [s EXCEPT !.at = "rollouts", !.seen[r.t] = roll[r.t],
                                  !.todo = IF roll[r.t].prov = Openai THEN {r.t} ELSE {}])
    <3>1. [s EXCEPT !.at = "rollouts", !.seen[r.t] = roll[r.t],
                    !.todo = IF roll[r.t].prov = Openai THEN {r.t} ELSE {}]
             = [s EXCEPT !.at = "rollouts", !.seen = seen, !.todo = S]
      BY <2>a, <2>1, <2>2 DEF Works
    <3>. QED BY <2>3, <2>4, <3>1
  <2>5. \/ Becomes(p, [s EXCEPT !.at = "release", !.result = "synced"])
        \/ Becomes(p, [s EXCEPT !.at = "release"])
        \/ Becomes(p, [s EXCEPT !.at = "rollouts", !.seen[r.t] = roll[r.t],
                                !.todo = IF roll[r.t].prov = Openai THEN {r.t} ELSE {}])
    BY <1>0, <1>6, <2>0 DEF LookedUp
  <2>. QED BY <2>b, <2>c, <2>4, <2>5
<1>7. CASE Verified(p) \/ EntryMade(p)
  <2>1. PICK at \in {"release", "entry", "catalog"} : GoesTo(p, at)
    BY <1>7 DEF Verified, EntryMade
  <2>2. at \in StepsOf(r.op)
    BY <1>3, <2>1, <1>7, <1>0 DEF StepsOf, Entering, Verified, EntryMade, At
  <2>. QED BY <1>0, <1>1, <1>2, <2>1, <2>2, GoingOn DEF Steps
<1>8. CASE EntryMoved(p)
  <2>1. CASE r.op = "finalize"
    <3>1. GoesTo(p, "rows")
      BY <1>0, <1>8, <2>1 DEF EntryMoved, GoesTo
    <3>. QED BY <1>0, <1>1, <1>2, <2>1, <3>1, GoingOn DEF Steps, StepsOf
  <2>. QED BY <1>0, <1>4, <1>8, <2>1 DEF EntryMoved
<1>9. CASE RowMoved(p) \/ OneFails(p)
  BY <1>0, <1>4, <1>5, <1>9 DEF RowMoved, OneFails
<1>. QED BY <1>6, <1>7, <1>8, <1>9

\* Release, and the queue after it.
LEMMA EndSteps ==
  ASSUME IInv, NEW p \in Procs, Release(p) \/ Completed(p) \/ CompleteFails(p)
  PROVE  \E q : StepsTo(p, q)
<1> USE ConstantsAssumption
<1>1. CASE Becomes(p, Idle)
  BY <1>1, IdleSteps
<1>2. CASE work[p].at = "release" /\ work[p].op = "finalize" /\
           Becomes(p, [Idle EXCEPT !.op = "finalize", !.at = "complete", !.t = work[p].t, !.queue = queue])
  <2> DEFINE q == [Idle EXCEPT !.op = "finalize", !.at = "complete", !.t = work[p].t, !.queue = queue]
  <2>1. work[p].t \in Threads /\ queue \in SUBSET Requests
    BY <1>2 DEF IInv, WorkOK, ProcOK, StateOK
  <2>2. /\ q \in Works /\ q.op = "finalize" /\ q.at = "complete" /\ q.t = work[p].t
        /\ q.queue = queue /\ q.seen = NoSeen /\ q.todo = {} /\ q.done = {} /\ q.back = FALSE
        /\ q.result = "skipped"
    BY <2>1 DEF Idle, Works, Ops, Steps, NoSeen, NoRollout, Rollouts, Sources
  <2>3. Becomes(p, q)
    BY <1>2
  <2> HIDE DEF q
  <2>4. ProcOK(q)
    BY <2>1, <2>2 DEF ProcOK, StepsOf
  <2>5. \A t \in Threads : q.seen[t].prov = None /\ q.seen[t].lines = 0
    BY <2>2 DEF NoSeen, NoRollout
  <2>6. \A t \in Threads : rows[t] = None => ~Names(q, t)
    BY <2>2, <2>5 DEF Names, IInv, UnknownUntouched
  <2>7. \A t \in Threads : wrote[t] \in Nat
    BY DEF IInv, StateOK
  <2>8. StepsTo(p, q)
    BY <2>3, <2>4, <2>5, <2>6, <2>7 DEF StepsTo, Becomes
  <2>. QED BY <2>8
<1>. QED BY <1>1, <1>2 DEF Release, Completed, CompleteFails, At

-----------------------------------------------------------------------------
(* What a process's step does to the rest.                                  *)
Process(p) ==
    \/ Ends(p) \/ Dies(p)
    \/ SyncBegins(p) \/ FinalizeBegins(p) \/ RecoverBegins(p) \/ Enqueued(p) \/ EnqueueFails(p)
    \/ Lock(p) \/ Moves(p) \/ Release(p) \/ Completed(p) \/ CompleteFails(p)

\* The steps that write to a session, and those that write the queue.
Writes(p) == Rewrite(p) \/ Rewritten(p) \/ CatalogMoved(p) \/ RowsMoved(p) \/ Repaired(p)
               \/ EntryMade(p) \/ EntryMoved(p) \/ RowMoved(p)
Queues(p) == Enqueued(p) \/ Completed(p)

\* Eight steps write to the sessions and two to the queue.
LEMMA OthersLeaveSessions ==
  ASSUME NEW p \in Procs, Process(p)
  PROVE  /\ Writes(p) \/ UNCHANGED sessions
         /\ Queues(p) \/ UNCHANGED queue
         /\ UNCHANGED <<config, codex, wrote>>
<1> USE DEF Writes, Queues, sessions, histories
<1>1. CASE Ends(p) \/ Dies(p) \/ SyncBegins(p) \/ FinalizeBegins(p) \/ RecoverBegins(p)
             \/ Enqueued(p) \/ EnqueueFails(p)
  BY <1>1 DEF Ends, Dies, SyncBegins, FinalizeBegins, RecoverBegins, Enqueued, EnqueueFails
<1>2. CASE Lock(p)
  BY <1>2 DEF Lock, CreateLock, LockExists, OwnerWritten, OwnerNotWritten, JudgedDead, JudgedAlive, Isolated
<1>3. CASE Rewrite(p) \/ Rewritten(p) \/ PassedOver(p) \/ RewriteFails(p) \/ AllRewritten(p)
  BY <1>3 DEF Rewrite, Rewritten, PassedOver, RewriteFails, AllRewritten
<1>4. CASE Collected(p) \/ CatalogMoved(p) \/ RowsMoved(p) \/ Repaired(p) \/ GlobalStateWritten(p) \/ SyncFails(p)
  BY <1>4 DEF Collected, CatalogMoved, RowsMoved, Repaired, GlobalStateWritten, SyncFails
<1>5. CASE LookedUp(p) \/ Verified(p) \/ EntryMade(p) \/ EntryMoved(p) \/ RowMoved(p) \/ OneFails(p)
  BY <1>5 DEF LookedUp, Verified, EntryMade, EntryMoved, RowMoved, OneFails
<1>6. CASE Release(p) \/ Completed(p) \/ CompleteFails(p)
  BY <1>6 DEF Release, Completed, CompleteFails
<1>. QED BY <1>1, <1>2, <1>3, <1>4, <1>5, <1>6 DEF Process, Moves

\* The bounds, the histories, and who is up.
LEMMA LeftAndMarks ==
  ASSUME IInv, NEW p \in Procs, Process(p)
  PROVE  /\ left' \in [lines : Nat, switches : Nat, trouble : Nat] /\ left'.lines = left.lines
         /\ cut \subseteq cut' /\ cut' \in SUBSET Threads
         /\ stolen' \in BOOLEAN /\ (stolen => stolen')
         /\ up' \in [Procs -> {"up", "down"}] /\ \A q \in Procs \ {p} : up'[q] = up[q]
         /\ \A q \in Procs : up[q] = "down" => up'[q] = "down"
<1>1. left' \in [lines : Nat, switches : Nat, trouble : Nat] /\ left'.lines = left.lines
  <2>1. Trouble \/ UNCHANGED left
    BY DEF Process, Moves, histories, Ends, Dies, SyncBegins, FinalizeBegins, RecoverBegins, Enqueued, EnqueueFails,
           Lock, CreateLock, LockExists, OwnerWritten, OwnerNotWritten, JudgedDead, JudgedAlive, Isolated,
           Rewrite, Rewritten, PassedOver, RewriteFails, AllRewritten, Collected, CatalogMoved, RowsMoved,
           Repaired, GlobalStateWritten, SyncFails, LookedUp, Verified, EntryMade, EntryMoved, RowMoved,
           OneFails, Release, Completed, CompleteFails
  <2>. QED BY <2>1 DEF IInv, StateOK, Trouble
<1>2. cut' = cut \/ (cut' = cut \cup {work[p].t} /\ work[p].at = "write")
  BY DEF Process, Moves, histories, Ends, Dies, SyncBegins, FinalizeBegins, RecoverBegins, Enqueued, EnqueueFails,
         Lock, CreateLock, LockExists, OwnerWritten, OwnerNotWritten, JudgedDead, JudgedAlive, Isolated,
         Rewrite, Rewritten, PassedOver, RewriteFails, AllRewritten, Collected, CatalogMoved, RowsMoved,
         Repaired, GlobalStateWritten, SyncFails, LookedUp, Verified, EntryMade, EntryMoved, RowMoved,
         OneFails, Release, Completed, CompleteFails
<1>3. cut \subseteq cut' /\ cut' \in SUBSET Threads
  BY <1>2 DEF IInv, StateOK, WorkOK, ProcOK
<1>4. Isolated(p) \/ UNCHANGED stolen
  BY DEF Process, Moves, histories, Ends, Dies, SyncBegins, FinalizeBegins, RecoverBegins, Enqueued, EnqueueFails,
         Lock, CreateLock, LockExists, OwnerWritten, OwnerNotWritten, JudgedDead, JudgedAlive,
         Rewrite, Rewritten, PassedOver, RewriteFails, AllRewritten, Collected, CatalogMoved, RowsMoved,
         Repaired, GlobalStateWritten, SyncFails, LookedUp, Verified, EntryMade, EntryMoved, RowMoved,
         OneFails, Release, Completed, CompleteFails
<1>5. stolen' \in BOOLEAN /\ (stolen => stolen')
  BY <1>4 DEF IInv, StateOK, Isolated
<1>6. up' = [up EXCEPT ![p] = "down"] \/ UNCHANGED up
  BY DEF Process, Moves, histories, Ends, Dies, SyncBegins, FinalizeBegins, RecoverBegins, Enqueued, EnqueueFails,
         Lock, CreateLock, LockExists, OwnerWritten, OwnerNotWritten, JudgedDead, JudgedAlive, Isolated,
         Rewrite, Rewritten, PassedOver, RewriteFails, AllRewritten, Collected, CatalogMoved, RowsMoved,
         Repaired, GlobalStateWritten, SyncFails, LookedUp, Verified, EntryMade, EntryMoved, RowMoved,
         OneFails, Release, Completed, CompleteFails
<1>7. /\ up' \in [Procs -> {"up", "down"}] /\ \A q \in Procs \ {p} : up'[q] = up[q]
      /\ \A q \in Procs : up[q] = "down" => up'[q] = "down"
  BY <1>6 DEF IInv, StateOK
<1>. QED BY <1>1, <1>3, <1>5, <1>7

\* The lock has an owner or none.
LEMMA LockStaysALock ==
  ASSUME IInv, NEW p \in Procs, Process(p)
  PROVE  lock' \in {Free} \cup {Held(q) : q \in Procs \cup {None}}
<1>1. lock' \in {lock, Free, Held(p), Held(None)}
  BY DEF Process, Moves, histories, Ends, Dies, SyncBegins, FinalizeBegins, RecoverBegins, Enqueued, EnqueueFails,
         Lock, CreateLock, LockExists, OwnerWritten, OwnerNotWritten, JudgedDead, JudgedAlive, Isolated,
         Rewrite, Rewritten, PassedOver, RewriteFails, AllRewritten, Collected, CatalogMoved, RowsMoved,
         Repaired, GlobalStateWritten, SyncFails, LookedUp, Verified, EntryMade, EntryMoved, RowMoved,
         OneFails, Release, Completed, CompleteFails
<1>. QED BY <1>1 DEF IInv, StateOK

\* A session that is known stays known, and only a known one is written to.
LEMMA SessionsStaySound ==
  ASSUME IInv, NEW p \in Procs, Writes(p)
  PROVE  /\ roll' \in [Threads -> Rollouts] /\ rows' \in [Threads -> Sources]
         /\ catalog' \in [Threads -> Sources] /\ UNCHANGED archived
         /\ \A t \in Threads : /\ rows[t] # None <=> rows'[t] # None
                               /\ rows[t] = None => roll'[t].prov = None
                               /\ roll'[t].lines <= wrote[t]
<1> USE ConstantsAssumption
<1>0. PICK r : r = work[p]
  OBVIOUS
<1>a. UNCHANGED archived
  BY DEF Writes, Rewrite, Rewritten, CatalogMoved, RowsMoved, Repaired, EntryMade, EntryMoved, RowMoved
<1>1. /\ r \in Works /\ ProcOK(r)
      /\ roll \in [Threads -> Rollouts] /\ rows \in [Threads -> Sources] /\ catalog \in [Threads -> Sources]
      /\ wrote \in [Threads -> Nat]
  BY <1>0 DEF IInv, WorkOK, StateOK
<1>2. \A t \in Threads : /\ rows[t] = None => roll[t].prov = None /\ ~Names(r, t)
                         /\ roll[t].lines <= wrote[t] /\ r.seen[t].lines <= wrote[t]
  BY <1>0 DEF IInv, UnknownUntouched, Counted
<1>3. CASE Rewrite(p)
  <2>1. PICK t \in r.todo : roll' = [roll EXCEPT ![t] = NoRollout] /\ UNCHANGED <<rows, catalog>>
    BY <1>0, <1>3 DEF Rewrite
  <2>2. NoRollout \in Rollouts /\ NoRollout.prov = None /\ NoRollout.lines = 0
    BY DEF NoRollout, Rollouts, Sources
  <2>3. roll' \in [Threads -> Rollouts] /\ \A u \in Threads : roll'[u] \in {roll[u], NoRollout}
    BY <1>1, <2>1, <2>2
  <2>. QED BY <1>a, <1>1, <1>2, <2>1, <2>2, <2>3
<1>4. CASE Rewritten(p)
  <2>1. /\ roll' = [roll EXCEPT ![r.t] = Replaced(r, r.t)] /\ UNCHANGED <<rows, catalog>>
        /\ r.at = "write"
    BY <1>0, <1>4 DEF Rewritten, At
  <2>2. r.t \in Threads /\ r.target \in Providers
    BY <1>1, <2>1 DEF ProcOK, StepsOf
  <2>3. Replaced(r, r.t) \in Rollouts /\ Replaced(r, r.t).lines = r.seen[r.t].lines
    BY <1>1, <2>2 DEF Replaced, After, Works, Rollouts, Sources
  <2>4. rows[r.t] # None
    BY <1>2, <2>2 DEF Names
  <2>. QED BY <1>a, <1>1, <1>2, <2>1, <2>2, <2>3, <2>4
<1>5. CASE CatalogMoved(p) \/ RowsMoved(p) \/ Repaired(p)
  <2>1. r.target \in Providers
    BY <1>0, <1>1, <1>5 DEF ProcOK, StepsOf, CatalogMoved, RowsMoved, Repaired, At
  <2>2. /\ UNCHANGED roll
        /\ \/ rows' = [t \in Threads |-> IF Known(t) THEN r.target ELSE rows[t]]
           \/ UNCHANGED rows
        /\ \/ catalog' = [t \in Threads |-> IF catalog[t] = None THEN None ELSE r.target]
           \/ catalog' = [t \in Threads |-> IF Known(t) /\ catalog[t] = None THEN r.target ELSE catalog[t]]
           \/ UNCHANGED catalog
    BY <1>0, <1>5 DEF CatalogMoved, RowsMoved, Repaired
  <2>3. rows' \in [Threads -> Sources] /\ \A t \in Threads : rows[t] # None <=> rows'[t] # None
    BY <1>1, <2>1, <2>2 DEF Known, Sources
  <2>4. catalog' \in [Threads -> Sources]
    BY <1>1, <2>1, <2>2 DEF Sources
  <2>. QED BY <1>a, <1>1, <1>2, <2>2, <2>3, <2>4
<1>6. CASE EntryMade(p) \/ EntryMoved(p) \/ RowMoved(p)
  <2>1. r.target \in Providers /\ r.t \in Threads
    BY <1>0, <1>1, <1>6 DEF ProcOK, StepsOf, EntryMade, EntryMoved, RowMoved, At, Works, Ops, Entering
  <2>2. /\ UNCHANGED roll
        /\ \/ rows' = [rows EXCEPT ![r.t] = IF @ = Openai THEN r.target ELSE @]
           \/ UNCHANGED rows
        /\ \/ \E x \in {r.target, catalog[r.t]} : catalog' = [catalog EXCEPT ![r.t] = x]
           \/ UNCHANGED catalog
    BY <1>0, <1>6 DEF EntryMade, EntryMoved, RowMoved
  <2>3. rows' \in [Threads -> Sources] /\ \A t \in Threads : rows[t] # None <=> rows'[t] # None
    BY <1>1, <2>1, <2>2 DEF Sources
  <2>4. catalog' \in [Threads -> Sources]
    BY <1>1, <2>1, <2>2 DEF Sources
  <2>. QED BY <1>a, <1>1, <1>2, <2>2, <2>3, <2>4
<1>. QED BY <1>a, <1>3, <1>4, <1>5, <1>6 DEF Writes

\* Only sessions that are known are queued.
LEMMA QueueStaysSound ==
  ASSUME IInv, NEW p \in Procs, Process(p)
  PROVE  queue' \in SUBSET Requests /\ \A k \in queue' : rows[k.t] # None
<1> USE ConstantsAssumption
<1>0. PICK r : r = work[p]
  OBVIOUS
<1>1. r \in Works /\ ProcOK(r) /\ queue \in SUBSET Requests
  BY <1>0 DEF IInv, WorkOK, StateOK
<1>2. \A k \in queue \cup r.queue : rows[k.t] # None
  BY <1>0, <1>1 DEF IInv, UnknownUntouched, Names, Requests, Works
<1>3. CASE Enqueued(p)
  <2>1. r.t \in Threads /\ r.target \in Providers
    BY <1>0, <1>1, <1>3 DEF Enqueued, At, ProcOK, StepsOf, Works, Ops, Entering
  <2>2. rows[r.t] # None
    BY <1>0, <2>1 DEF IInv, UnknownUntouched, Names
  <2>3. queue' \subseteq queue \cup r.queue \cup {[t |-> r.t, target |-> r.target]}
    BY <1>0, <1>3 DEF Enqueued
  <2>. QED BY <1>1, <1>2, <2>1, <2>2, <2>3 DEF Requests, Works
<1>4. CASE Completed(p)
  <2>1. queue' \subseteq queue \cup r.queue
    BY <1>0, <1>4 DEF Completed
  <2>. QED BY <1>1, <1>2, <2>1 DEF Works
<1>5. CASE UNCHANGED queue
  BY <1>1, <1>2, <1>5
<1>. QED BY <1>3, <1>4, <1>5, OthersLeaveSessions DEF Queues

\* A step of a process changes its own work and names only what is known.
LEMMA EveryStepIsOne ==
  ASSUME IInv, NEW p \in Procs, Process(p), ~Ends(p) PROVE \E q : StepsTo(p, q)
  BY BeginSteps, LockSteps, RolloutSteps, SyncSteps, SingleSteps, EndSteps DEF Process, Moves

\* So IInv survives the steps of the processes,
LEMMA ProcessKeepsIInv ==
  ASSUME IInv, NEW p \in Procs, Process(p) PROVE IInv'
<1>1. /\ roll' \in [Threads -> Rollouts] /\ rows' \in [Threads -> Sources]
      /\ catalog' \in [Threads -> Sources] /\ archived' \in SUBSET Threads
      /\ \A t \in Threads : /\ rows[t] # None <=> rows'[t] # None
                            /\ rows[t] = None => roll'[t].prov = None
                            /\ roll'[t].lines <= wrote[t]
  <2>1. CASE Writes(p)
    BY <2>1, SessionsStaySound DEF IInv, StateOK
  <2>2. CASE UNCHANGED sessions
    BY <2>2 DEF sessions, IInv, StateOK, UnknownUntouched, Counted
  <2>. QED BY <2>1, <2>2, OthersLeaveSessions
<1>2. StateOK'
  BY <1>1, OthersLeaveSessions, LeftAndMarks, LockStaysALock, QueueStaysSound DEF IInv, StateOK
<1>3. ASSUME NEW x \in Procs
      PROVE  /\ work'[x] \in Works /\ ProcOK(work'[x])
             /\ \A t \in Threads : rows[t] = None => ~Names(work'[x], t)
             /\ \A t \in Threads : work'[x].seen[t].lines <= wrote[t]
  <2>1. ProcOK(work[x]) /\ \A t \in Threads : /\ rows[t] = None => ~Names(work[x], t)
                                              /\ work[x].seen[t].lines <= wrote[t]
    BY DEF IInv, WorkOK, UnknownUntouched, Counted
  <2>2. CASE Ends(p)
    BY <2>1, <2>2 DEF Ends, ProcOK
  <2>3. CASE ~Ends(p)
    <3>1. PICK q : StepsTo(p, q)
      BY <2>3, EveryStepIsOne
    <3>2. work'[x] = work[x] \/ (x = p /\ work'[x] = q)
      BY <3>1 DEF StepsTo, IInv, WorkOK
    <3>. QED BY <2>1, <3>1, <3>2 DEF StepsTo, ProcOK
  <2>. QED BY <2>2, <2>3
<1>4. work' \in [Procs -> Works]
  <2>1. CASE Ends(p)
    BY <2>1 DEF Ends, IInv, WorkOK
  <2>2. CASE ~Ends(p)
    <3>1. PICK q : StepsTo(p, q)
      BY <2>2, EveryStepIsOne
    <3>. QED BY <3>1 DEF StepsTo, ProcOK, IInv, WorkOK
  <2>. QED BY <2>1, <2>2
<1>5. WorkOK'
  BY <1>3, <1>4 DEF WorkOK
<1>6. UnknownUntouched'
  <2>1. UNCHANGED wrote
    BY OthersLeaveSessions
  <2>2. \A t \in Threads : rows[t] = None => roll'[t].prov = None /\ wrote[t] = 0 /\ \A k \in queue' : k.t # t
    BY <1>1, QueueStaysSound DEF IInv, UnknownUntouched
  <2>3. \A x \in Procs : \A t \in Threads : rows[t] = None => ~Names(work'[x], t)
    BY <1>3
  <2>4. \A x \in Procs : \A t \in Threads : Names(work[x], t)' <=> Names(work'[x], t)
    BY DEF Names
  <2>. QED BY <1>1, <2>1, <2>2, <2>3, <2>4 DEF UnknownUntouched
<1>7. Counted'
  BY <1>1, <1>3, OthersLeaveSessions, LeftAndMarks DEF IInv, Counted
<1>. QED BY <1>2, <1>5, <1>6, <1>7 DEF IInv

\* and those of Codex and the user.
LEMMA OthersKeepIInv ==
  ASSUME IInv, CodexStarts \/ CodexStops \/ ConfigSwitched
                 \/ (\E t \in Threads : CodexCreates(t) \/ CodexAppends(t) \/ CodexArchives(t))
                 \/ UNCHANGED vars
  PROVE  IInv'
<1> USE ConstantsAssumption
<1>1. CASE UNCHANGED vars
  BY <1>1 DEF vars, sessions, histories, IInv, StateOK, WorkOK, UnknownUntouched, Counted, Names
<1>2. CASE CodexStarts \/ CodexStops
  <2>0. codex' \in {[on |-> TRUE, open |-> {}], [on |-> FALSE, open |-> {}]}
    BY <1>2 DEF CodexStarts, CodexStops
  <2>1. codex' \in [on : BOOLEAN, open : SUBSET Threads]
        /\ UNCHANGED <<sessions, config, queue, lock, up, work, left, histories>>
    <3>1. [on |-> TRUE, open |-> {}] \in [on : BOOLEAN, open : SUBSET Threads]
      OBVIOUS
    <3>2. [on |-> FALSE, open |-> {}] \in [on : BOOLEAN, open : SUBSET Threads]
      OBVIOUS
    <3>. QED BY <1>2, <2>0, <3>1, <3>2 DEF CodexStarts, CodexStops
  <2>2. StateOK'
    <3>1. UNCHANGED <<roll, rows, catalog, archived, config, queue, lock, up, left, wrote, cut, stolen>>
      BY <2>1 DEF sessions, histories
    <3>. QED BY <2>1, <3>1 DEF IInv, StateOK
  <2>3. WorkOK'
    BY <2>1 DEF IInv, WorkOK
  <2>4. UnknownUntouched' /\ Counted'
    BY <2>1 DEF sessions, histories, IInv, UnknownUntouched, Counted, Names
  <2>. QED BY <2>2, <2>3, <2>4 DEF IInv
<1>3. CASE ConfigSwitched
  <2>1. config' \in Providers /\ left' \in [lines : Nat, switches : Nat, trouble : Nat]
        /\ left'.lines = left.lines
        /\ UNCHANGED <<sessions, queue, lock, up, work, codex, histories>>
    BY <1>3 DEF ConfigSwitched, IInv, StateOK
  <2>. QED BY <2>1 DEF sessions, histories, IInv, StateOK, WorkOK, UnknownUntouched, Counted, Names
<1>4. ASSUME NEW t \in Threads, CodexCreates(t) PROVE IInv'
  <2>1. /\ roll' = [roll EXCEPT ![t] = [prov |-> Openai, lines |-> 0]]
        /\ rows' = [rows EXCEPT ![t] = Openai]
        /\ UNCHANGED <<catalog, archived, config, queue, lock, up, work, codex, left, wrote, cut, stolen>>
    BY <1>4 DEF CodexCreates, histories
  <2>2. StateOK'
    BY <2>1 DEF IInv, StateOK, Rollouts, Sources
  <2>3. WorkOK'
    BY <2>1 DEF IInv, WorkOK
  <2>4. UnknownUntouched'
    BY <2>1 DEF IInv, StateOK, UnknownUntouched, Names
  <2>5. Counted'
    <3>1. \A u \in Threads : roll'[u].lines = 0 \/ roll'[u] = roll[u]
      BY <2>1 DEF IInv, StateOK
    <3>. QED BY <2>1, <3>1 DEF IInv, StateOK, Counted
  <2>. QED BY <2>2, <2>3, <2>4, <2>5 DEF IInv
<1>5. ASSUME NEW t \in Threads, CodexAppends(t) PROVE IInv'
  <2>1. /\ rows[t] # None /\ left.lines > 0
        /\ codex' = [codex EXCEPT !.open = @ \cup {t}]
        /\ roll' = [roll EXCEPT ![t].lines = @ + 1]
        /\ wrote' = [wrote EXCEPT ![t] = @ + 1]
        /\ left' = [left EXCEPT !.lines = @ - 1]
        /\ UNCHANGED <<rows, catalog, archived, config, queue, lock, up, work, cut, stolen>>
    BY <1>5 DEF CodexAppends, Known
  <2>2. /\ roll' \in [Threads -> Rollouts]
        /\ \A u \in Threads : /\ roll'[u].prov = roll[u].prov
                              /\ roll'[u].lines = IF u = t THEN roll[u].lines + 1 ELSE roll[u].lines
    BY <2>1 DEF IInv, StateOK, Rollouts
  <2>3. /\ wrote' \in [Threads -> Nat]
        /\ \A u \in Threads : wrote'[u] = IF u = t THEN wrote[u] + 1 ELSE wrote[u]
    BY <2>1 DEF IInv, StateOK
  <2>4. left' \in [lines : Nat, switches : Nat, trouble : Nat] /\ left'.lines = left.lines - 1
    BY <2>1 DEF IInv, StateOK
  <2>5. codex' \in [on : BOOLEAN, open : SUBSET Threads]
    BY <2>1 DEF IInv, StateOK
  <2>6. StateOK'
    BY <2>1, <2>2, <2>3, <2>4, <2>5 DEF IInv, StateOK
  <2>7. WorkOK'
    BY <2>1 DEF IInv, WorkOK
  <2>8. UnknownUntouched'
    BY <2>1, <2>2, <2>3 DEF IInv, StateOK, UnknownUntouched, Names
  <2>9. Counted'
    <3>1. MaxLines \in Nat /\ left.lines \in Nat /\ wrote \in [Threads -> Nat]
          /\ \A u \in Threads : /\ roll[u].lines \in Nat
                                /\ \A x \in Procs : work[x].seen[u].lines \in Nat
      BY DEF IInv, StateOK, WorkOK, Rollouts, Works
    <3>. QED BY <2>1, <2>2, <2>3, <2>4, <3>1 DEF IInv, Counted
  <2>. QED BY <2>6, <2>7, <2>8, <2>9 DEF IInv
<1>6. ASSUME NEW t \in Threads, CodexArchives(t) PROVE IInv'
  <2>1. /\ archived' \in SUBSET Threads
        /\ left' \in [lines : Nat, switches : Nat, trouble : Nat] /\ left'.lines = left.lines
        /\ UNCHANGED <<roll, rows, catalog, config, queue, lock, up, work, codex, histories>>
    BY <1>6 DEF CodexArchives, IInv, StateOK
  <2>. QED BY <2>1 DEF histories, IInv, StateOK, WorkOK, UnknownUntouched, Counted, Names
<1>. QED BY <1>1, <1>2, <1>3, <1>4, <1>5, <1>6

\* IInv is inductive.
LEMMA NextIInv == IInv /\ [Next]_vars => IInv'
<1> SUFFICES ASSUME IInv, [Next]_vars PROVE IInv'
    OBVIOUS
<1>1. ASSUME NEW p \in Procs, Process(p) PROVE IInv'
  BY <1>1, ProcessKeepsIInv
<1>. QED BY <1>1, OthersKeepIInv DEF Next, Process

\* Every session has a provider or none, and the lock an owner or none.
THEOREM TypesHold == Spec => []TypeOK
<1>1. IInv => TypeOK
  BY ConstantsAssumption DEF IInv, StateOK, Counted, TypeOK, Rollouts, Requests
<1>. QED BY <1>1, InitOK, NextIInv, PTL DEF Spec

-----------------------------------------------------------------------------
(* The lines.                                                               *)
\* A process changes nobody else's work.
LEMMA OthersStand ==
  ASSUME IInv, NEW p \in Procs, Process(p), NEW x \in Procs \ {p}
  PROVE  work'[x] = work[x] /\ up'[x] = up[x]
<1>1. CASE Ends(p)
  BY <1>1, LeftAndMarks DEF Ends
<1>2. CASE ~Ends(p)
  <2>1. PICK q : StepsTo(p, q)
    BY <1>2, EveryStepIsOne
  <2>. QED BY <2>1, LeftAndMarks DEF StepsTo, IInv, WorkOK
<1>. QED BY <1>1, <1>2

\* The ways that the lookup may end.
LEMMA LookedUpTo ==
  ASSUME NEW p, LookedUp(p)
  PROVE  \E s, seen, todo :
           /\ s = [work[p] EXCEPT !.was = archived]
           /\ \/ Becomes(p, [s EXCEPT !.at = "release", !.result = "synced"])
              \/ Becomes(p, [s EXCEPT !.at = "release"])
              \/ Becomes(p, [s EXCEPT !.at = "rollouts", !.seen[work[p].t] = seen, !.todo = todo])
  BY DEF LookedUp

\* While it moves sessions a process stays where it holds the lock.
Working == {"collect", "lookup", "rollouts", "write", "verify", "entry", "catalog", "rows",
            "repair", "global"}

LEMMA Moving ==
  ASSUME IInv, NEW p \in Procs, Moves(p)
  PROVE  /\ up[p] = "up" /\ work[p].at \in Working
         /\ work'[p].at \in Working \cup {"release"}
         /\ Rewrite(p) \/ work'[p].at # "write"
<1>0. PICK r : r = work[p]
  OBVIOUS
<1>a. r \in Works /\ work \in [Procs -> Works]
  BY <1>0 DEF IInv, WorkOK
<1>b. \A q : Becomes(p, q) => work'[p] = q
  BY <1>a DEF Becomes
<1>c. \A at : GoesTo(p, at) => work'[p].at = at
  BY <1>0, <1>a, <1>b DEF GoesTo, Works
<1> USE DEF Working
<1>1. CASE Rewrite(p) \/ Rewritten(p)
  <2>1. r.at \in {"rollouts", "write"} /\ up[p] = "up"
    BY <1>0, <1>1 DEF Rewrite, Rewritten, At
  <2>2. PICK t, todo, done :
           \/ Rewrite(p) /\ Becomes(p, [r EXCEPT !.at = "write", !.t = t, !.todo = todo])
           \/ Becomes(p, [r EXCEPT !.at = "rollouts", !.done = done])
    BY <1>0, <1>1 DEF Rewrite, Rewritten
  <2>3. (Rewrite(p) /\ work'[p].at = "write") \/ work'[p].at = "rollouts"
    BY <1>a, <1>b, <2>2 DEF Works
  <2>. QED BY <1>0, <2>1, <2>3
<1>2. CASE PassedOver(p)
  <2>1. PICK passed, todo : Becomes(p, [r EXCEPT !.passed = passed, !.todo = todo])
    BY <1>0, <1>2 DEF PassedOver
  <2>2. work'[p].at = r.at
    BY <1>a, <1>b, <2>1 DEF Works
  <2>. QED BY <1>0, <1>2, <2>2 DEF PassedOver, At
<1>3. CASE RewriteFails(p) \/ AllRewritten(p) \/ CatalogMoved(p) \/ RowsMoved(p) \/ Repaired(p)
             \/ Verified(p) \/ EntryMade(p) \/ OneFails(p)
  <2>1. r.at \in Working /\ up[p] = "up"
    BY <1>0, <1>3 DEF RewriteFails, AllRewritten, CatalogMoved, RowsMoved, Repaired, Verified, EntryMade,
                      OneFails, At
  <2>2. work'[p].at \in {"catalog", "verify", "rows", "repair", "global", "entry", "release"}
    BY <1>3, <1>c DEF RewriteFails, AllRewritten, CatalogMoved, RowsMoved, Repaired, Verified, EntryMade,
                      OneFails
  <2>. QED BY <1>0, <2>1, <2>2
<1>4. CASE Collected(p) \/ GlobalStateWritten(p) \/ SyncFails(p)
  <2>1. r.at \in Working /\ up[p] = "up"
    BY <1>0, <1>4 DEF Collected, GlobalStateWritten, SyncFails, At
  <2>2. PICK seen, todo :
           \/ Becomes(p, [r EXCEPT !.at = "release"])
           \/ Becomes(p, [r EXCEPT !.at = "release", !.result = "synced"])
           \/ Becomes(p, [r EXCEPT !.at = "release", !.result = "synced", !.seen = seen])
           \/ Becomes(p, [r EXCEPT !.at = "rollouts", !.seen = seen, !.was = archived, !.todo = todo])
           \/ Becomes(p, [r EXCEPT !.at = "rollouts", !.back = TRUE, !.todo = r.done])
    BY <1>0, <1>4 DEF Collected, GlobalStateWritten, SyncFails
  <2>3. work'[p].at \in {"rollouts", "release"}
    BY <1>a, <1>b, <2>2 DEF Works
  <2>. QED BY <1>0, <2>1, <2>3
<1>5. CASE LookedUp(p) \/ EntryMoved(p) \/ RowMoved(p)
  <2>1. r.at \in Working /\ up[p] = "up"
    BY <1>0, <1>5 DEF LookedUp, EntryMoved, RowMoved, At
  <2>2. CASE LookedUp(p)
    <3>1. PICK s, seen, todo :
            /\ s = [r EXCEPT !.was = archived]
            /\ \/ Becomes(p, [s EXCEPT !.at = "release", !.result = "synced"])
               \/ Becomes(p, [s EXCEPT !.at = "release"])
               \/ Becomes(p, [s EXCEPT !.at = "rollouts", !.seen[r.t] = seen, !.todo = todo])
      BY <1>0, <2>2, LookedUpTo
    <3>2. s \in Works
      BY <1>a, <3>1 DEF Works, IInv, StateOK
    <3>3. work'[p].at \in {"rollouts", "release"}
      BY <1>b, <3>1, <3>2 DEF Works
    <3>. QED BY <1>0, <2>1, <3>3
  <2>3. CASE EntryMoved(p) \/ RowMoved(p)
    <3>1. \/ Becomes(p, [r EXCEPT !.at = "release", !.result = "synced"])
          \/ Becomes(p, [r EXCEPT !.at = "rows"])
      BY <1>0, <2>3 DEF EntryMoved, RowMoved
    <3>2. work'[p].at \in {"rows", "release"}
      BY <1>a, <1>b, <3>1 DEF Works
    <3>. QED BY <1>0, <2>1, <3>2
  <2>. QED BY <1>5, <2>2, <2>3
<1>. QED BY <1>1, <1>2, <1>3, <1>4, <1>5 DEF Moves

\* Where the other steps lead.
LEMMA Arriving ==
  ASSUME IInv, NEW p \in Procs
  PROVE  /\ Dies(p) => work'[p].at = "idle"
         /\ SyncBegins(p) \/ FinalizeBegins(p) \/ RecoverBegins(p) \/ Enqueued(p) \/ EnqueueFails(p) =>
               work[p].at \in {"idle", "enqueue"} /\ work'[p].at \in {"lock", "enqueue", "idle"}
         /\ Release(p) \/ Completed(p) \/ CompleteFails(p) =>
               work[p].at \in {"release", "complete"} /\ work'[p].at \in {"idle", "complete"}
         /\ CreateLock(p) => work[p].at \in {"lock", "again"} /\ work'[p].at = "owner"
         /\ LockExists(p) => work[p].at \in {"lock", "again"} /\ work'[p].at \in {"judge", "idle"}
         /\ OwnerWritten(p) => work[p].at = "owner" /\ work'[p].at \in {"collect", "lookup", "entry"}
         /\ OwnerNotWritten(p) => work[p].at = "owner" /\ work'[p].at = "idle"
         /\ JudgedDead(p) => work[p].at = "judge" /\ work'[p].at = "isolate" /\ work'[p].dead = lock.owner
         /\ JudgedAlive(p) => work[p].at = "judge" /\ work'[p].at = "idle"
         /\ Isolated(p) => work[p].at = "isolate" /\ work'[p].at \in {"again", "idle"}
<1>0. PICK r : r = work[p]
  OBVIOUS
<1>a. r \in Works /\ work \in [Procs -> Works]
  BY <1>0 DEF IInv, WorkOK
<1>b. \A q : Becomes(p, q) => work'[p] = q
  BY <1>a DEF Becomes
<1>c. \A at : GoesTo(p, at) => work'[p].at = at
  BY <1>0, <1>a, <1>b DEF GoesTo, Works
<1>d. Idle \in Works /\ Idle.at = "idle"
  BY DEF Idle, Works, NoSeen, NoRollout, Rollouts, Sources, Steps, Ops
<1>1. Dies(p) => work'[p].at = "idle"
  BY <1>b, <1>d DEF Dies
<1>2. SyncBegins(p) => work[p].at = "idle" /\ work'[p].at = "lock"
  BY <1>b, <1>d DEF SyncBegins, Works, At
<1>3. FinalizeBegins(p) => work[p].at = "idle" /\ work'[p].at = "lock"
  BY <1>b, <1>d DEF FinalizeBegins, Works, At
<1>4. RecoverBegins(p) => work[p].at = "idle" /\ work'[p].at = "enqueue"
  BY <1>b, <1>d DEF RecoverBegins, Works, At
<1>5. Enqueued(p) \/ EnqueueFails(p) => work[p].at = "enqueue" /\ work'[p].at \in {"lock", "idle"}
  BY <1>b, <1>c, <1>d DEF Enqueued, EnqueueFails, At
<1>6. Release(p) => work[p].at = "release" /\ work'[p].at \in {"idle", "complete"}
  <2>1. SUFFICES ASSUME Release(p) PROVE work[p].at = "release" /\ work'[p].at \in {"idle", "complete"}
    OBVIOUS
  <2>2. \/ Becomes(p, Idle)
        \/ Becomes(p, [Idle EXCEPT !.op = r.op, !.at = "complete", !.t = r.t, !.queue = queue])
    BY <1>0, <2>1 DEF Release
  <2>. QED BY <1>b, <1>d, <2>1, <2>2 DEF Release, At, Works
<1>7. Completed(p) \/ CompleteFails(p) => work[p].at = "complete" /\ work'[p].at = "idle"
  BY <1>b, <1>d DEF Completed, CompleteFails, At
<1>8. CreateLock(p) => work[p].at \in {"lock", "again"} /\ work'[p].at = "owner"
  BY <1>c DEF CreateLock
<1>9. LockExists(p) => work[p].at \in {"lock", "again"} /\ work'[p].at \in {"judge", "idle"}
  BY <1>b, <1>c, <1>d DEF LockExists, At
<1>10. OwnerWritten(p) => work[p].at = "owner" /\ work'[p].at \in {"collect", "lookup", "entry"}
  BY <1>c DEF OwnerWritten, At, Work
<1>11. OwnerNotWritten(p) => work[p].at = "owner" /\ work'[p].at = "idle"
  BY <1>b, <1>d DEF OwnerNotWritten, At
<1>12. JudgedDead(p) => work[p].at = "judge" /\ work'[p].at = "isolate" /\ work'[p].dead = lock.owner
  BY <1>0, <1>a, <1>b DEF JudgedDead, At, Works
<1>13. JudgedAlive(p) => work[p].at = "judge" /\ work'[p].at = "idle"
  BY <1>b, <1>d DEF JudgedAlive, At
<1>14. Isolated(p) => work[p].at = "isolate" /\ work'[p].at \in {"again", "idle"}
  BY <1>b, <1>c, <1>d DEF Isolated, At
<1>. QED BY <1>1, <1>2, <1>3, <1>4, <1>5, <1>6, <1>7, <1>8, <1>9, <1>10, <1>11, <1>12, <1>13, <1>14

\* Only Rewrite begins to write, and what ends it without Rewritten is noted in cut.
LEMMA WhoWrites ==
  ASSUME IInv, NEW p \in Procs, Process(p)
  PROVE  /\ Rewrite(p) \/ ~At(p, "write")'
         /\ At(p, "write") => Rewritten(p) \/ work[p].t \in cut'
<1>1. CASE Ends(p) \/ Dies(p)
  <2>1. up'[p] = "down"
    BY <1>1 DEF Ends, Dies, IInv, StateOK
  <2>. QED BY <1>1, <2>1 DEF Ends, Dies, At
<1>2. CASE Moves(p)
  <2>1. At(p, "write") => Rewritten(p) \/ RewriteFails(p)
    BY <1>2 DEF Moves, Rewrite, PassedOver, AllRewritten, Collected, CatalogMoved, RowsMoved, Repaired,
                GlobalStateWritten, SyncFails, LookedUp, Verified, EntryMade, EntryMoved, RowMoved, OneFails, At
  <2>. QED BY <1>2, <2>1, Moving DEF RewriteFails, At
<1>3. CASE ~Ends(p) /\ ~Dies(p) /\ ~Moves(p)
  BY <1>3, Arriving DEF Process, Lock, At
<1>. QED BY <1>1, <1>2, <1>3

\* A rewriting begins on what was read and puts it back; what cuts it short is noted.
LEMMA ProcessKeepsLines ==
  ASSUME IInv, LInv, NEW p \in Procs, Process(p) PROVE LInv'
<1>0. PICK r : r = work[p]
  OBVIOUS
<1>1. r \in Works /\ ProcOK(r) /\ roll \in [Threads -> Rollouts] /\ work \in [Procs -> Works]
  BY <1>0 DEF IInv, WorkOK, StateOK
<1>2. cut \subseteq cut' /\ UNCHANGED wrote
  BY LeftAndMarks, OthersLeaveSessions
<1>3. \A x \in Procs \ {p} : work'[x] = work[x] /\ up'[x] = up[x]
  BY OthersStand
<1> USE DEF At
<1>4. CASE Rewrite(p)
  <2>1. PICK t \in r.todo : /\ ~Locked(t) /\ roll[t] = Expected(r, t)
                            /\ Becomes(p, [r EXCEPT !.at = "write", !.t = t, !.todo = @ \ {t}])
                            /\ roll' = [roll EXCEPT ![t] = NoRollout]
    BY <1>0, <1>4 DEF Rewrite
  <2>2. /\ t \in Threads /\ work'[p].at = "write" /\ work'[p].t = t /\ work'[p].seen = r.seen
        /\ up[p] = "up" /\ up'[p] = "up" /\ r.at = "rollouts"
    BY <1>0, <1>1, <1>4, <2>1 DEF Rewrite, Becomes, Works
  <2>3. \A x \in Procs : At(x, "write") => x # p /\ work[x].t # t
    BY <1>0, <2>1, <2>2 DEF Locked, Writing
  <2>4. r.seen[t].lines = roll[t].lines
    BY <1>1, <2>1, <2>2 DEF Expected, After, Works, Rollouts
  <2>5. r.seen[t].lines = wrote[t] \/ t \in cut
    BY <2>2, <2>3, <2>4 DEF LInv, Intact, Writing
  <2>6. OneWriter'
    BY <1>3, <2>2, <2>3 DEF LInv, OneWriter
  <2>7. Remembered'
    BY <1>2, <1>3, <2>2, <2>3, <2>5 DEF LInv, Remembered
  <2>8. Intact'
    <3>1. ASSUME NEW u \in Threads, u # t PROVE (roll[u].lines = wrote[u] \/ u \in cut \/ Writing(u))'
      <4>1. roll'[u] = roll[u]
        BY <1>1, <2>1, <2>2, <3>1
      <4>2. Writing(u) => Writing(u)'
        BY <1>3, <2>3 DEF Writing
      <4>. QED BY <1>2, <4>1, <4>2 DEF LInv, Intact
    <3>2. Writing(t)'
      BY <2>2 DEF Writing
    <3>. QED BY <3>1, <3>2 DEF Intact
  <2>. QED BY <2>6, <2>7, <2>8 DEF LInv
<1>5. CASE ~Rewrite(p)
  <2>1. ~At(p, "write")'
    BY <1>5, WhoWrites
  <2>2. OneWriter'
    BY <1>3, <2>1 DEF LInv, OneWriter
  <2>3. Remembered'
    BY <1>2, <1>3, <2>1 DEF LInv, Remembered
  <2>4. ASSUME NEW u \in Threads PROVE (roll[u].lines = wrote[u] \/ u \in cut \/ Writing(u))'
    <3>1. CASE Rewritten(p)
      <4>1. roll' = [roll EXCEPT ![r.t] = Replaced(r, r.t)] /\ r.at = "write" /\ up[p] = "up"
        BY <1>0, <3>1 DEF Rewritten
      <4>2. CASE u = r.t
        <5>1. roll'[u].lines = r.seen[u].lines
          BY <1>1, <4>1, <4>2 DEF Replaced, After, Works, Rollouts
        <5>2. r.seen[u].lines = wrote[u] \/ u \in cut
          BY <1>0, <4>1, <4>2 DEF LInv, Remembered
        <5>. QED BY <1>2, <5>1, <5>2
      <4>3. CASE u # r.t
        <5>1. roll'[u] = roll[u]
          BY <1>1, <4>1, <4>3
        <5>2. Writing(u) => Writing(u)'
          BY <1>0, <1>3, <4>3 DEF Writing
        <5>. QED BY <1>2, <5>1, <5>2 DEF LInv, Intact
      <4>. QED BY <4>2, <4>3
    <3>2. CASE ~Rewritten(p)
      <4>1. UNCHANGED roll
        BY <1>5, <3>2, OthersLeaveSessions
           DEF sessions, Writes, CatalogMoved, RowsMoved, Repaired, EntryMade, EntryMoved, RowMoved
      <4>2. Writing(u) => u \in cut' \/ Writing(u)'
        BY <1>3, <3>2, WhoWrites DEF Writing
      <4>. QED BY <1>2, <4>1, <4>2 DEF LInv, Intact
    <3>. QED BY <3>1, <3>2
  <2>. QED BY <2>2, <2>3, <2>4 DEF LInv, Intact
<1>. QED BY <1>4, <1>5

\* Codex appends only where nobody writes, since it cannot open the file then.
LEMMA NextLines == Exclusive /\ IInv /\ LInv /\ [Next]_vars => LInv'
<1> SUFFICES ASSUME Exclusive, IInv, LInv, [Next]_vars PROVE LInv'
    OBVIOUS
<1>1. ASSUME NEW p \in Procs, Process(p) PROVE LInv'
  BY <1>1, ProcessKeepsLines
<1>2. CASE UNCHANGED <<roll, work, up, wrote, cut>>
  BY <1>2 DEF LInv, OneWriter, Remembered, Intact, Writing, At
<1>3. CASE \/ CodexStarts \/ CodexStops \/ ConfigSwitched \/ UNCHANGED vars
           \/ \E t \in Threads : CodexArchives(t)
  BY <1>2, <1>3 DEF CodexStarts, CodexStops, ConfigSwitched, CodexArchives, vars, sessions, histories
<1>4. ASSUME NEW t \in Threads, CodexCreates(t) PROVE LInv'
  <2>1. /\ UNCHANGED <<work, up, wrote, cut>> /\ roll' = [roll EXCEPT ![t] = [prov |-> Openai, lines |-> 0]]
        /\ rows[t] = None
    BY <1>4 DEF CodexCreates, histories, Known
  <2>2. wrote[t] = 0
    BY <2>1 DEF IInv, UnknownUntouched
  <2>3. OneWriter' /\ Remembered' /\ \A u \in Threads : Writing(u) => Writing(u)'
    BY <2>1 DEF LInv, OneWriter, Remembered, Writing, At
  <2>4. \A u \in Threads : roll'[u].lines = IF u = t THEN 0 ELSE roll[u].lines
    BY <2>1 DEF IInv, StateOK
  <2>5. Intact'
    BY <2>1, <2>2, <2>3, <2>4 DEF LInv, Intact
  <2>. QED BY <2>3, <2>5 DEF LInv
<1>5. ASSUME NEW t \in Threads, CodexAppends(t) PROVE LInv'
  <2>1. /\ UNCHANGED <<work, up, cut>> /\ ~Writing(t)
        /\ roll' = [roll EXCEPT ![t].lines = @ + 1]
        /\ wrote' = [wrote EXCEPT ![t] = @ + 1]
    BY <1>5 DEF CodexAppends
  <2>2. \A u \in Threads : /\ roll'[u].lines = IF u = t THEN roll[u].lines + 1 ELSE roll[u].lines
                           /\ wrote'[u] = IF u = t THEN wrote[u] + 1 ELSE wrote[u]
    BY <2>1 DEF IInv, StateOK, Rollouts
  <2>3. OneWriter' /\ \A u \in Threads : Writing(u) <=> Writing(u)'
    BY <2>1 DEF LInv, OneWriter, Writing, At
  <2>4. Remembered'
    <3>1. \A x \in Procs : At(x, "write") => work[x].t # t /\ work[x].t \in Threads
      BY <2>1 DEF Writing, IInv, WorkOK, ProcOK, At
    <3>. QED BY <2>1, <2>2, <3>1 DEF LInv, Remembered, At
  <2>5. Intact'
    BY <2>1, <2>2, <2>3 DEF LInv, Intact
  <2>. QED BY <2>3, <2>4, <2>5 DEF LInv
<1>. QED BY <1>1, <1>3, <1>4, <1>5 DEF Next, Process

\* No line that Codex wrote is lost where an open file is Codex's alone (Windows).
THEOREM NoLineIsLost == Exclusive => (Spec => []LinesKept)
<1> SUFFICES ASSUME Exclusive PROVE Spec => []LinesKept
    OBVIOUS
<1>1. Init => LInv
  BY DEF Init, LInv, OneWriter, Remembered, Intact, At, Idle, NoRollout
<1>2. IInv /\ LInv => \A t \in Threads : roll[t].lines = wrote[t] \/ t \in cut \/ Writing(t)
  BY DEF LInv, Intact
<1>3. IInv /\ LInv /\ [Next]_vars => LInv'
  BY NextLines
<1>4. Spec => [](IInv /\ LInv)
  BY <1>1, <1>3, InitOK, NextIInv, PTL DEF Spec
<1>5. TypeOK /\ IInv /\ LInv => LinesKept
  BY <1>2 DEF LinesKept
<1>. QED BY <1>4, <1>5, TypesHold, PTL

-----------------------------------------------------------------------------
(* The lock.                                                                *)
\* A lock that is renamed away was the dead process's, or it is stolen.
LEMMA ProcessKeepsLock ==
  ASSUME IInv, KInv, ~stolen', NEW p \in Procs, Process(p)
  PROVE  OwnLock' /\ Alone' /\ Dead'
<1> USE ConstantsAssumption DEF Holds, Locking
<1>1. OwnLock /\ Alone /\ Dead
  BY LeftAndMarks DEF KInv, IInv, StateOK
<1>2. /\ \A x \in Procs \ {p} : work'[x] = work[x] /\ up'[x] = up[x]
      /\ up \in [Procs -> {"up", "down"}] /\ up' \in [Procs -> {"up", "down"}]
      /\ \A x \in Procs : up[x] = "down" => up'[x] = "down"
  BY OthersStand, LeftAndMarks DEF IInv, StateOK
\* A step of one that does not hold the lock, and leaves it alone.
<1>3. ASSUME UNCHANGED lock,
             Holds(p)' => Holds(p) /\ (work[p].at = "owner" <=> work'[p].at = "owner"),
             ~At(p, "isolate")' \/ up'[work'[p].dead] = "down"
      PROVE  OwnLock' /\ Alone' /\ Dead'
  <2>1. OwnLock' /\ Alone'
    BY <1>1, <1>2, <1>3 DEF OwnLock, Alone
  <2>2. Dead'
    <3>1. ASSUME NEW x \in Procs, At(x, "isolate")' PROVE up'[work'[x].dead] = "down"
      <4>1. CASE x = p
        BY <1>3, <3>1, <4>1
      <4>2. CASE x # p
        <5>1. work[x].dead \in Procs
          BY <1>2, <3>1, <4>2 DEF IInv, WorkOK, ProcOK, At
        <5>. QED BY <1>1, <1>2, <3>1, <4>2, <5>1 DEF Dead, At
      <4>. QED BY <4>1, <4>2
    <3>. QED BY <3>1 DEF Dead
  <2>. QED BY <2>1, <2>2
\* Dead processes stay dead.
<1>4. ASSUME work'[p].at # "isolate" PROVE Dead'
  <2>1. ASSUME NEW x \in Procs, At(x, "isolate")' PROVE up'[work'[x].dead] = "down"
    <3>1. x # p
      BY <1>4, <2>1 DEF At
    <3>2. work[x].dead \in Procs
      BY <1>2, <2>1, <3>1 DEF IInv, WorkOK, ProcOK, At
    <3>. QED BY <1>1, <1>2, <2>1, <3>1, <3>2 DEF Dead, At
  <2>. QED BY <2>1 DEF Dead
<1>5. CASE Ends(p) \/ Dies(p)
  <2>1. up'[p] = "down" /\ UNCHANGED lock
    BY <1>5 DEF Ends, Dies, IInv, StateOK
  <2>. QED BY <1>3, <2>1 DEF At
<1>6. CASE SyncBegins(p) \/ FinalizeBegins(p) \/ RecoverBegins(p) \/ Enqueued(p) \/ EnqueueFails(p)
             \/ Completed(p) \/ CompleteFails(p)
  <2>1. UNCHANGED lock
    BY <1>6 DEF SyncBegins, FinalizeBegins, RecoverBegins, Enqueued, EnqueueFails, Completed, CompleteFails
  <2>2. work'[p].at \in {"idle", "lock", "enqueue", "complete"}
    BY <1>6, Arriving
  <2>. QED BY <1>3, <2>1, <2>2 DEF At
<1>7. CASE Moves(p)
  <2>1. UNCHANGED lock
    BY <1>7 DEF Moves, Rewrite, Rewritten, PassedOver, RewriteFails, AllRewritten, Collected, CatalogMoved,
                RowsMoved, Repaired, GlobalStateWritten, SyncFails, LookedUp, Verified, EntryMade, EntryMoved,
                RowMoved, OneFails
  <2>. QED BY <1>3, <1>7, <2>1, Moving DEF Working, At
<1>8. CASE LockExists(p) \/ JudgedAlive(p)
  <2>1. UNCHANGED lock /\ work'[p].at \in {"judge", "idle"}
    BY <1>8, Arriving DEF LockExists, JudgedAlive
  <2>. QED BY <1>3, <2>1 DEF At
<1>9. CASE JudgedDead(p)
  <2>1. /\ UNCHANGED <<lock, up>> /\ work'[p].at = "isolate" /\ work'[p].dead = lock.owner
        /\ up[lock.owner] = "down"
    BY <1>9, Arriving DEF JudgedDead
  <2>. QED BY <1>3, <2>1 DEF At
<1>10. CASE CreateLock(p)
  <2>1. ~lock.on /\ lock' = Held(None) /\ work'[p].at = "owner"
    BY <1>10, Arriving DEF CreateLock
  <2>2. \A x \in Procs : ~Holds(x)
    BY <1>1, <2>1 DEF OwnLock, Held
  <2>3. \A x \in Procs : Holds(x)' => x = p
    BY <1>2, <2>2
  <2>4. OwnLock' /\ Alone'
    BY <2>1, <2>3 DEF OwnLock, Alone
  <2>. QED BY <1>4, <2>1, <2>4
<1>11. CASE OwnerWritten(p) \/ OwnerNotWritten(p) \/ Release(p)
  <2>1. Holds(p) /\ work'[p].at # "isolate"
    BY <1>11, Arriving DEF OwnerWritten, OwnerNotWritten, Release, At
  <2>2. \A x \in Procs : Holds(x)' => x = p
    BY <1>1, <1>2, <2>1 DEF Alone
  <2>3. Holds(p)' => lock' = Held(p) /\ work'[p].at # "owner"
    BY <1>11, Arriving DEF OwnerWritten
  <2>4. OwnLock' /\ Alone'
    BY <2>2, <2>3 DEF OwnLock, Alone
  <2>. QED BY <1>4, <2>1, <2>4
<1>12. CASE Isolated(p)
  <2>1. /\ At(p, "isolate") /\ work'[p].at \in {"again", "idle"}
        /\ lock.on => lock.owner = work[p].dead
    BY <1>12, Arriving DEF Isolated
  <2>2. work[p].dead \in Procs /\ up[work[p].dead] = "down"
    BY <1>1, <2>1 DEF Dead, At, IInv, WorkOK, ProcOK
  <2>3. \A x \in Procs : ~Holds(x)
    BY <1>1, <2>1, <2>2 DEF OwnLock, Held
  <2>4. \A x \in Procs : ~Holds(x)'
    BY <1>2, <2>1, <2>3
  <2>5. OwnLock' /\ Alone'
    BY <2>4 DEF OwnLock, Alone
  <2>. QED BY <1>4, <2>1, <2>5
<1>. QED BY <1>5, <1>6, <1>7, <1>8, <1>9, <1>10, <1>11, <1>12 DEF Process, Lock

\* Nobody else touches the lock.
LEMMA NextLock == IInv /\ KInv /\ [Next]_vars => KInv'
<1> SUFFICES ASSUME IInv, KInv, [Next]_vars PROVE KInv'
    OBVIOUS
<1>1. ASSUME NEW p \in Procs, Process(p) PROVE KInv'
  BY <1>1, ProcessKeepsLock DEF KInv
<1>2. CASE UNCHANGED <<work, up, lock, stolen>>
  BY <1>2 DEF KInv, OwnLock, Alone, Dead, Holds, At
<1>3. CASE \/ CodexStarts \/ CodexStops \/ ConfigSwitched \/ UNCHANGED vars
           \/ \E t \in Threads : CodexCreates(t) \/ CodexAppends(t) \/ CodexArchives(t)
  BY <1>2, <1>3 DEF CodexStarts, CodexStops, ConfigSwitched, vars, sessions, histories, CodexCreates,
                    CodexAppends, CodexArchives
<1>. QED BY <1>1, <1>3 DEF Next, Process

-----------------------------------------------------------------------------
(* What an operation has achieved at each of its steps.                     *)
\* What is achieved stays so while nobody else writes to the sessions.
LEMMA Stable ==
  ASSUME IInv, NEW r, ProcOK(r), cut \subseteq cut', UNCHANGED catalog,
         \A u \in Threads : IF rows[u] = None THEN ~Names(r, u)
                            ELSE roll'[u].prov = roll[u].prov /\ rows'[u] = rows[u]
  PROVE  /\ SyncOK(r) => SyncOK(r)'
         /\ r.op = "finalize" /\ FinalizeOK(r) => FinalizeOK(r)'
<1>1. \A u \in Threads : r.seen[u].prov # None \/ u = r.t =>
                            roll'[u].prov = roll[u].prov /\ rows'[u] = rows[u]
  BY DEF Names
<1>2. ASSUME SyncOK(r) PROVE SyncOK(r)'
  <2>1. \A u \in Threads : r.seen[u].prov # None /\ HasMoved(r, u) => HasMoved(r, u)'
    BY <1>1 DEF HasMoved
  <2>2. Whole(r) => Whole(r)'
    BY <1>1 DEF Whole
  <2>. QED BY <1>1, <1>2, <2>1, <2>2 DEF SyncOK
<1>3. ASSUME r.op = "finalize", FinalizeOK(r) PROVE FinalizeOK(r)'
  <2>1. r.t \in Threads
    BY <1>3 DEF ProcOK
  <2>. QED BY <1>1, <1>3, <2>1 DEF FinalizeOK, Served, Third
<1>. QED BY <1>2, <1>3

\* Where nothing is promised yet.
LEMMA NothingPromised ==
  ASSUME NEW q,
         \/ q.at \notin {"rollouts", "write", "catalog", "rows", "repair", "global", "entry"}
         \/ q.at \in {"rollouts", "write"} /\ (q.back \/ q.op = "finalize"),
         q.result = "skipped"
  PROVE  /\ q.op = "sync" => SyncOK(q)'
         /\ q.op = "finalize" => FinalizeOK(q)'
  BY DEF SyncOK, FinalizeOK

\* A synchronisation finds only sessions that have a row.
LEMMA FoundIsKnown ==
  ASSUME IInv, NEW p \in Procs, NEW t \in Threads, work[p].seen[t].prov # None PROVE rows[t] # None
  BY DEF IInv, UnknownUntouched, Names

\* Each step of a synchronisation does its part.
LEMMA SyncProceeds ==
  ASSUME IInv, NEW p \in Procs, work[p].op = "sync", SyncOK(work[p]), cut \subseteq cut',
         Rewrite(p) \/ Rewritten(p) \/ PassedOver(p) \/ AllRewritten(p) \/ Collected(p)
           \/ CatalogMoved(p) \/ RowsMoved(p) \/ Repaired(p) \/ GlobalStateWritten(p)
  PROVE  SyncOK(work[p])'
<1> USE ConstantsAssumption
<1>0. PICK r : r = work[p]
  OBVIOUS
<1>1. PICK q : q = work'[p]
  OBVIOUS
<1> SUFFICES SyncOK(q)'
  BY <1>1
<1>2. r \in Works /\ ProcOK(r) /\ SyncOK(r) /\ r.op = "sync" /\ roll \in [Threads -> Rollouts]
      /\ work \in [Procs -> Works] /\ r.at # "release"
  BY <1>0 DEF IInv, WorkOK, StateOK, Rewrite, Rewritten, PassedOver, AllRewritten, Collected,
              CatalogMoved, RowsMoved, Repaired, GlobalStateWritten, At
<1>3. r.target \in Providers /\ r.result = "skipped"
  BY <1>2 DEF ProcOK, Works, StepsOf, Entering
<1>4. \A x : Becomes(p, x) => q = x
  BY <1>1, <1>2 DEF Becomes
<1>5. \A t \in Threads : r.seen[t].prov # None => rows[t] # None
  BY <1>0, FoundIsKnown
<1>6. CASE Rewrite(p)
  <2>1. PICK t \in r.todo : /\ Becomes(p, [r EXCEPT !.at = "write", !.t = t, !.todo = @ \ {t}])
                            /\ roll' = [roll EXCEPT ![t] = NoRollout] /\ r.at = "rollouts"
    BY <1>0, <1>6 DEF Rewrite, At
  <2>a. q = [r EXCEPT !.at = "write", !.t = t, !.todo = @ \ {t}]
    BY <1>4, <2>1
  <2>b. r \in Works /\ r.result = "skipped"
    BY <1>2, <1>3
  <2>2. /\ q.at = "write" /\ q.t = t /\ q.todo = r.todo \ {t} /\ q.seen = r.seen /\ q.passed = r.passed
        /\ q.target = r.target /\ q.back = r.back /\ q.result = "skipped"
    BY <2>a, <2>b DEF Works
  <2>3. ASSUME ~r.back, NEW u \in Threads, q.seen[u].prov # None
        PROVE  HasMoved(q, u)' \/ u \in q.todo \/ u = q.t
    <3>1. CASE u = t
      BY <2>2, <3>1
    <3>2. CASE u # t
      <4>1. roll'[u] = roll[u]
        BY <1>2, <2>1, <3>2
      <4>2. HasMoved(r, u) \/ u \in r.todo
        BY <1>2, <2>1, <2>2, <2>3 DEF SyncOK
      <4>. QED BY <2>2, <3>2, <4>1, <4>2 DEF HasMoved
    <3>. QED BY <3>1, <3>2
  <2>. QED BY <2>2, <2>3 DEF SyncOK
<1>7. CASE Rewritten(p)
  <2>1. /\ Becomes(p, [r EXCEPT !.at = "rollouts", !.done = @ \cup {r.t}])
        /\ roll' = [roll EXCEPT ![r.t] = Replaced(r, r.t)] /\ r.at = "write"
    BY <1>0, <1>7 DEF Rewritten, At
  <2>2. /\ q.at = "rollouts" /\ q.todo = r.todo /\ q.seen = r.seen /\ q.passed = r.passed
        /\ q.target = r.target /\ q.back = r.back /\ q.result = "skipped"
    BY <1>2, <1>3, <1>4, <2>1 DEF Works
  <2>3. ASSUME ~r.back, NEW u \in Threads, q.seen[u].prov # None PROVE HasMoved(q, u)' \/ u \in q.todo
    <3>1. CASE u = r.t
      <4>1. roll'[u] = After(r, u)
        BY <1>2, <2>1, <2>3, <3>1 DEF Replaced
      <4>2. roll'[u].prov = r.target
        BY <1>2, <4>1 DEF After, Works, Rollouts
      <4>. QED BY <2>2, <4>2 DEF HasMoved
    <3>2. CASE u # r.t
      <4>1. roll'[u] = roll[u]
        BY <1>2, <2>1, <3>2
      <4>2. HasMoved(r, u) \/ u \in r.todo
        BY <1>2, <2>1, <2>2, <2>3, <3>2 DEF SyncOK
      <4>. QED BY <2>2, <4>1, <4>2 DEF HasMoved
    <3>. QED BY <3>1, <3>2
  <2>. QED BY <2>2, <2>3 DEF SyncOK
<1>8. CASE PassedOver(p)
  <2>1. PICK t \in r.todo :
          /\ Becomes(p, [r EXCEPT !.passed = @ \cup {t},
                                  !.todo = IF r.back /\ Locked(t) THEN {} ELSE @ \ {t}])
          /\ UNCHANGED sessions /\ r.at = "rollouts"
    BY <1>0, <1>8 DEF PassedOver, At
  <2>2. /\ q.at = "rollouts" /\ (~r.back => q.todo = r.todo \ {t}) /\ q.seen = r.seen
        /\ q.passed = r.passed \cup {t} /\ q.target = r.target /\ q.back = r.back
        /\ q.result = "skipped"
    BY <1>2, <1>3, <1>4, <2>1 DEF Works
  <2>3. ASSUME ~r.back, NEW u \in Threads, q.seen[u].prov # None PROVE HasMoved(q, u)' \/ u \in q.todo
    <3>1. HasMoved(r, u) \/ u \in r.todo
      BY <1>2, <2>1, <2>2, <2>3 DEF SyncOK
    <3>. QED BY <2>1, <2>2, <2>3, <3>1 DEF HasMoved, sessions
  <2>. QED BY <2>2, <2>3 DEF SyncOK
<1>9. CASE AllRewritten(p)
  <2>1. /\ Becomes(p, [r EXCEPT !.at = IF r.back THEN "release" ELSE "catalog"])
        /\ UNCHANGED sessions /\ r.at = "rollouts" /\ r.todo = {}
    BY <1>0, <1>2, <1>9 DEF AllRewritten, At, GoesTo
  <2>2. /\ q.at = (IF r.back THEN "release" ELSE "catalog") /\ q.seen = r.seen /\ q.passed = r.passed
        /\ q.target = r.target /\ q.back = r.back /\ q.result = "skipped"
    BY <1>2, <1>3, <1>4, <2>1 DEF Works
  <2>3. ASSUME ~r.back, NEW u \in Threads, q.seen[u].prov # None PROVE HasMoved(q, u)'
    <3>1. HasMoved(r, u)
      BY <1>2, <2>1, <2>2, <2>3 DEF SyncOK
    <3>. QED BY <2>1, <2>2, <3>1 DEF HasMoved, sessions
  <2>. QED BY <2>2, <2>3 DEF SyncOK
<1>10. CASE Collected(p)
  <2>1. PICK seen : seen = [t \in Threads |-> IF Readable(t) THEN roll[t] ELSE NoRollout]
    OBVIOUS
  <2>2. PICK S : S = {t \in Threads : seen[t].prov \notin {None, r.target}}
    OBVIOUS
  <2>3. /\ Becomes(p, IF UpToDate(r.target) THEN [r EXCEPT !.at = "release", !.result = "synced", !.seen = seen]
                      ELSE [r EXCEPT !.at = "rollouts", !.seen = seen, !.was = archived, !.todo = S])
        /\ UNCHANGED sessions
    BY <1>0, <1>10, <2>1, <2>2 DEF Collected
  <2>4. \A t \in Threads : seen[t].prov # None => Readable(t) /\ seen[t] = roll[t] /\ rows[t] # None
    BY <2>1 DEF NoRollout, IInv, UnknownUntouched
  <2>5. CASE UpToDate(r.target)
    <3>1. q.at = "release" /\ q.seen = seen /\ q.target = r.target /\ q.passed = r.passed
      BY <1>2, <1>4, <2>3, <2>5 DEF Works
    <3>2. Whole(q)'
      BY <2>3, <2>4, <2>5, <3>1 DEF Whole, UpToDate, Known, sessions
    <3>. QED BY <3>1, <3>2 DEF SyncOK
  <2>6. CASE ~UpToDate(r.target)
    <3>1. q.at = "rollouts" /\ q.seen = seen /\ q.target = r.target /\ q.passed = r.passed
          /\ q.todo = S /\ q.result = "skipped"
      BY <1>2, <1>3, <1>4, <2>3, <2>6 DEF Works
    <3>2. \A t \in Threads : q.seen[t].prov # None => HasMoved(q, t)' \/ t \in q.todo
      BY <2>2, <2>3, <2>4, <3>1 DEF HasMoved, sessions
    <3>. QED BY <3>1, <3>2 DEF SyncOK
  <2>. QED BY <2>5, <2>6
<1>11. CASE CatalogMoved(p) \/ RowsMoved(p) \/ Repaired(p) \/ GlobalStateWritten(p)
  <2>1. UNCHANGED roll /\ r.at \in {"catalog", "rows", "repair", "global"}
    BY <1>0, <1>11 DEF CatalogMoved, RowsMoved, Repaired, GlobalStateWritten, At, sessions
  <2>a. PICK at \in {"rows", "repair", "global", "release"} :
           \/ Becomes(p, [r EXCEPT !.at = at])
           \/ Becomes(p, [r EXCEPT !.at = "release", !.result = "synced"])
    BY <1>0, <1>11 DEF CatalogMoved, RowsMoved, Repaired, GlobalStateWritten, GoesTo
  <2>2. /\ q.seen = r.seen /\ q.passed = r.passed /\ q.target = r.target /\ q.back = r.back
    BY <1>2, <1>4, <2>a DEF Works
  <2>3. ~r.back /\ \A t \in Threads : r.seen[t].prov # None => HasMoved(q, t)'
    BY <1>2, <2>1, <2>2 DEF SyncOK, HasMoved
  <2>4. CASE CatalogMoved(p)
    <3>1. q.at = "rows" /\ q.result = "skipped"
      BY <1>0, <1>2, <1>3, <1>4, <2>4 DEF CatalogMoved, GoesTo, Works
    <3>2. \A t \in Threads : catalog'[t] \in {None, q.target}
      BY <1>0, <2>2, <2>4 DEF CatalogMoved
    <3>. QED BY <2>2, <2>3, <3>1, <3>2 DEF SyncOK
  <2>5. CASE RowsMoved(p)
    <3>1. q.at = "repair" /\ q.result = "skipped"
      BY <1>0, <1>2, <1>3, <1>4, <2>5 DEF RowsMoved, GoesTo, Works
    <3>2. \A t \in Threads : catalog'[t] \in {None, q.target}
      BY <1>0, <1>2, <2>2, <2>5 DEF RowsMoved, SyncOK, At
    <3>3. \A t \in Threads : r.seen[t].prov # None => rows'[t] = q.target
      BY <1>0, <1>5, <2>2, <2>5 DEF RowsMoved, Known
    <3>. QED BY <2>2, <2>3, <3>1, <3>2, <3>3 DEF SyncOK
  <2>6. CASE Repaired(p)
    <3>1. q.at = "global" /\ q.result = "skipped" /\ r.at = "repair" /\ UNCHANGED rows
      BY <1>0, <1>2, <1>3, <1>4, <2>6 DEF Repaired, GoesTo, Works, At
    <3>2. \A t \in Threads : catalog'[t] \in {None, q.target}
      BY <1>0, <1>2, <2>2, <2>6, <3>1 DEF Repaired, SyncOK
    <3>3. \A t \in Threads : r.seen[t].prov # None => rows'[t] = q.target /\ catalog'[t] = q.target
      BY <1>0, <1>2, <1>3, <1>5, <2>2, <2>6, <3>1 DEF Repaired, SyncOK, Known
    <3>. QED BY <2>2, <2>3, <3>1, <3>2, <3>3 DEF SyncOK
  <2>7. CASE GlobalStateWritten(p)
    <3>1. q.at = "release" /\ r.at = "global" /\ UNCHANGED <<rows, catalog>>
      BY <1>0, <1>2, <1>4, <2>7 DEF GlobalStateWritten, Works, At, sessions
    <3>2. Whole(q)'
      BY <1>2, <2>2, <2>3, <3>1 DEF SyncOK, Whole, HasMoved
    <3>. QED BY <3>1, <3>2 DEF SyncOK
  <2>. QED BY <1>11, <2>4, <2>5, <2>6, <2>7
<1>. QED BY <1>6, <1>7, <1>8, <1>9, <1>10, <1>11

\* Each step of a finalization does its part.
LEMMA FinalizeProceeds ==
  ASSUME IInv, NEW p \in Procs, work[p].op = "finalize", FinalizeOK(work[p]),
         LookedUp(p) \/ Verified(p) \/ EntryMade(p) \/ EntryMoved(p) \/ RowMoved(p)
  PROVE  FinalizeOK(work[p])'
<1> USE ConstantsAssumption
<1>0. PICK r : r = work[p]
  OBVIOUS
<1>1. PICK q : q = work'[p]
  OBVIOUS
<1> SUFFICES FinalizeOK(q)'
  BY <1>1
<1>2. /\ r \in Works /\ ProcOK(r) /\ FinalizeOK(r) /\ r.op = "finalize" /\ r.t \in Threads
      /\ work \in [Procs -> Works] /\ r.at \notin {"release", "complete"}
      /\ roll \in [Threads -> Rollouts] /\ rows \in [Threads -> Sources] /\ catalog \in [Threads -> Sources]
  BY <1>0 DEF IInv, WorkOK, StateOK, ProcOK, LookedUp, Verified, EntryMade, EntryMoved, RowMoved, At
<1>3. r.target \in Providers /\ r.target # Openai /\ r.target # None /\ r.result = "skipped"
  BY <1>2 DEF ProcOK, Works
<1>4. \A x : Becomes(p, x) => q = x
  BY <1>1, <1>2 DEF Becomes
<1>5. rows[r.t] # None
  BY <1>0, <1>2 DEF IInv, UnknownUntouched, Names
<1>6. CASE LookedUp(p)
  <2>1. UNCHANGED sessions
    BY <1>6 DEF LookedUp
  <2>0. PICK s : s = [r EXCEPT !.was = archived]
    OBVIOUS
  <2>a. /\ s \in Works /\ s.t = r.t /\ s.target = r.target /\ s.result = "skipped" /\ s.was = archived
    <3>1. archived \in SUBSET Threads
      BY DEF IInv, StateOK
    <3>. QED BY <1>2, <1>3, <2>0, <3>1 DEF Works
  <2>2. CASE /\ q = [s EXCEPT !.at = "release", !.result = "synced"]
             /\ \/ r.t \in archived
                \/ rows[r.t] \notin {Openai, r.target}
                \/ Readable(r.t) /\ roll[r.t].prov \notin {Openai, r.target}
    <3>1. q.at = "release" /\ q.t = r.t /\ q.target = r.target /\ q.was = archived
      BY <2>a, <2>2 DEF Works
    <3>2. Third(q.t, q.target)' \/ q.t \in q.was
      BY <1>5, <2>1, <2>2, <3>1 DEF Third, sessions, Readable
    <3>. QED BY <3>1, <3>2 DEF FinalizeOK, Served
  <2>3. CASE q.at \in {"release", "rollouts"} /\ q.result = "skipped"
    BY <2>3 DEF FinalizeOK
  <2>4. PICK S :
          Becomes(p, IF r.t \in archived \/ rows[r.t] \notin {Openai, r.target}
                       THEN [s EXCEPT !.at = "release", !.result = "synced"]
                  ELSE IF ~Readable(r.t) THEN [s EXCEPT !.at = "release"]
                  ELSE IF roll[r.t].prov \notin {Openai, r.target}
                       THEN [s EXCEPT !.at = "release", !.result = "synced"]
                  ELSE [s EXCEPT !.at = "rollouts", !.seen[r.t] = roll[r.t], !.todo = S])
    <3>1. PICK S : S = IF roll[r.t].prov = Openai THEN {r.t} ELSE {}
      OBVIOUS
    <3>2. Becomes(p, IF r.t \in archived \/ rows[r.t] \notin {Openai, s.target}
                       THEN [s EXCEPT !.at = "release", !.result = "synced"]
                  ELSE IF ~Readable(r.t) THEN [s EXCEPT !.at = "release"]
                  ELSE IF roll[r.t].prov \notin {Openai, s.target}
                       THEN [s EXCEPT !.at = "release", !.result = "synced"]
                  ELSE [s EXCEPT !.at = "rollouts", !.seen[r.t] = roll[r.t], !.todo = S])
      BY <1>0, <1>6, <2>0, <3>1 DEF LookedUp
    <3>. QED BY <2>a, <3>2
  <2>5. \/ /\ q = [s EXCEPT !.at = "release", !.result = "synced"]
           /\ \/ r.t \in archived
              \/ rows[r.t] \notin {Openai, r.target}
              \/ Readable(r.t) /\ roll[r.t].prov \notin {Openai, r.target}
        \/ q = [s EXCEPT !.at = "release"]
        \/ q = [s EXCEPT !.at = "rollouts", !.seen[r.t] = roll[r.t], !.todo = S]
    BY <1>4, <2>4
  <2>6. \/ q = [s EXCEPT !.at = "release"]
        \/ q = [s EXCEPT !.at = "rollouts", !.seen[r.t] = roll[r.t], !.todo = S]
        => q.at \in {"release", "rollouts"} /\ q.result = "skipped"
    BY <2>a DEF Works
  <2>. QED BY <2>2, <2>3, <2>5, <2>6
<1>7. CASE Verified(p)
  <2>1. PICK at \in {"entry", "release"} :
          /\ q = [r EXCEPT !.at = at] /\ (at = "entry" => roll[r.t].prov = r.target)
    BY <1>0, <1>4, <1>7 DEF Verified, GoesTo
  <2>2. q.at = at /\ q.t = r.t /\ q.target = r.target /\ q.result = "skipped"
    BY <1>2, <1>3, <2>1 DEF Works
  <2>. QED BY <1>7, <2>1, <2>2 DEF FinalizeOK, Verified, sessions
<1>8. CASE EntryMade(p)
  <2>1. q = [r EXCEPT !.at = "catalog"] /\ r.at = "entry" /\ UNCHANGED <<roll, rows>>
    BY <1>0, <1>4, <1>8 DEF EntryMade, GoesTo, At
  <2>2. q.at = "catalog" /\ q.t = r.t /\ q.target = r.target /\ q.result = "skipped"
    BY <1>2, <1>3, <2>1 DEF Works
  <2>. QED BY <1>2, <2>1, <2>2 DEF FinalizeOK
<1>9. CASE EntryMoved(p)
  <2>1. /\ q = [r EXCEPT !.at = "rows"] /\ r.at = "catalog" /\ UNCHANGED <<roll, rows>>
        /\ catalog' = [catalog EXCEPT ![r.t] =
                         IF @ = Openai \/ (@ # None /\ r.op = "recover") THEN r.target ELSE @]
    BY <1>0, <1>2, <1>4, <1>9 DEF EntryMoved, At
  <2>2. q.at = "rows" /\ q.t = r.t /\ q.target = r.target /\ q.result = "skipped"
    BY <1>2, <1>3, <2>1 DEF Works
  <2>3. catalog'[r.t] # Openai
    BY <1>2, <1>3, <2>1
  <2>. QED BY <1>2, <2>1, <2>2, <2>3 DEF FinalizeOK
<1>10. CASE RowMoved(p)
  <2>1. /\ q = [r EXCEPT !.at = "release", !.result = "synced"] /\ r.at = "rows"
        /\ UNCHANGED <<roll, catalog>>
        /\ rows' = [rows EXCEPT ![r.t] = IF @ = Openai THEN r.target ELSE @]
    BY <1>0, <1>2, <1>4, <1>10 DEF RowMoved, At
  <2>2. q.at = "release" /\ q.t = r.t /\ q.target = r.target
    BY <1>2, <2>1 DEF Works
  <2>3. rows'[r.t] # Openai
    BY <1>2, <1>3, <2>1
  <2>4. roll[r.t].prov = r.target /\ catalog[r.t] # Openai
    BY <1>2, <2>1 DEF FinalizeOK
  <2>5. Served(q)'
    BY <1>3, <2>1, <2>2, <2>3, <2>4 DEF Served
  <2>. QED BY <2>2, <2>5 DEF FinalizeOK
<1>. QED BY <1>6, <1>7, <1>8, <1>9, <1>10

\* What the one that steps has achieved then.
LEMMA OwnStep ==
  ASSUME IInv, NEW p \in Procs, Process(p), up'[p] = "up",
         work[p].op = "sync" => SyncOK(work[p]),
         work[p].op = "finalize" => FinalizeOK(work[p])
  PROVE  /\ work'[p].op = "sync" => SyncOK(work[p])'
         /\ work'[p].op = "finalize" => FinalizeOK(work[p])'
<1>0. PICK r : r = work[p]
  OBVIOUS
<1>1. PICK q : q = work'[p]
  OBVIOUS
<1> DEFINE Goal == /\ q.op = "sync" => SyncOK(q)'
                   /\ q.op = "finalize" => FinalizeOK(q)'
<1> SUFFICES Goal
  BY <1>1
<1>2. /\ r \in Works /\ ProcOK(r) /\ work \in [Procs -> Works] /\ cut \subseteq cut'
      /\ q \in Works /\ ProcOK(q)
  BY <1>0, <1>1, ProcessKeepsIInv, LeftAndMarks DEF IInv, WorkOK
<1>3. \A x : Becomes(p, x) => q = x
  BY <1>1, <1>2 DEF Becomes
<1>4. ASSUME q.at \notin {"rollouts", "write", "catalog", "rows", "repair", "global", "entry", "release"}
      PROVE  Goal
  BY <1>2, <1>4, NothingPromised DEF ProcOK, Works
<1>5. ASSUME q.at = "release", q.result = "skipped" PROVE Goal
  BY <1>5, NothingPromised
<1>6. CASE Ends(p) \/ Dies(p)
  BY <1>6 DEF Ends, Dies, IInv, StateOK
<1>7. CASE SyncBegins(p) \/ FinalizeBegins(p) \/ RecoverBegins(p) \/ Enqueued(p) \/ EnqueueFails(p)
             \/ Release(p) \/ Completed(p) \/ CompleteFails(p)
  BY <1>1, <1>4, <1>7, Arriving
<1>8. CASE Lock(p)
  <2>1. CASE OwnerWritten(p)
    <3>1. q = [r EXCEPT !.at = Work(p)]
      BY <1>0, <1>3, <2>1 DEF OwnerWritten, GoesTo
    <3>2. q.op = r.op /\ q.at = Work(p)
      BY <1>2, <3>1 DEF Works
    <3>3. q.op \in {"sync", "finalize"} => q.at \in {"collect", "lookup"}
      BY <1>0, <3>2 DEF Work
    <3>. QED BY <1>4, <3>3
  <2>. QED BY <1>1, <1>4, <1>8, <2>1, Arriving DEF Lock
<1>9. CASE Moves(p)
  <2>1. r.op \in {"sync", "finalize", "recover"} /\ r.at \notin {"release", "complete"} /\ r.result = "skipped"
    BY <1>0, <1>2, <1>9, Moving DEF Working, ProcOK, StepsOf, Works, Ops
  <2>2. q.op = r.op
    <3>1. CASE Rewrite(p) \/ Rewritten(p)
      <4>1. PICK t, todo, done : \/ Becomes(p, [r EXCEPT !.at = "write", !.t = t, !.todo = todo])
                                 \/ Becomes(p, [r EXCEPT !.at = "rollouts", !.done = done])
        BY <1>0, <3>1 DEF Rewrite, Rewritten
      <4>. QED BY <1>2, <1>3, <4>1 DEF Works
    <3>2. CASE PassedOver(p)
      <4>1. PICK passed, todo : Becomes(p, [r EXCEPT !.passed = passed, !.todo = todo])
        BY <1>0, <3>2 DEF PassedOver
      <4>. QED BY <1>2, <1>3, <4>1 DEF Works
    <3>3. CASE RewriteFails(p) \/ AllRewritten(p) \/ CatalogMoved(p) \/ RowsMoved(p) \/ Repaired(p)
                 \/ Verified(p) \/ EntryMade(p) \/ OneFails(p)
      <4>1. PICK at : Becomes(p, [r EXCEPT !.at = at])
        BY <1>0, <3>3 DEF RewriteFails, AllRewritten, CatalogMoved, RowsMoved, Repaired, Verified, EntryMade,
                          OneFails, GoesTo
      <4>. QED BY <1>2, <1>3, <4>1 DEF Works
    <3>4. CASE Collected(p) \/ GlobalStateWritten(p) \/ SyncFails(p)
      <4>1. PICK seen, todo :
           \/ Becomes(p, [r EXCEPT !.at = "release"])
           \/ Becomes(p, [r EXCEPT !.at = "release", !.result = "synced"])
           \/ Becomes(p, [r EXCEPT !.at = "release", !.result = "synced", !.seen = seen])
           \/ Becomes(p, [r EXCEPT !.at = "rollouts", !.seen = seen, !.was = archived, !.todo = todo])
           \/ Becomes(p, [r EXCEPT !.at = "rollouts", !.back = TRUE, !.todo = r.done])
        BY <1>0, <3>4 DEF Collected, GlobalStateWritten, SyncFails
      <4>. QED BY <1>2, <1>3, <4>1 DEF Works
    <3>5. CASE LookedUp(p)
      <4>1. PICK s, seen, todo :
              /\ s = [r EXCEPT !.was = archived]
              /\ \/ Becomes(p, [s EXCEPT !.at = "release", !.result = "synced"])
                 \/ Becomes(p, [s EXCEPT !.at = "release"])
                 \/ Becomes(p, [s EXCEPT !.at = "rollouts", !.seen[r.t] = seen, !.todo = todo])
        BY <1>0, <3>5, LookedUpTo
      <4>2. s \in Works /\ s.op = r.op
        BY <1>2, <4>1 DEF Works, IInv, StateOK
      <4>. QED BY <1>3, <4>1, <4>2 DEF Works
    <3>6. CASE EntryMoved(p) \/ RowMoved(p)
      <4>1. \/ Becomes(p, [r EXCEPT !.at = "release", !.result = "synced"])
            \/ Becomes(p, [r EXCEPT !.at = "rows"])
        BY <1>0, <3>6 DEF EntryMoved, RowMoved
      <4>. QED BY <1>2, <1>3, <4>1 DEF Works
    <3>. QED BY <1>9, <3>1, <3>2, <3>3, <3>4, <3>5, <3>6 DEF Moves
  <2>3. CASE RewriteFails(p) \/ OneFails(p)
    <3>1. q = [r EXCEPT !.at = "release"]
      BY <1>0, <1>3, <2>3 DEF RewriteFails, OneFails, GoesTo
    <3>2. q.at = "release" /\ q.result = "skipped"
      BY <1>2, <2>1, <3>1 DEF Works
    <3>. QED BY <1>5, <3>2
  <2>4. CASE SyncFails(p)
    <3>1. \/ q = [r EXCEPT !.at = "release"]
          \/ q = [r EXCEPT !.at = "rollouts", !.back = TRUE, !.todo = r.done]
      BY <1>0, <1>3, <2>4 DEF SyncFails
    <3>2. (q.at = "release" \/ (q.at = "rollouts" /\ q.back)) /\ q.result = "skipped"
      BY <1>2, <2>1, <3>1 DEF Works
    <3>. QED BY <3>2, NothingPromised
  <2>5. CASE /\ r.op = "sync"
             /\ Rewrite(p) \/ Rewritten(p) \/ PassedOver(p) \/ AllRewritten(p) \/ Collected(p)
                  \/ CatalogMoved(p) \/ RowsMoved(p) \/ Repaired(p) \/ GlobalStateWritten(p)
    BY <1>0, <1>1, <1>2, <2>2, <2>5, SyncProceeds
  <2>6. CASE /\ r.op = "finalize"
             /\ LookedUp(p) \/ Verified(p) \/ EntryMade(p) \/ EntryMoved(p) \/ RowMoved(p)
    BY <1>0, <1>1, <2>2, <2>6, FinalizeProceeds
  <2>7. CASE /\ r.op = "finalize"
             /\ Rewrite(p) \/ Rewritten(p) \/ PassedOver(p) \/ AllRewritten(p)
    <3>1. ~r.back
      BY <1>2, <2>7 DEF ProcOK, Works
    <3>2. r.at \in {"rollouts", "write"} /\ (AllRewritten(p) => q = [r EXCEPT !.at = "verify"])
      BY <1>0, <1>3, <2>7, <3>1 DEF Rewrite, Rewritten, PassedOver, AllRewritten, At, GoesTo
    <3>3. q.at \in {"rollouts", "write", "verify"}
      <4>1. CASE AllRewritten(p)
        BY <1>2, <3>2, <4>1 DEF Works
      <4>2. CASE Rewrite(p) \/ Rewritten(p)
        <5>1. PICK t, todo, done : \/ Becomes(p, [r EXCEPT !.at = "write", !.t = t, !.todo = todo])
                                   \/ Becomes(p, [r EXCEPT !.at = "rollouts", !.done = done])
          BY <1>0, <4>2 DEF Rewrite, Rewritten
        <5>. QED BY <1>2, <1>3, <5>1 DEF Works
      <4>3. CASE PassedOver(p)
        <5>1. PICK passed, todo : Becomes(p, [r EXCEPT !.passed = passed, !.todo = todo])
          BY <1>0, <4>3 DEF PassedOver
        <5>2. q.at = r.at
          BY <1>2, <1>3, <5>1 DEF Works
        <5>. QED BY <3>2, <5>2
      <4>. QED BY <2>7, <4>1, <4>2, <4>3
    <3>4. q.result = "skipped"
      BY <1>2, <3>3 DEF ProcOK, Works
    <3>. QED BY <2>2, <2>7, <3>3, <3>4, NothingPromised
  <2>8. r.op = "sync" => ~(LookedUp(p) \/ Verified(p) \/ EntryMade(p) \/ EntryMoved(p) \/ RowMoved(p))
    BY <1>0, <1>2 DEF LookedUp, Verified, EntryMade, EntryMoved, RowMoved, At, ProcOK, StepsOf, Entering
  <2>9. r.op = "finalize" => ~(Collected(p) \/ CatalogMoved(p) \/ RowsMoved(p) \/ Repaired(p)
                                 \/ GlobalStateWritten(p))
    BY <1>0, <1>2 DEF Collected, CatalogMoved, RowsMoved, Repaired, GlobalStateWritten, At, ProcOK, StepsOf,
                      Entering
  <2>10. CASE r.op = "recover"
    BY <2>2, <2>10
  <2>. QED BY <1>9, <2>1, <2>3, <2>4, <2>5, <2>6, <2>7, <2>8, <2>9, <2>10 DEF Moves
<1>. QED BY <1>6, <1>7, <1>8, <1>9 DEF Process

\* The others are kept out by the lock, and Codex writes to no provider of a known session.
LEMMA NextSInv == IInv /\ KInv /\ SInv /\ [Next]_vars => SInv'
<1> USE ConstantsAssumption
<1> SUFFICES ASSUME IInv, KInv, SInv, [Next]_vars, ~stolen', NEW x \in Procs, up'[x] = "up"
             PROVE  /\ work'[x].op = "sync" => SyncOK(work[x])'
                    /\ work'[x].op = "finalize" => FinalizeOK(work[x])'
    BY DEF SInv
<1>0. PICK r : r = work[x]
  OBVIOUS
<1>1. /\ ProcOK(r) /\ r \in Works /\ stolen \in BOOLEAN
      /\ \A t \in Threads : rows[t] = None => ~Names(r, t)
  BY <1>0 DEF IInv, WorkOK, StateOK, UnknownUntouched
<1>2. ASSUME ~stolen, up[x] = "up", work'[x] = r, cut \subseteq cut', UNCHANGED catalog,
             \A u \in Threads : rows[u] # None => roll'[u].prov = roll[u].prov /\ rows'[u] = rows[u]
      PROVE  /\ work'[x].op = "sync" => SyncOK(work[x])'
             /\ work'[x].op = "finalize" => FinalizeOK(work[x])'
  <2>1. /\ r.op = "sync" => SyncOK(r)
        /\ r.op = "finalize" => FinalizeOK(r)
    BY <1>0, <1>2 DEF SInv
  <2>2. /\ r.op = "sync" => SyncOK(r)'
        /\ r.op = "finalize" => FinalizeOK(r)'
    BY <1>1, <1>2, <2>1, Stable
  <2>. QED BY <1>2, <2>2
<1>3. ASSUME NEW p \in Procs, Process(p)
      PROVE  /\ work'[x].op = "sync" => SyncOK(work[x])'
             /\ work'[x].op = "finalize" => FinalizeOK(work[x])'
  <2>1. ~stolen /\ up[x] = "up" /\ OwnLock /\ Alone /\ Dead /\ cut \subseteq cut'
    BY <1>1, <1>3, LeftAndMarks DEF KInv, IInv, StateOK
  <2>2. CASE x = p
    BY <1>3, <2>1, <2>2, OwnStep DEF SInv
  <2>3. CASE x # p /\ UNCHANGED sessions
    BY <1>0, <1>2, <1>3, <2>1, <2>3, OthersStand DEF sessions
  <2>4. CASE x # p /\ Writes(p)
    <3>1. Holds(p)
      BY <2>4, Moving DEF Writes, Moves, Holds, Working, Locking, At
    <3>2. ~Holds(x)
      BY <2>1, <2>4, <3>1 DEF Alone
    <3>3. PICK q : q = r /\ q = work'[x]
      BY <1>0, <1>3, <2>4, OthersStand
    <3>4. q.at \notin Locking
      BY <1>0, <2>1, <3>2, <3>3 DEF Holds
    <3>5. q.result = "skipped"
      BY <1>1, <3>3, <3>4 DEF ProcOK, Works, Locking
    <3>6. /\ q.op = "sync" => SyncOK(q)'
          /\ q.op = "finalize" => FinalizeOK(q)'
      BY <3>4, <3>5, NothingPromised DEF Locking
    <3>. QED BY <3>3, <3>6
  <2>. QED BY <1>3, <2>2, <2>3, <2>4, OthersLeaveSessions
<1>4. CASE \/ CodexStarts \/ CodexStops \/ ConfigSwitched \/ UNCHANGED vars
           \/ \E t \in Threads : CodexArchives(t)
  <2>1. UNCHANGED <<roll, rows, catalog, up, work, histories>>
    BY <1>4 DEF CodexStarts, CodexStops, ConfigSwitched, CodexArchives, sessions, vars
  <2>. QED BY <1>0, <1>2, <2>1 DEF sessions, histories
<1>5. ASSUME NEW t \in Threads, CodexCreates(t)
      PROVE  /\ work'[x].op = "sync" => SyncOK(work[x])'
             /\ work'[x].op = "finalize" => FinalizeOK(work[x])'
  <2>1. /\ UNCHANGED <<catalog, up, work, cut, stolen>> /\ rows[t] = None
        /\ roll' = [roll EXCEPT ![t] = [prov |-> Openai, lines |-> 0]]
        /\ rows' = [rows EXCEPT ![t] = Openai]
    BY <1>5 DEF CodexCreates, Known, histories
  <2>2. \A u \in Threads : rows[u] # None => roll'[u].prov = roll[u].prov /\ rows'[u] = rows[u]
    BY <2>1 DEF IInv, StateOK
  <2>. QED BY <1>0, <1>2, <2>1, <2>2
<1>6. ASSUME NEW t \in Threads, CodexAppends(t)
      PROVE  /\ work'[x].op = "sync" => SyncOK(work[x])'
             /\ work'[x].op = "finalize" => FinalizeOK(work[x])'
  <2>1. /\ UNCHANGED <<rows, catalog, up, work, cut, stolen>>
        /\ roll' = [roll EXCEPT ![t].lines = @ + 1]
    BY <1>6 DEF CodexAppends
  <2>2. \A u \in Threads : rows[u] # None => roll'[u].prov = roll[u].prov /\ rows'[u] = rows[u]
    BY <2>1 DEF IInv, StateOK, Rollouts
  <2>. QED BY <1>0, <1>2, <2>1, <2>2
<1>. QED BY <1>3, <1>4, <1>5, <1>6 DEF Next, Process

\* All three together.
LEMMA Achievements == Spec => [](IInv /\ KInv /\ SInv)
<1>1. Init => KInv /\ SInv
  BY DEF Init, KInv, SInv, OwnLock, Alone, Dead, Holds, Locking, At, Idle
<1>. QED BY <1>1, InitOK, NextIInv, NextLock, NextSInv, PTL DEF Spec

\* A synchronisation that reports success has moved what it found, unless its lock was taken away.
THEOREM SuccessIsWhole == Spec => SyncedIsWhole
<1>1. IInv /\ SInv => [\A p \in Procs : (Release(p) /\ work[p].op = "sync" /\ work[p].result = "synced" /\ ~stolen)
                            => Whole(work[p])]_vars
  BY DEF SInv, SyncOK, Release, At
<1>. QED BY <1>1, Achievements, PTL DEF SyncedIsWhole

\* A queued session that was not archived is done with only when it is served, or another provider's.
THEOREM DoneIsServed == Spec => CompletedIsServed
<1>1. IInv /\ SInv =>
        [\A p \in Procs :
          (/\ Release(p) /\ work[p].op = "finalize" /\ work[p].result = "synced" /\ ~stolen
           /\ work[p].t \notin work[p].was) =>
          LET t == work[p].t IN \/ Openai \notin {roll[t].prov, rows[t], catalog[t]}
                                \/ Third(t, work[p].target)]_vars
  BY DEF SInv, FinalizeOK, Served, Release, At
<1>. QED BY <1>1, Achievements, PTL DEF CompletedIsServed
=============================================================================
