------------------------- MODULE SessionStorageProofs -------------------------
(***************************************************************************)
(* For any number of sessions, databases and backups, and whatever fails or *)
(* dies: nothing of a session is lost, a deletion can be undone, an undo    *)
(* brings back what it says, and the sweep takes nothing that is not kept.  *)
(***************************************************************************)
EXTENDS SessionStorage, WellFoundedInduction, TLAPS

-----------------------------------------------------------------------------
(* The least and the greatest of a set of tokens are in it.                 *)
LEMMA LeastMember ==
  ASSUME NEW S \in SUBSET Nat, S # {} PROVE \E x \in S : \A y \in S : x =< y
<1> DEFINE R == OpToRel(<, Nat)
<1>1. IsWellFoundedOn(R, Nat)
  BY NatLessThanWellFounded
<1>2. \A x \in Nat, y \in Nat : y < x => <<y, x>> \in R
  BY DEF OpToRel
<1> HIDE DEF R
<1>3. \E x \in S : \A y \in S : ~ (<<y, x>> \in R)
  BY <1>1, WFMin
<1>4. PICK x \in S : \A y \in S : ~ (<<y, x>> \in R)
  BY <1>3
<1>5. \A y \in S : ~(y < x) /\ y \in Nat /\ x \in Nat
  BY <1>2, <1>4
<1>6. \A y \in S : x =< y
  BY <1>5
<1> QED BY <1>6

LEMMA MinMember ==
  ASSUME NEW S \in SUBSET Nat, S # {} PROVE Min(S) \in S
  BY LeastMember DEF Min

LEMMA MaxMember ==
  ASSUME NEW S \in SUBSET Nat, S # {}, NEW n \in Nat, \A x \in S : x <= n PROVE Max(S) \in S
<1> DEFINE U == {m \in Nat : \A x \in S : x <= m}
<1>1. U \subseteq Nat /\ U # {}
  OBVIOUS
<1>2. \E m \in U : \A y \in U : m =< y
  BY <1>1, LeastMember
<1>3. PICK m \in U : \A y \in U : m =< y
  BY <1>2
<1>4. m \in S
  <2> SUFFICES ASSUME m \notin S PROVE FALSE
    OBVIOUS
  <2>1. \A x \in S : x < m
    BY <1>3
  <2>2. m \in Nat /\ m # 0 /\ \A x \in S : x <= m - 1
    <3>1. PICK x0 \in S : x0 < m
      BY <2>1
    <3>2. m \in Nat /\ x0 \in Nat
      BY <1>3
    <3>3. \A x \in S : x \in Nat /\ x < m
      BY <2>1
    <3> HIDE DEF U
    <3> QED BY <3>1, <3>2, <3>3
  <2>3. m - 1 \in Nat /\ ~(m =< m - 1)
    BY <2>2
  <2>4. m - 1 \in U
    BY <2>2, <2>3
  <2> HIDE DEF U
  <2> QED BY <1>3, <2>3, <2>4
<1>5. \E x \in S : \A y \in S : x >= y
  BY <1>3, <1>4
<1> QED BY <1>5 DEF Max

-----------------------------------------------------------------------------
(* What a worker's record r says fits the backups B: the tokens it uses are *)
(* written; those of a deletion or an undo are of its one session; a        *)
(* deletion that has committed has the backup of what it took; whoever is   *)
(* to remove entries of a session has a backup of that session.             *)
Fields == {"op", "at", "step", "s", "db", "token", "good", "bad", "done", "seen", "toks", "todo",
           "cache", "blind", "had"}
Editing    == {"index", "again", "global"}
Committing == {"commit", "rollout"} \cup Editing
Stage(r) ==
    \/ r \in {Idle, Down}
    \/ r.op = "delete" /\ r.at \in {"look", "report"} \cup Committing
    \/ r.op = "clear"  /\ r.at \in {"save", "index", "global", "report"}
    \/ r.op = "undo"   /\ r.at \in {"check", "rows", "rollout", "index", "global", "verify", "record",
                                    "report"}
    \/ r.op = "sweep"  /\ r.at \in {"judge", "snapshot", "index", "global"}

Uses(r) == ({r.token} \cup r.good \cup r.bad \cup r.toks) \ {0}
OneSession(r, B) == \E s \in Sessions : r.s = {s} /\ \A k \in Uses(r) : B[k].s = s

Deleting(r, B) ==
    /\ r.op = "delete" /\ r.at \in Committing =>
          r.s \subseteq Threads /\ r.token # 0 /\ B[r.token].db = r.db
    /\ r.op = "delete" /\ r.at \in Committing \ {"commit"} => r.token \in r.good
Clearing(r, B) ==
    r.op = "clear" /\ r.at \in Editing => \A a \in r.s \cap Apis : \E k \in DOMAIN B : B[k].s = a
Sweeping(r, B) ==
    /\ r.op = "sweep" => \A s \in r.todo : \E k \in r.toks : B[k].s = s
    /\ r.op = "sweep" /\ r.at # "judge" => r.token # 0 /\ r.s = {B[r.token].s}
Restoring == {"rows", "rollout", "index", "global", "verify"}
Undoing(r) ==
    r.op = "undo" => /\ r.toks # {} /\ r.good \subseteq r.toks
                     /\ r.at \in Restoring => r.token \in r.toks

Fits(w, r, B) ==
    /\ DOMAIN r = Fields /\ Stage(r)
    /\ r.s \subseteq Sessions /\ r.seen \subseteq Sessions /\ r.db \in Dbs
    /\ Uses(r) \subseteq DOMAIN B /\ 0 \notin r.good \cup r.toks
    /\ r.op \in {"undo", "sweep"} => w = "launcher"
    /\ r.op \in {"delete", "clear", "undo"} => OneSession(r, B)
    /\ Deleting(r, B) /\ Clearing(r, B) /\ Sweeping(r, B) /\ Undoing(r)

(* Backups are only ever added.                                             *)
Grown(B, C) == DOMAIN B \subseteq DOMAIN C /\ \A k \in DOMAIN B : C[k] = B[k]

(* Two records that differ in the step they are at; a record that has read  *)
(* no more than another.                                                    *)
Same(q, r) ==
    /\ DOMAIN q = Fields /\ q.op = r.op /\ q.s = r.s /\ q.db = r.db /\ q.token = r.token
    /\ q.good = r.good /\ q.bad = r.bad /\ q.toks = r.toks /\ q.todo = r.todo /\ q.had = r.had
Quiet(q, r) == q.step = "write" => r.step = "write" /\ q.seen = r.seen

LEMMA IdleFields ==
  /\ DOMAIN Idle = Fields /\ DOMAIN Down = Fields
  /\ Idle.op = "none" /\ Down.op = "none" /\ Idle.at = "idle" /\ Down.at = "down"
  /\ Idle.s = {} /\ Down.s = {} /\ Idle.token = 0 /\ Down.token = 0
  /\ Idle.good = {} /\ Down.good = {} /\ Idle.bad = {} /\ Down.bad = {}
  /\ Idle.toks = {} /\ Down.toks = {} /\ Idle.seen = {} /\ Down.seen = {}
  /\ Idle.todo = {} /\ Down.todo = {} /\ Idle.db = 1 /\ Down.db = 1
  /\ Idle.step = "read" /\ Down.step = "read" /\ Idle.done = FALSE /\ Down.done = FALSE
  BY DEF Idle, Down, Fields

LEMMA FitsIdle ==
  ASSUME NEW w, NEW B PROVE Fits(w, Idle, B) /\ Fits(w, Down, B)
<1>1. 1 \in Dbs
  BY SomeDbs DEF Dbs
<1> QED
  BY <1>1, IdleFields DEF Fits, Stage, Uses, Deleting, Clearing, Sweeping, Undoing

LEMMA FitsGrown ==
  ASSUME NEW w, NEW r, NEW B, NEW C, Fits(w, r, B), Grown(B, C)
  PROVE  Fits(w, r, C)
<1> USE DEF Fits, Grown
<1>1. \A k \in Uses(r) : C[k] = B[k]
  OBVIOUS
<1>2. r.op \in {"delete", "clear", "undo"} => OneSession(r, C)
  BY <1>1 DEF OneSession
<1>3. r.token # 0 => r.token \in Uses(r)
  BY DEF Uses
<1>4. Deleting(r, C) /\ Clearing(r, C)
  BY <1>1, <1>3 DEF Deleting, Clearing
<1>5. r.toks \subseteq Uses(r)
  BY DEF Uses
<1>6. Sweeping(r, C)
  BY <1>1, <1>3, <1>5 DEF Sweeping, Undoing
<1> QED BY <1>2, <1>4, <1>6

LEMMA FitsSame ==
  ASSUME NEW w, NEW r, NEW q, NEW B, Fits(w, r, B), Same(q, r), Stage(q), q.seen \in {{}, r.seen},
         Deleting(q, B), Clearing(q, B), Sweeping(q, B), Undoing(q)
  PROVE  Fits(w, q, B)
<1>1. Uses(q) = Uses(r)
  BY DEF Uses, Same
<1> QED BY <1>1 DEF Fits, Same, OneSession

(* From one step of its operation to another that assumes no more.          *)
StageOf(op, a) ==
    \/ op = "delete" /\ a \in {"look", "report"} \cup Committing
    \/ op = "clear"  /\ a \in {"save", "index", "global", "report"}
    \/ op = "undo"   /\ a \in {"check", "rows", "rollout", "index", "global", "verify", "record",
                                 "report"}
    \/ op = "sweep"  /\ a \in {"judge", "snapshot", "index", "global"}
AsSure(r, a) ==
    /\ StageOf(r.op, a)
    /\ r.op = "delete" /\ a \in Committing => r.at \in Committing
    /\ r.op = "delete" /\ a \in Committing \ {"commit"} => r.at \in Committing \ {"commit"}
    /\ r.op = "clear" /\ a \in Editing => r.at \in Editing
    /\ r.op = "sweep" /\ a # "judge" => r.at # "judge"
    /\ r.op = "undo" /\ a \in Restoring => r.at \in Restoring

LEMMA FitsAt ==
  ASSUME NEW w, NEW r, NEW B, NEW a, Fits(w, r, B), AsSure(r, a)
  PROVE  /\ Fits(w, [r EXCEPT !.at = a], B) /\ Quiet([r EXCEPT !.at = a], r)
         /\ [r EXCEPT !.at = a].step = r.step
<1> DEFINE q == [r EXCEPT !.at = a]
<1>1. Same(q, r) /\ q.at = a /\ q.seen = r.seen /\ q.step = r.step
  BY DEF Fits, Fields, Same
<1> HIDE DEF q
<1>2. Stage(q)
  BY <1>1 DEF AsSure, Stage, StageOf, Same
<1>3. Deleting(q, B) /\ Clearing(q, B) /\ Sweeping(q, B) /\ Undoing(q)
  BY <1>1 DEF AsSure, Same, Fits, Deleting, Clearing, Sweeping, Undoing
<1>4. Fits(w, q, B) /\ Quiet(q, r)
  BY <1>1, <1>2, <1>3, FitsSame DEF Quiet
<1> QED BY <1>1, <1>4 DEF q

(* The fields that the next database leaves as they are.                    *)
LEMMA NextDbFields ==
  ASSUME NEW r, DOMAIN r = Fields, r.db \in Dbs, r.op = "delete"
  PROVE  LET q == NextDb(r) IN
         /\ DOMAIN q = Fields /\ q.s = r.s /\ q.good = r.good /\ q.bad = r.bad /\ q.toks = r.toks
         /\ q.todo = r.todo /\ q.step = r.step /\ q.seen = r.seen /\ q.had = r.had
         /\ q.db \in Dbs /\ q.token \in {0, r.token}
         /\ \/ q.op = "delete" /\ q.at = "look"
            \/ q.op = "clear" /\ q.at = "save" /\ r.good = {} /\ r.bad = {}
            \/ q.op = "delete" /\ q.at = "report"
  BY SomeDbs DEF NextDb, Fields, Dbs

LEMMA FitsNextDb ==
  ASSUME NEW w, NEW r, NEW B, Fits(w, r, B), r.op = "delete"
  PROVE  Fits(w, NextDb(r), B) /\ Quiet(NextDb(r), r)
<1> DEFINE q == NextDb(r)
<1>1. /\ DOMAIN q = Fields /\ q.s = r.s /\ q.good = r.good /\ q.bad = r.bad /\ q.toks = r.toks
      /\ q.step = r.step /\ q.seen = r.seen /\ q.db \in Dbs /\ q.token \in {0, r.token}
      /\ \/ q.op = "delete" /\ q.at \in {"look", "report"}
         \/ q.op = "clear" /\ q.at = "save"
  BY NextDbFields DEF Fits
<1> HIDE DEF q
<1>2. Uses(q) \subseteq Uses(r)
  BY <1>1 DEF Uses
<1>3. Fits(w, q, B) /\ Quiet(q, r)
  BY <1>1, <1>2 DEF Fits, Stage, OneSession, Deleting, Clearing, Sweeping, Undoing, Committing, Editing, Quiet
<1> QED BY <1>3 DEF q

(* The sweep is done with a session, now or until the next start.           *)
LEMMA FitsJudged ==
  ASSUME NEW w, NEW r, NEW B, Fits(w, r, B), r.op = "sweep"
  PROVE  Fits(w, Defers(r), B) /\ Quiet(Defers(r), r)
<1>1. /\ DOMAIN Defers(r) = Fields /\ Defers(r).op = "sweep" /\ Defers(r).at = "judge"
      /\ Defers(r).s = {} /\ Defers(r).token = 0 /\ Defers(r).good = r.good /\ Defers(r).bad = r.bad
      /\ Defers(r).toks = r.toks /\ Defers(r).todo \subseteq r.todo /\ Defers(r).seen = r.seen /\ Defers(r).step = r.step
      /\ Defers(r).db = r.db
  BY DEF Defers, Fits, Fields
<1> DEFINE q == Defers(r)
<1> HIDE DEF q
<1>2. Fits(w, q, B) /\ Quiet(q, r)
  BY <1>1 DEF q, Fits, Stage, Uses, OneSession, Deleting, Clearing, Sweeping, Undoing, Quiet
<1> QED BY <1>2 DEF q

LEMMA FitsMarked ==
  ASSUME NEW w, NEW r, Fits(w, r, backups), r.op = "sweep"
  PROVE  Fits(w, Marks(r), backups) /\ Quiet(Marks(r), r)
<1> DEFINE q == [r EXCEPT !.good = @ \cup {k \in r.toks : backups[k].s \in r.s}]
<1>1. /\ DOMAIN q = Fields /\ q.op = "sweep" /\ q.at = r.at /\ q.s = r.s /\ q.token = r.token
      /\ q.good = r.good \cup {k \in r.toks : backups[k].s \in r.s} /\ q.bad = r.bad /\ q.toks = r.toks
      /\ q.todo = r.todo /\ q.seen = r.seen /\ q.db = r.db /\ q.step = r.step
  BY DEF Fits, Fields
<1> HIDE DEF q
<1>2. Uses(q) \subseteq Uses(r) /\ 0 \notin q.good
  BY <1>1 DEF Uses, Fits
<1>3. Fits(w, q, backups)
  BY <1>1, <1>2, IdleFields DEF Fits, Stage, OneSession, Deleting, Clearing, Sweeping, Undoing
<1>4. Fits(w, Defers(q), backups) /\ Quiet(Defers(q), r)
  BY <1>1, <1>3, FitsJudged DEF Quiet
<1> QED BY <1>4 DEF q, Marks

(* What an edit leads to.                                                   *)
Outcomes == {"nothing", "done", "changed", "error"}
LEMMA FitsAfterEdit ==
  ASSUME NEW w, NEW r0, Fits(w, r0, backups), r0.at \in Editing, NEW o \in Outcomes
  PROVE  Fits(w, AfterEdit(r0, o), backups) /\ AfterEdit(r0, o).step # "write"
<1> DEFINE r == [r0 EXCEPT !.step = "read", !.seen = {}]
           failed == o \in {"changed", "error"}
           A == AfterEdit(r0, o)
<1>1. Same(r, r0) /\ r.at = r0.at /\ r.seen = {} /\ r.step = "read" /\ DOMAIN r = Fields
  BY DEF Fits, Fields, Same
<1>2. r0.op \in {"delete", "clear", "undo", "sweep"} /\ r.op = r0.op
  BY <1>1, IdleFields DEF Fits, Stage, Editing, Same
<1>3. A = CASE r.op = "delete" ->
               (IF r.at = "index" THEN [r EXCEPT !.at = "again"]
                ELSE IF r.at = "again" THEN [r EXCEPT !.at = "global"] ELSE NextDb(r))
          [] r.op = "clear" ->
               [r EXCEPT !.at = IF @ = "index" THEN "global" ELSE "report", !.done = @ \/ o = "done"]
          [] r.op = "undo" ->
               (IF failed /\ ~HasDbRows(r.token) THEN [r EXCEPT !.at = "record"]
                ELSE [r EXCEPT !.at = IF @ = "index" THEN "global" ELSE "verify"])
          [] r.op = "sweep" ->
               (IF r.at = "index"
                THEN IF o = "error" \/ (r.done /\ o # "done") THEN Defers(r) ELSE [r EXCEPT !.at = "global"]
                ELSE IF failed THEN Defers(r) ELSE Marks(r))
  BY DEF AfterEdit
<1> HIDE DEF r, failed, A
<1>4. Fits(w, r, backups)
  <2>1. Stage(r)
    BY <1>1, <1>2, IdleFields DEF Fits, Stage, Same
  <2>2. Deleting(r, backups) /\ Clearing(r, backups) /\ Sweeping(r, backups) /\ Undoing(r)
    BY <1>1 DEF Fits, Same, Deleting, Clearing, Sweeping, Undoing
  <2> QED BY <1>1, <2>1, <2>2, FitsSame
<1>5. \A a : AsSure(r, a) => Fits(w, [r EXCEPT !.at = a], backups) /\ [r EXCEPT !.at = a].step # "write"
  BY <1>1, <1>4, FitsAt
<1>6. CASE r0.op = "delete"
  <2>1. AsSure(r, "again") /\ AsSure(r, "global")
    BY <1>1, <1>2, <1>6 DEF AsSure, StageOf, Committing, Editing
  <2>2. Fits(w, NextDb(r), backups) /\ NextDb(r).step # "write"
    BY <1>1, <1>2, <1>4, <1>6, FitsNextDb DEF Quiet
  <2>3. A \in {[r EXCEPT !.at = "again"], [r EXCEPT !.at = "global"], NextDb(r)}
    BY <1>2, <1>3, <1>6
  <2> QED BY <1>5, <2>1, <2>2, <2>3 DEF A
<1>7. CASE r0.op = "clear"
  <2> DEFINE q == [r EXCEPT !.at = IF @ = "index" THEN "global" ELSE "report", !.done = @ \/ o = "done"]
  <2>1. A = q
    BY <1>2, <1>3, <1>7
  <2>2. Same(q, r) /\ q.at = (IF r.at = "index" THEN "global" ELSE "report") /\ q.seen = {} /\ q.step = "read"
    BY <1>1 DEF Same, Fields
  <2> HIDE DEF q
  <2>3. Stage(q)
    BY <1>2, <1>7, <2>2 DEF Stage, Same
  <2>4. Deleting(q, backups) /\ Clearing(q, backups) /\ Sweeping(q, backups) /\ Undoing(q)
    BY <1>1, <1>2, <1>4, <1>7, <2>2 DEF Fits, Same, Deleting, Clearing, Sweeping, Undoing
  <2>5. Fits(w, q, backups)
    BY <1>1, <1>4, <2>2, <2>3, <2>4, FitsSame
  <2> QED BY <2>1, <2>2, <2>5 DEF A
<1>8. CASE r0.op = "undo"
  <2>0. r.at \in Restoring /\ r.op = "undo"
    <3>1. r.at \in {"index", "global"} /\ r.op = "undo"
      BY <1>1, <1>2, <1>8, IdleFields DEF Fits, Stage, Editing
    <3> QED BY <3>1 DEF Restoring
  <2>1. \A a \in {"record", "global", "verify"} : AsSure(r, a)
    BY <2>0 DEF AsSure, StageOf
  <2>2. \E a \in {"record", "global", "verify"} : A = [r EXCEPT !.at = a]
    BY <1>2, <1>3, <1>8
  <2> QED BY <1>5, <2>1, <2>2 DEF A
<1>9. CASE r0.op = "sweep"
  <2>1. AsSure(r, "global")
    BY <1>1, <1>2, <1>9 DEF AsSure, StageOf, Editing
  <2>2. A \in {[r EXCEPT !.at = "global"], Defers(r), Marks(r)}
    BY <1>2, <1>3, <1>9
  <2>3. /\ Fits(w, Defers(r), backups) /\ Fits(w, Marks(r), backups)
        /\ Defers(r).step # "write" /\ Marks(r).step # "write"
    BY <1>1, <1>2, <1>4, <1>9, FitsJudged, FitsMarked DEF Quiet
  <2> QED BY <1>5, <2>1, <2>2, <2>3 DEF A
<1> QED BY <1>2, <1>6, <1>7, <1>8, <1>9

(* What the failure of a step leads to.                                     *)
LEMMA FitsFailed ==
  ASSUME NEW w, NEW r, Fits(w, r, backups), r.at \notin {"idle", "down", "record", "report"}
  PROVE  Fits(w, AfterFailure(r), backups) /\ Quiet(AfterFailure(r), r)
<1>0. r.op \in {"delete", "clear", "undo", "sweep"} /\ DOMAIN r = Fields
  BY IdleFields DEF Fits, Stage
<1>1. CASE r.at = "look" \/ r.at = "commit"
  <2>1. PICK t \in {0, r.token} : AfterFailure(r) = NextDb([r EXCEPT !.bad = @ \cup {t}])
    BY <1>1 DEF AfterFailure
  <2> DEFINE q == [r EXCEPT !.bad = @ \cup {t}]
  <2>2. /\ DOMAIN q = Fields /\ q.op = r.op /\ q.at = r.at /\ q.s = r.s /\ q.token = r.token
        /\ q.good = r.good /\ q.bad = r.bad \cup {t} /\ q.toks = r.toks /\ q.todo = r.todo
        /\ q.seen = r.seen /\ q.db = r.db /\ q.step = r.step
    BY <1>0 DEF Fields
  <2>3. r.op = "delete"
    BY <1>1, IdleFields DEF Fits, Stage
  <2> HIDE DEF q
  <2>4. Uses(q) = Uses(r)
    BY <2>2 DEF Uses
  <2>5. Stage(q)
    BY <2>2, <2>3, IdleFields DEF Fits, Stage
  <2>6. Fits(w, q, backups)
    BY <2>2, <2>3, <2>4, <2>5 DEF Fits, OneSession, Deleting, Clearing, Sweeping, Undoing
  <2>7. Fits(w, NextDb(q), backups) /\ Quiet(NextDb(q), r)
    BY <2>2, <2>3, <2>6, FitsNextDb DEF Quiet
  <2> QED BY <2>1, <2>7 DEF q
<1>2. CASE r.at = "rollout" /\ r.op = "delete"
  <2>1. AsSure(r, "index") /\ AfterFailure(r) = [r EXCEPT !.at = "index"]
    BY <1>2 DEF AfterFailure, AsSure, StageOf, Committing, Editing
  <2> QED BY <2>1, FitsAt
<1>3. CASE r.at = "save"
  <2>0. r.op = "clear"
    BY <1>3, IdleFields DEF Fits, Stage, Committing, Editing
  <2>1. AsSure(r, "report") /\ AfterFailure(r) = [r EXCEPT !.at = "report"]
    BY <1>3, <2>0 DEF AfterFailure, AsSure, StageOf, Committing, Editing
  <2> QED BY <2>1, FitsAt
<1>4. CASE r.at \in {"index", "again", "global"}
  <2>1. AfterFailure(r) = AfterEdit(r, "error")
    BY <1>4 DEF AfterFailure
  <2> QED BY <1>4, <2>1, FitsAfterEdit DEF Outcomes, Editing, Quiet
<1>5. CASE r.at \in {"judge", "snapshot"}
  <2>1. AfterFailure(r) = Defers(r)
    BY <1>5 DEF AfterFailure
  <2>2. r.op = "sweep"
    BY <1>5, IdleFields DEF Fits, Stage, Committing, Editing
  <2> QED BY <2>1, <2>2, FitsJudged
<1>6. CASE r.at \in {"check", "rows", "verify"} \/ (r.at = "rollout" /\ r.op # "delete")
  <2>0. r.op = "undo"
    BY <1>6, IdleFields DEF Fits, Stage, Committing, Editing
  <2>1. AfterFailure(r) = [r EXCEPT !.at = "record"]
    BY <1>6, <2>0 DEF AfterFailure, GivesUp
  <2>2. AsSure(r, "record")
    BY <2>0 DEF AsSure, StageOf, Restoring
  <2> QED BY <2>1, <2>2, FitsAt
<1>7. r.at \in {"look", "commit", "rollout", "save", "index", "again", "global", "judge", "snapshot", "check",
               "rows", "verify"}
  BY IdleFields DEF Fits, Stage, Committing, Editing
<1> QED BY <1>1, <1>2, <1>3, <1>4, <1>5, <1>6, <1>7

-----------------------------------------------------------------------------
(* The invariant.  A row or a rollout that is gone is in a backup; a        *)
(* session of the pure API mode has a backup as soon as anything has been   *)
(* taken from it, in a file, in the memory of Codex or in a file as a worker *)
(* has read it.                                                             *)
BackupType == [s : Sessions, db : 0 .. NumDbs, row : Versions, roll : Versions, entries : SUBSET Files]
GoodBackup(b) ==
    /\ b.db = 0 => b.entries # {}
    /\ b.db # 0 => b.row # "none" /\ b.s \in Threads
GoodBackups(B) ==
    /\ B \in Seq(BackupType) /\ Len(B) <= MaxBackups
    /\ \A k \in DOMAIN B : GoodBackup(B[k])
GoodTokens(T, B) == T # {} /\ T \subseteq DOMAIN B /\ \E s \in Sessions : \A k \in T : B[k].s = s

DiskOK ==
    /\ rows \in [Threads -> [Dbs -> Versions]]
    /\ rollout \in [Threads -> Versions]
    /\ file \in [Files -> SUBSET Sessions]
    /\ sidecar \in [Tokens -> SUBSET Files]
    /\ marked \subseteq Written
    /\ \A T \in offered : GoodTokens(T, backups)
    /\ codex.mem \subseteq Sessions /\ codex.open \subseteq Sessions
WorkOK == DOMAIN work = Workers /\ \A w \in Workers : Fits(w, work[w], backups)

RowsKept ==
    \A t \in Threads :
       /\ \A d \in Dbs : rows[t][d] # "none" \/ \E k \in Written : backups[k].s = t /\ backups[k].db = d
       /\ rollout[t] # "none" \/ \E k \in Written : backups[k].s = t /\ backups[k].roll # "none"

Untouched(a) ==
    /\ \A f \in Files : a \in file[f]
    /\ codex.on => a \in codex.mem
    /\ \A w \in Workers : work[w].step = "write" => a \in work[w].seen
ApisKept == \A a \in Apis : (\E k \in Written : backups[k].s = a) \/ Untouched(a)

IInv == GoodBackups(backups) /\ DiskOK /\ WorkOK /\ RowsKept /\ ApisKept

(* Backups are added at the end.                                            *)
LEMMA AppendGrows ==
  ASSUME NEW B, NEW b \in BackupType, GoodBackups(B), GoodBackup(b), Len(B) < MaxBackups
  PROVE  LET C == Append(B, b) IN
         /\ GoodBackups(C) /\ Grown(B, C)
         /\ Len(B) + 1 \in DOMAIN C /\ C[Len(B) + 1] = b
         /\ Len(B) + 1 # 0 /\ Len(B) + 1 \notin DOMAIN B
<1> DEFINE C == Append(B, b)
<1>1. C \in Seq(BackupType) /\ Len(C) = Len(B) + 1 /\ DOMAIN C = 1 .. Len(B) + 1 /\ DOMAIN B = 1 .. Len(B)
  BY DEF GoodBackups
<1>2. \A k \in DOMAIN B : C[k] = B[k]
  BY DEF GoodBackups
<1>3. C[Len(B) + 1] = b /\ Len(B) \in Nat
  BY DEF GoodBackups
<1>4. Len(C) <= MaxBackups
  BY <1>1, <1>3, BoundsAssumption
<1>5. \A k \in DOMAIN C : k \in DOMAIN B \/ k = Len(B) + 1
  BY <1>1, <1>3
<1> HIDE DEF C
<1>6. GoodBackups(C)
  BY <1>1, <1>2, <1>3, <1>4, <1>5 DEF GoodBackups
<1>7. Grown(B, C) /\ Len(B) + 1 \in DOMAIN C /\ Len(B) + 1 # 0 /\ Len(B) + 1 \notin DOMAIN B
  BY <1>1, <1>2, <1>3 DEF Grown
<1> QED BY <1>3, <1>6, <1>7 DEF C

LEMMA NotZero ==
  ASSUME GoodBackups(backups) PROVE Written \subseteq Nat \ {0} /\ Written \subseteq Tokens
  BY BoundsAssumption DEF GoodBackups, Written, Tokens

LEMMA BackupFields ==
  ASSUME GoodBackups(backups), NEW k \in Written
  PROVE  /\ backups[k].s \in Sessions /\ backups[k].db \in 0 .. NumDbs /\ backups[k].row \in Versions
         /\ backups[k].roll \in Versions /\ backups[k].entries \subseteq Files
<1>1. backups[k] \in BackupType
  BY DEF GoodBackups, Written
<1> QED BY <1>1 DEF BackupType

(* The records of all workers after a step of one.                          *)
LEMMA WorkOKAfter ==
  ASSUME WorkOK, NEW w \in Workers, NEW q, work' = [work EXCEPT ![w] = q],
         Grown(backups, backups'), Fits(w, q, backups')
  PROVE  WorkOK'
<1>1. DOMAIN work' = Workers /\ work'[w] = q /\ \A v \in Workers \ {w} : work'[v] = work[v]
  BY DEF WorkOK
<1>2. \A v \in Workers : Fits(v, work[v], backups')
  BY FitsGrown DEF WorkOK
<1>3. \A v \in Workers : Fits(v, work'[v], backups')
  BY <1>1, <1>2
<1> QED BY <1>1, <1>3 DEF WorkOK

(* A step that takes nothing away: it moves a worker on, and may write a    *)
(* backup.                                                                  *)
LEMMA MovedAndKept ==
  ASSUME IInv, NEW w \in Workers, NEW q, work' = [work EXCEPT ![w] = q],
         GoodBackups(backups'), Grown(backups, backups'), Fits(w, q, backups'), Quiet(q, work[w]),
         UNCHANGED <<rows, rollout, file, codex, offered>>,
         sidecar' \in [Tokens -> SUBSET Files], marked' \subseteq Written'
  PROVE  IInv'
<1>1. WorkOK'
  BY WorkOKAfter DEF IInv
<1>2. \A T \in offered' : GoodTokens(T, backups')
  BY DEF IInv, DiskOK, GoodTokens, Grown
<1>3. DiskOK'
  BY <1>2 DEF IInv, DiskOK
<1>4. RowsKept'
  BY DEF IInv, RowsKept, Grown, Written
<1>5. work'[w] = q /\ \A v \in Workers \ {w} : work'[v] = work[v]
  BY DEF IInv, WorkOK
<1>6. ApisKept'
  BY <1>5 DEF IInv, ApisKept, Untouched, Quiet, Grown, Written
<1> QED BY <1>1, <1>3, <1>4, <1>6 DEF IInv

LEMMA Moved ==
  ASSUME IInv, NEW w \in Workers, NEW q, work' = [work EXCEPT ![w] = q],
         Fits(w, q, backups), Quiet(q, work[w]),
         UNCHANGED <<rows, rollout, file, backups, codex, offered>>,
         sidecar' \in [Tokens -> SUBSET Files], marked' \subseteq Written
  PROVE  IInv'
<1>1. GoodBackups(backups') /\ Grown(backups, backups') /\ Fits(w, q, backups') /\ marked' \subseteq Written'
  BY DEF Grown, IInv, Written
<1> QED BY <1>1, MovedAndKept

LEMMA InitIInv == Init => IInv
<1> SUFFICES ASSUME Init PROVE IInv
  OBVIOUS
<1>1. GoodBackups(backups)
  BY BoundsAssumption DEF Init, GoodBackups
<1>2. DiskOK
  <2>1. rows \in [Threads -> [Dbs -> Versions]] /\ rollout \in [Threads -> Versions]
    BY DEF Init, Versions
  <2>2. file \in [Files -> SUBSET Sessions] /\ sidecar \in [Tokens -> SUBSET Files]
    BY DEF Init
  <2>3. codex.mem \subseteq Sessions /\ codex.open \subseteq Sessions
    BY DEF Init, CodexOff, Sessions
  <2> QED BY <2>1, <2>2, <2>3 DEF Init, DiskOK
<1>3. WorkOK
  BY FitsIdle DEF Init, WorkOK
<1>4. RowsKept
  BY DEF Init, RowsKept
<1>5. ApisKept
  BY IdleFields DEF Init, ApisKept, Untouched, CodexOff, Sessions
<1> QED BY <1>1, <1>2, <1>3, <1>4, <1>5 DEF IInv

(* The one session of a deletion or an undo.                                *)
LEMMA OwnSession ==
  ASSUME IInv, NEW w \in Workers, work[w].op \in {"delete", "clear", "undo"}
  PROVE  /\ work[w].s = {Session(w)} /\ Session(w) \in Sessions
         /\ \A k \in Uses(work[w]) : backups[k].s = Session(w)
  BY DEF IInv, WorkOK, Fits, OneSession, Session

(* An operation begins with an empty record.                                *)
LEMMA DeleteBeginsIInv ==
  ASSUME IInv, NEW w \in Workers, NEW s \in Sessions, DeleteBegins(w, s) PROVE IInv'
<1> DEFINE q == [Idle EXCEPT !.op = "delete", !.at = "look", !.s = {s}, !.had = Parts(s)]
<1>1. /\ DOMAIN q = Fields /\ q.op = "delete" /\ q.at = "look" /\ q.s = {s} /\ q.token = 0
      /\ q.good = {} /\ q.bad = {} /\ q.toks = {} /\ q.todo = {} /\ q.seen = {} /\ q.db = 1 /\ q.step = "read"
  BY IdleFields DEF Fields
<1>2. work' = [work EXCEPT ![w] = q] /\ UNCHANGED <<disk, offered, codex>>
  BY DEF DeleteBegins, Begins, Becomes
<1> HIDE DEF q
<1>3. Fits(w, q, backups) /\ Quiet(q, work[w])
  <2>1. 1 \in Dbs
    BY SomeDbs DEF Dbs
  <2> QED BY <1>1, <2>1
          DEF Fits, Stage, Uses, OneSession, Deleting, Clearing, Sweeping, Undoing, Committing, Editing, Quiet
<1> QED BY <1>2, <1>3, Moved DEF disk, IInv, DiskOK

(* A backup of the rows that are there is written before they go.           *)
LEMMA LookIInv ==
  ASSUME IInv, NEW w \in Workers, Look(w) PROVE IInv'
<1> DEFINE r == work[w]
           s == Session(w)
<1>1. r.op = "delete" /\ r.at = "look" /\ Fits(w, r, backups)
  BY DEF Look, Does, IInv, WorkOK
<1>2. r.s = {s} /\ s \in Sessions /\ \A k \in Uses(r) : backups[k].s = s
  BY <1>1, OwnSession
<1>3. CASE UNCHANGED backups /\ MovesOn(w, NextDb(r))
  <2>1. Fits(w, NextDb(r), backups) /\ Quiet(NextDb(r), r)
    BY <1>1, FitsNextDb
  <2>2. work' = [work EXCEPT ![w] = NextDb(r)] /\ UNCHANGED <<rows, rollout, file, backups, codex, offered>>
        /\ UNCHANGED <<sidecar, marked>>
    BY <1>3 DEF Look, MovesOn, Becomes
  <2> QED BY <2>1, <2>2, Moved DEF IInv, DiskOK
<1>4. CASE /\ r.db \in RowsOf(s) /\ HasRoom
           /\ \E roll \in {rollout[s], "none"} : backups' = Append(backups, Backup(s, r.db, rows[s][r.db], roll))
           /\ MovesOn(w, [r EXCEPT !.at = "commit", !.token = Len(backups) + 1])
  <2>1. PICK roll \in {rollout[s], "none"} : backups' = Append(backups, Backup(s, r.db, rows[s][r.db], roll))
    BY <1>4
  <2> DEFINE b == Backup(s, r.db, rows[s][r.db], roll)
             q == [r EXCEPT !.at = "commit", !.token = Len(backups) + 1]
  <2>2. s \in Threads /\ r.db \in Dbs /\ rows[s][r.db] # "none"
    BY <1>4 DEF RowsOf
  <2>3. rows[s][r.db] \in Versions /\ roll \in Versions
    BY <2>1, <2>2 DEF IInv, DiskOK, Versions
  <2>4. b \in BackupType /\ GoodBackup(b) /\ b.s = s /\ b.db = r.db
    BY <1>2, <2>2, <2>3, SomeDbs DEF Backup, BackupType, GoodBackup, EntriesOf, Dbs
  <2>5. /\ GoodBackups(backups') /\ Grown(backups, backups')
        /\ Len(backups) + 1 \in Written' /\ backups'[Len(backups) + 1] = b
        /\ Len(backups) + 1 # 0 /\ Len(backups) + 1 \notin Written
    BY <1>4, <2>1, <2>4, AppendGrows DEF IInv, HasRoom, Written
  <2>6. /\ DOMAIN q = Fields /\ q.op = "delete" /\ q.at = "commit" /\ q.s = {s} /\ q.token = Len(backups) + 1
        /\ q.good = r.good /\ q.bad = r.bad /\ q.toks = r.toks /\ q.todo = r.todo /\ q.seen = r.seen
        /\ q.db = r.db /\ q.step = r.step
    BY <1>1, <1>2 DEF Fits, Fields
  <2>7. UNCHANGED <<rows, rollout, file, sidecar, marked, offered, codex>> /\ work' = [work EXCEPT ![w] = q]
    BY <1>4 DEF Look, MovesOn, Becomes
  <2> HIDE DEF b, q
  <2>8. Uses(q) \subseteq Uses(r) \cup {Len(backups) + 1}
    BY <2>6 DEF Uses
  <2>9. \A k \in Uses(q) : k \in Written' /\ backups'[k].s = s
    BY <1>1, <1>2, <2>4, <2>5, <2>8 DEF Fits, Grown, Written
  <2>10. Fits(w, q, backups')
    <3>1. Stage(q)
      BY <2>6 DEF Stage, Committing
    <3>2. OneSession(q, backups')
      BY <1>2, <2>6, <2>9 DEF OneSession
    <3>3. Deleting(q, backups') /\ Clearing(q, backups') /\ Sweeping(q, backups') /\ Undoing(q)
      BY <2>2, <2>4, <2>5, <2>6 DEF Deleting, Clearing, Sweeping, Undoing
    <3> QED BY <1>1, <1>2, <2>2, <2>6, <2>9, <3>1, <3>2, <3>3 DEF Fits, Written
  <2>11. sidecar' \in [Tokens -> SUBSET Files] /\ marked' \subseteq Written' /\ Quiet(q, r)
    BY <2>5, <2>6, <2>7 DEF IInv, DiskOK, Grown, Written, Quiet
  <2> QED BY <2>5, <2>7, <2>10, <2>11, MovedAndKept
<1> QED BY <1>3, <1>4 DEF Look

(* The rows go, and the backup that was written just before holds them.     *)
LEMMA CommitIInv ==
  ASSUME IInv, NEW w \in Workers, Commit(w) PROVE IInv'
<1> DEFINE r == work[w]
           s == Session(w)
           q == [r EXCEPT !.at = "rollout", !.good = @ \cup {r.token}]
<1>1. r.op = "delete" /\ r.at = "commit" /\ Fits(w, r, backups)
  BY DEF Commit, Does, IInv, WorkOK
<1>2. r.s = {s} /\ s \in Threads /\ \A k \in Uses(r) : backups[k].s = s
  BY <1>1, OwnSession DEF Fits, Deleting, Committing
<1>3. r.token \in Written /\ r.token # 0 /\ backups[r.token].s = s /\ backups[r.token].db = r.db
  BY <1>1, <1>2 DEF Fits, Deleting, Committing, Uses, Written
<1>4. /\ work' = [work EXCEPT ![w] = q] /\ rows' = [rows EXCEPT ![s][r.db] = "none"]
      /\ UNCHANGED <<rollout, file, backups, sidecar, marked, offered, codex>>
  BY DEF Commit, Becomes
<1>5. /\ DOMAIN q = Fields /\ q.op = "delete" /\ q.at = "rollout" /\ q.s = r.s /\ q.token = r.token
      /\ q.good = r.good \cup {r.token} /\ q.bad = r.bad /\ q.toks = r.toks /\ q.todo = r.todo
      /\ q.seen = r.seen /\ q.db = r.db /\ q.step = r.step
  BY <1>1 DEF Fits, Fields
<1> HIDE DEF q
<1>6. Uses(q) = Uses(r)
  BY <1>3, <1>5 DEF Uses
<1>7. Fits(w, q, backups)
  <2>1. Deleting(q, backups) /\ Clearing(q, backups) /\ Sweeping(q, backups) /\ Undoing(q) /\ Stage(q)
    BY <1>1, <1>3, <1>5 DEF Fits, Deleting, Clearing, Sweeping, Undoing, Stage, Committing
  <2> QED BY <1>1, <1>3, <1>5, <1>6, <2>1 DEF Fits, OneSession
<1>8. Grown(backups, backups') /\ GoodBackups(backups') /\ WorkOK'
  BY <1>4, <1>7, WorkOKAfter DEF Grown, IInv
<1>9. DiskOK'
  BY <1>4 DEF IInv, DiskOK, GoodTokens, Written, Versions
<1>10. RowsKept'
  <2>1. \A t \in Threads, d \in Dbs : rows'[t][d] = rows[t][d] \/ (t = s /\ d = r.db)
    BY <1>4 DEF IInv, DiskOK
  <2> QED BY <1>3, <1>4, <2>1 DEF IInv, RowsKept, Written
<1>11. ApisKept'
  <2>1. work'[w] = q /\ \A v \in Workers \ {w} : work'[v] = work[v]
    BY <1>4 DEF IInv, WorkOK
  <2> QED BY <1>4, <1>5, <2>1 DEF IInv, ApisKept, Untouched, Written
<1> QED BY <1>8, <1>9, <1>10, <1>11 DEF IInv

(* The rollout goes only if the backup holds it.                            *)
LEMMA RemoveRolloutIInv ==
  ASSUME IInv, NEW w \in Workers, RemoveRollout(w) PROVE IInv'
<1> DEFINE r == work[w]
           s == Session(w)
           q == [r EXCEPT !.at = "index"]
<1>1. r.op = "delete" /\ r.at = "rollout" /\ Fits(w, r, backups)
  BY DEF RemoveRollout, Does, IInv, WorkOK
<1>2. r.token \in Written /\ backups[r.token].s = s
  BY <1>1, OwnSession DEF Fits, Deleting, Committing, Uses, Written
<1>3. /\ work' = [work EXCEPT ![w] = q] /\ UNCHANGED <<rows, file, backups, sidecar, marked, offered, codex>>
      /\ \/ rollout' = [rollout EXCEPT ![s] = "none"] /\ backups[r.token].roll # "none"
         \/ rollout' = rollout
  BY DEF RemoveRollout, Becomes
<1>4. AsSure(r, "index")
  BY <1>1 DEF AsSure, StageOf, Committing, Editing
<1>5. Fits(w, q, backups) /\ Quiet(q, r)
  BY <1>1, <1>4, FitsAt
<1> HIDE DEF q
<1>6. Grown(backups, backups') /\ GoodBackups(backups') /\ WorkOK'
  BY <1>3, <1>5, WorkOKAfter DEF Grown, IInv
<1>7. DiskOK'
  BY <1>3 DEF IInv, DiskOK, GoodTokens, Written, Versions
<1>8. RowsKept'
  BY <1>2, <1>3 DEF IInv, RowsKept, Written, DiskOK
<1>9. ApisKept'
  <2>1. work'[w] = q /\ \A v \in Workers \ {w} : work'[v] = work[v]
    BY <1>3 DEF IInv, WorkOK
  <2> QED BY <1>3, <1>5, <2>1 DEF IInv, ApisKept, Untouched, Written, Quiet
<1> QED BY <1>6, <1>7, <1>8, <1>9 DEF IInv

(* Before its entries are cleared, a session has a backup, unless there is  *)
(* nothing to take: then it has had one before.                             *)
LEMMA SaveEntriesIInv ==
  ASSUME IInv, NEW w \in Workers, SaveEntries(w) PROVE IInv'
<1> DEFINE r == work[w]
           s == Session(w)
<1>1. r.op = "clear" /\ r.at = "save" /\ Fits(w, r, backups)
  BY DEF SaveEntries, Does, IInv, WorkOK
<1>2. r.s = {s} /\ s \in Sessions /\ \A k \in Uses(r) : backups[k].s = s
  BY <1>1, OwnSession
<1>3. CASE EntriesOf(s) = {} /\ UNCHANGED backups /\ MovesOn(w, [r EXCEPT !.at = "index"])
  <2> DEFINE q == [r EXCEPT !.at = "index"]
  <2>1. Same(q, r) /\ q.at = "index" /\ q.seen = r.seen /\ q.step = r.step
    BY <1>1 DEF Fits, Fields, Same
  <2>2. UNCHANGED <<rows, rollout, file, backups, codex, offered, sidecar, marked>>
        /\ work' = [work EXCEPT ![w] = q]
    BY <1>3 DEF SaveEntries, MovesOn, Becomes
  <2> HIDE DEF q
  <2>3. s \in Apis => \E k \in Written : backups[k].s = s
    BY <1>3 DEF IInv, ApisKept, Untouched, EntriesOf, Files
  <2>4. Fits(w, q, backups)
    <3>1. Stage(q) /\ Deleting(q, backups) /\ Sweeping(q, backups) /\ Undoing(q)
      BY <1>1, <2>1 DEF Stage, Same, Deleting, Sweeping, Undoing
    <3>2. Clearing(q, backups)
      BY <1>2, <2>1, <2>3 DEF Clearing, Same, Written
    <3> QED BY <1>1, <2>1, <3>1, <3>2, FitsSame
  <2> QED BY <2>1, <2>2, <2>4, Moved DEF IInv, DiskOK, Quiet
<1>4. CASE /\ EntriesOf(s) # {} /\ HasRoom
           /\ backups' = Append(backups, Backup(s, 0, "none", "none"))
           /\ MovesOn(w, [r EXCEPT !.at = "index", !.token = Len(backups) + 1])
  <2> DEFINE b == Backup(s, 0, "none", "none")
             q == [r EXCEPT !.at = "index", !.token = Len(backups) + 1]
  <2>1. b \in BackupType /\ GoodBackup(b) /\ b.s = s
    BY <1>2, <1>4, SomeDbs DEF Backup, BackupType, GoodBackup, EntriesOf, Versions
  <2>2. /\ GoodBackups(backups') /\ Grown(backups, backups')
        /\ Len(backups) + 1 \in Written' /\ backups'[Len(backups) + 1] = b
        /\ Len(backups) + 1 # 0 /\ Len(backups) + 1 \notin Written
    BY <1>4, <2>1, AppendGrows DEF IInv, HasRoom, Written
  <2>3. /\ DOMAIN q = Fields /\ q.op = "clear" /\ q.at = "index" /\ q.s = {s} /\ q.token = Len(backups) + 1
        /\ q.good = r.good /\ q.bad = r.bad /\ q.toks = r.toks /\ q.todo = r.todo /\ q.seen = r.seen
        /\ q.db = r.db /\ q.step = r.step
    BY <1>1, <1>2 DEF Fits, Fields
  <2>4. UNCHANGED <<rows, rollout, file, sidecar, marked, offered, codex>> /\ work' = [work EXCEPT ![w] = q]
    BY <1>4 DEF SaveEntries, MovesOn, Becomes
  <2> HIDE DEF b, q
  <2>5. Uses(q) \subseteq Uses(r) \cup {Len(backups) + 1}
    BY <2>3 DEF Uses
  <2>6. \A k \in Uses(q) : k \in Written' /\ backups'[k].s = s
    BY <1>1, <1>2, <2>1, <2>2, <2>5 DEF Fits, Grown, Written
  <2>7. Fits(w, q, backups')
    <3>1. Stage(q)
      BY <2>3 DEF Stage
    <3>2. OneSession(q, backups')
      BY <1>2, <2>3, <2>6 DEF OneSession
    <3>3. Deleting(q, backups') /\ Clearing(q, backups') /\ Sweeping(q, backups') /\ Undoing(q)
      BY <2>1, <2>2, <2>3 DEF Deleting, Clearing, Sweeping, Undoing, Written
    <3> QED BY <1>1, <1>2, <2>3, <2>6, <3>1, <3>2, <3>3 DEF Fits, Written
  <2>8. sidecar' \in [Tokens -> SUBSET Files] /\ marked' \subseteq Written' /\ Quiet(q, r)
    BY <2>2, <2>3, <2>4 DEF IInv, DiskOK, Grown, Written, Quiet
  <2> QED BY <2>2, <2>4, <2>7, <2>8, MovedAndKept
<1> QED BY <1>3, <1>4 DEF SaveEntries

(* What a deletion that has ended hands out.                                *)
LEMMA ReportIInv ==
  ASSUME IInv, NEW w \in Workers, Report(w) PROVE IInv'
<1> DEFINE r == work[w]
<1>1. r.op \in {"delete", "clear", "undo"} /\ Fits(w, r, backups)
  BY DEF Report, IInv, WorkOK
<1>2. r.s = {Session(w)} /\ Session(w) \in Sessions /\ \A k \in Uses(r) : backups[k].s = Session(w)
  BY <1>1, OwnSession
<1>3. work' = [work EXCEPT ![w] = Idle] /\ UNCHANGED <<disk, codex>>
      /\ offered' = IF w = "launcher" /\ r.op # "undo" THEN offered \cup ({Tickets(r)} \ {{}}) ELSE offered
  BY DEF Report, Ends, Begins, Becomes
<1>4. Tickets(r) \subseteq Uses(r)
  BY <1>1 DEF Tickets, Uses, Fits
<1>5. Tickets(r) # {} => GoodTokens(Tickets(r), backups)
  BY <1>1, <1>2, <1>4 DEF GoodTokens, Fits
<1>6. \A T \in offered' : GoodTokens(T, backups)
  BY <1>3, <1>5 DEF IInv, DiskOK
<1>7. Fits(w, Idle, backups) /\ Idle.step = "read"
  BY FitsIdle, IdleFields
<1>8. WorkOK' /\ GoodBackups(backups')
  BY <1>3, <1>7, WorkOKAfter DEF IInv, Grown, disk
<1>9. DiskOK' /\ RowsKept'
  BY <1>3, <1>6 DEF disk, IInv, DiskOK, RowsKept, Written
<1>10. ApisKept'
  <2>1. work'[w] = Idle /\ \A v \in Workers \ {w} : work'[v] = work[v]
    BY <1>3 DEF IInv, WorkOK
  <2> QED BY <1>3, <1>7, <2>1 DEF disk, IInv, ApisKept, Untouched, Written
<1> QED BY <1>8, <1>9, <1>10 DEF IInv

(* Reading a file of a session, and finding that there is nothing to do or  *)
(* that it has changed.                                                     *)
LEMMA ReadFileIInv ==
  ASSUME IInv, NEW w \in Workers, ReadFile(w) PROVE IInv'
<1> DEFINE r == work[w]
<1>1. PICK f \in Files :
        /\ Edits(w, f) /\ r.step = "read" /\ UNCHANGED <<disk, offered, codex>>
        /\ \/ MovesOn(w, AfterEdit(r, "nothing"))
           \/ MovesOn(w, [r EXCEPT !.step = "write", !.seen = file[f]])
           \/ MovesOn(w, AfterEdit(r, "changed"))
  BY DEF ReadFile
<1>2. r.at \in Editing /\ Fits(w, r, backups)
  BY <1>1 DEF Edits, Editing, IInv, WorkOK
<1>3. CASE \E o \in {"nothing", "changed"} : MovesOn(w, AfterEdit(r, o))
  <2>1. PICK o \in {"nothing", "changed"} : MovesOn(w, AfterEdit(r, o))
    BY <1>3
  <2>2. Fits(w, AfterEdit(r, o), backups) /\ Quiet(AfterEdit(r, o), r)
    BY <1>2, FitsAfterEdit DEF Outcomes, Quiet
  <2> QED BY <1>1, <2>1, <2>2, Moved DEF MovesOn, Becomes, disk, IInv, DiskOK
<1>4. CASE MovesOn(w, [r EXCEPT !.step = "write", !.seen = file[f]])
  <2> DEFINE q == [r EXCEPT !.step = "write", !.seen = file[f]]
  <2>1. Same(q, r) /\ q.at = r.at /\ q.seen = file[f] /\ q.step = "write"
    BY <1>2 DEF Fits, Fields, Same
  <2>2. work' = [work EXCEPT ![w] = q] /\ UNCHANGED <<disk, offered, codex>>
    BY <1>1, <1>4 DEF MovesOn, Becomes
  <2> HIDE DEF q
  <2>3. Uses(q) = Uses(r)
    BY <2>1 DEF Same, Uses
  <2>4. Stage(q) /\ Deleting(q, backups) /\ Clearing(q, backups) /\ Sweeping(q, backups) /\ Undoing(q)
    BY <1>2, <2>1, IdleFields DEF Stage, Same, Fits, Deleting, Clearing, Sweeping, Undoing, Editing
  <2>5. file[f] \subseteq Sessions
    BY DEF IInv, DiskOK
  <2>6. Fits(w, q, backups)
    BY <1>2, <2>1, <2>3, <2>4, <2>5 DEF Fits, Same, OneSession
  <2>7. WorkOK' /\ GoodBackups(backups')
    BY <2>2, <2>6, WorkOKAfter DEF IInv, Grown, disk
  <2>8. DiskOK' /\ RowsKept'
    BY <2>2 DEF disk, IInv, DiskOK, RowsKept, Written
  <2>9. ApisKept'
    <3>1. work'[w] = q /\ \A v \in Workers \ {w} : work'[v] = work[v]
      BY <2>2 DEF IInv, WorkOK
    <3> QED BY <2>1, <2>2, <3>1 DEF disk, IInv, ApisKept, Untouched, Written
  <2> QED BY <2>7, <2>8, <2>9 DEF IInv
<1> QED BY <1>1, <1>3, <1>4

(* Writing the file as it was read, without the session or with it: only a  *)
(* session of which there is a backup may go.                               *)
LEMMA WriteFileIInv ==
  ASSUME IInv, NEW w \in Workers, WriteFile(w) PROVE IInv'
<1> DEFINE r == work[w]
<1>1. PICK f \in Files :
        /\ Edits(w, f) /\ r.step = "write" /\ UNCHANGED <<rows, rollout, backups, sidecar, marked, offered, codex>>
        /\ file' = [file EXCEPT ![f] = IF Undoes(r) THEN r.seen \cup r.s ELSE r.seen \ r.s]
        /\ \E o \in {"done", "error"} : Becomes(w, AfterEdit(r, o))
  BY DEF WriteFile
<1>2. PICK o \in {"done", "error"} : work' = [work EXCEPT ![w] = AfterEdit(r, o)]
  BY <1>1 DEF Becomes
<1>3. r.at \in Editing /\ Fits(w, r, backups)
  BY <1>1 DEF Edits, Editing, IInv, WorkOK
<1>4. Fits(w, AfterEdit(r, o), backups) /\ AfterEdit(r, o).step # "write"
  BY <1>3, FitsAfterEdit DEF Outcomes
<1>5. WorkOK' /\ GoodBackups(backups')
  BY <1>1, <1>2, <1>4, WorkOKAfter DEF IInv, Grown
<1>6. r.seen \subseteq Sessions /\ r.s \subseteq Sessions
  BY <1>3 DEF Fits
<1>7. DiskOK'
  BY <1>1, <1>6 DEF IInv, DiskOK, Written
<1>8. RowsKept'
  BY <1>1 DEF IInv, RowsKept, Written
<1>9. \A a \in Apis : a \in r.s /\ ~Undoes(r) => \E k \in Written : backups[k].s = a
  <2>1. CASE r.op = "delete"
    BY <1>3, <2>1, SessionsDiffer DEF Fits, Deleting, Committing
  <2>2. CASE r.op = "clear"
    BY <1>3, <2>2 DEF Fits, Clearing, Written
  <2>3. CASE r.op = "sweep"
    BY <1>3, <2>3 DEF Fits, Sweeping, Undoing, Editing, Uses, Written
  <2> QED BY <1>3, <2>1, <2>2, <2>3, IdleFields DEF Fits, Stage, Editing, Undoes
<1>10. ApisKept'
  <2> SUFFICES ASSUME NEW a \in Apis, ~ \E k \in Written : backups[k].s = a PROVE Untouched(a)'
    BY <1>1 DEF ApisKept, Written
  <2>1. Untouched(a)
    BY DEF IInv, ApisKept
  <2>2. a \in r.seen /\ (a \notin r.s \/ Undoes(r))
    BY <1>1, <1>9, <2>1 DEF Untouched
  <2>3. \A g \in Files : a \in file'[g]
    BY <1>1, <2>1, <2>2 DEF IInv, DiskOK, Untouched
  <2>4. work'[w] = AfterEdit(r, o) /\ \A v \in Workers \ {w} : work'[v] = work[v]
    BY <1>2 DEF IInv, WorkOK
  <2> QED BY <1>1, <1>4, <2>1, <2>3, <2>4 DEF Untouched
<1> QED BY <1>5, <1>7, <1>8, <1>10 DEF IInv

(* An undo: every token that the page holds is a backup of one session.     *)
LEMMA UndoBeginsIInv ==
  ASSUME IInv, NEW T \in offered, UndoBegins(T) PROVE IInv'
<1>1. PICK blind : work' = [work EXCEPT !["launcher"] = [Idle EXCEPT !.op = "undo", !.at = "check",
                              !.s = {backups[k].s : k \in T}, !.toks = T, !.blind = blind]]
  BY DEF UndoBegins, Begins, Becomes
<1> DEFINE q == [Idle EXCEPT !.op = "undo", !.at = "check", !.s = {backups[k].s : k \in T}, !.toks = T,
                             !.blind = blind]
<1>2. /\ DOMAIN q = Fields /\ q.op = "undo" /\ q.at = "check" /\ q.s = {backups[k].s : k \in T} /\ q.token = 0
      /\ q.good = {} /\ q.bad = {} /\ q.toks = T /\ q.todo = {} /\ q.seen = {} /\ q.db = 1 /\ q.step = "read"
  BY IdleFields DEF Fields
<1> HIDE DEF q
<1>3. PICK s \in Sessions : T # {} /\ T \subseteq Written /\ \A k \in T : backups[k].s = s
  BY DEF IInv, DiskOK, GoodTokens, Written
<1>4. q.s = {s} /\ 0 \notin T
  BY <1>2, <1>3, NotZero DEF IInv
<1>5. 1 \in Dbs
  BY SomeDbs DEF Dbs
<1>6. Fits("launcher", q, backups) /\ Quiet(q, work["launcher"])
  <2>1. Uses(q) = T
    BY <1>2, <1>4 DEF Uses
  <2>2. OneSession(q, backups)
    BY <1>3, <1>4, <2>1 DEF OneSession
  <2>3. Stage(q) /\ Deleting(q, backups) /\ Clearing(q, backups) /\ Sweeping(q, backups) /\ Undoing(q)
    BY <1>2, <1>3 DEF Stage, Deleting, Clearing, Sweeping, Undoing, Restoring
  <2> QED BY <1>2, <1>3, <1>4, <1>5, <2>1, <2>2, <2>3 DEF Fits, Quiet, Written
<1>7. UNCHANGED <<disk, offered, codex>> /\ "launcher" \in Workers
  BY DEF UndoBegins, Workers
<1> QED BY <1>1, <1>6, <1>7, Moved DEF q, disk, IInv, DiskOK

(* The next backup to restore.                                              *)
LEMMA FitsToken ==
  ASSUME NEW w, NEW r, Fits(w, r, backups), r.op = "undo", NEW k \in r.toks
  PROVE  /\ Fits(w, [r EXCEPT !.at = "rows", !.token = k], backups)
         /\ Quiet([r EXCEPT !.at = "rows", !.token = k], r)
<1> DEFINE q == [r EXCEPT !.at = "rows", !.token = k]
<1>1. /\ DOMAIN q = Fields /\ q.op = "undo" /\ q.at = "rows" /\ q.s = r.s /\ q.token = k
      /\ q.good = r.good /\ q.bad = r.bad /\ q.toks = r.toks /\ q.todo = r.todo /\ q.seen = r.seen
      /\ q.db = r.db /\ q.step = r.step
  BY DEF Fits, Fields
<1> HIDE DEF q
<1>2. Uses(q) \subseteq Uses(r)
  BY <1>1 DEF Uses, Fits
<1>3. Stage(q) /\ Deleting(q, backups) /\ Clearing(q, backups) /\ Sweeping(q, backups) /\ Undoing(q)
  BY <1>1 DEF Fits, Stage, Deleting, Clearing, Sweeping, Undoing
<1>4. Fits(w, q, backups) /\ Quiet(q, r)
  BY <1>1, <1>2, <1>3 DEF Fits, OneSession, Quiet
<1> QED BY <1>4 DEF q

LEMMA TokensNat ==
  ASSUME IInv, NEW w \in Workers PROVE work[w].toks \subseteq Nat \ {0} /\ work[w].good \subseteq Nat \ {0}
  BY NotZero DEF IInv, WorkOK, Fits, Uses, Written

LEMMA CheckConflictsIInv ==
  ASSUME IInv, NEW w \in Workers, CheckConflicts(w) PROVE IInv'
<1> DEFINE r == work[w]
<1>1. r.op = "undo" /\ r.at = "check" /\ Fits(w, r, backups)
  BY DEF CheckConflicts, Does, IInv, WorkOK
<1>2. UNCHANGED <<disk, offered, codex>>
  BY DEF CheckConflicts
<1>3. CASE work' = [work EXCEPT ![w] = GivesUp(r)]
  <2> DEFINE q == GivesUp(r)
  <2>1. AsSure(r, "record")
    BY <1>1 DEF AsSure, StageOf, Restoring
  <2>2. Fits(w, q, backups) /\ Quiet(q, r)
    BY <1>1, <2>1, FitsAt DEF GivesUp
  <2> HIDE DEF q
  <2>3. work' = [work EXCEPT ![w] = q]
    BY <1>3 DEF q
  <2> QED BY <1>2, <2>2, <2>3, Moved DEF disk, IInv, DiskOK
<1>4. CASE work' = [work EXCEPT ![w] = [r EXCEPT !.at = "rows", !.token = Min(r.toks)]]
  <2>1. Min(r.toks) \in r.toks
    BY <1>1, MinMember, TokensNat DEF Fits, Undoing
  <2> DEFINE q == [r EXCEPT !.at = "rows", !.token = Min(r.toks)]
  <2>2. Fits(w, q, backups) /\ Quiet(q, r)
    BY <1>1, <2>1, FitsToken
  <2> HIDE DEF q
  <2> QED BY <1>2, <1>4, <2>2, Moved DEF q, disk, IInv, DiskOK
<1> QED BY <1>3, <1>4 DEF CheckConflicts, MovesOn, Becomes

(* A row is put back where there is none, and where it is the same.         *)
LEMMA RestoreRowsIInv ==
  ASSUME IInv, NEW w \in Workers, RestoreRows(w) PROVE IInv'
<1> DEFINE r == work[w]
           s == Session(w)
           b == backups[r.token]
<1>1. r.op = "undo" /\ r.at = "rows" /\ Fits(w, r, backups)
  BY DEF RestoreRows, Does, IInv, WorkOK
<1>2. UNCHANGED <<rollout, file, backups, sidecar, marked, offered, codex>>
  BY DEF RestoreRows
<1>3. \A a \in {"rollout", "record"} :
         Fits(w, [r EXCEPT !.at = a], backups) /\ Quiet([r EXCEPT !.at = a], r)
  <2>1. AsSure(r, "rollout") /\ AsSure(r, "record")
    BY <1>1 DEF AsSure, StageOf, Restoring
  <2> QED BY <1>1, <2>1, FitsAt
<1>4. CASE rows' = rows /\ \E a \in {"rollout", "record"} : MovesOn(w, [r EXCEPT !.at = a])
  BY <1>2, <1>3, <1>4, Moved DEF MovesOn, Becomes, IInv, DiskOK
<1>5. CASE /\ HasDbRows(r.token)
           /\ rows' = [rows EXCEPT ![s][b.db] = b.row]
           /\ Becomes(w, [r EXCEPT !.at = "rollout"])
  <2> DEFINE q == [r EXCEPT !.at = "rollout"]
  <2>1. work' = [work EXCEPT ![w] = q] /\ Fits(w, q, backups) /\ Quiet(q, r)
    BY <1>3, <1>5 DEF Becomes
  <2> HIDE DEF q
  <2>2. Grown(backups, backups') /\ GoodBackups(backups') /\ WorkOK'
    BY <1>2, <2>1, WorkOKAfter DEF Grown, IInv
  <2>3. b \in BackupType /\ b.row # "none"
    <3>1. r.token \in Written
      BY <1>1 DEF Fits, Undoing, Restoring, Uses, Written
    <3> QED BY <1>5, <3>1 DEF IInv, GoodBackups, GoodBackup, HasDbRows, Written
  <2>4. DiskOK'
    BY <1>2, <1>5, <2>3 DEF IInv, DiskOK, Written, BackupType
  <2>5. RowsKept'
    BY <1>2, <1>5, <2>3 DEF IInv, RowsKept, Written, DiskOK
  <2>6. ApisKept'
    <3>1. work'[w] = q /\ \A v \in Workers \ {w} : work'[v] = work[v]
      BY <2>1 DEF IInv, WorkOK
    <3> QED BY <1>2, <2>1, <3>1 DEF IInv, ApisKept, Untouched, Written, Quiet
  <2> QED BY <2>2, <2>4, <2>5, <2>6 DEF IInv
<1> QED BY <1>4, <1>5 DEF RestoreRows, GivesUp

(* The rollout of the backup is written where it was.                       *)
LEMMA RestoreRolloutIInv ==
  ASSUME IInv, NEW w \in Workers, RestoreRollout(w) PROVE IInv'
<1> DEFINE r == work[w]
           s == Session(w)
           b == backups[r.token]
           q == [r EXCEPT !.at = "index"]
<1>1. r.op = "undo" /\ r.at = "rollout" /\ Fits(w, r, backups)
  BY DEF RestoreRollout, Does, IInv, WorkOK
<1>2. /\ UNCHANGED <<rows, file, backups, sidecar, marked, offered, codex>>
      /\ work' = [work EXCEPT ![w] = q]
      /\ rollout' = rollout \/ (b.roll # "none" /\ rollout' = [rollout EXCEPT ![s] = b.roll])
  BY DEF RestoreRollout, MovesOn, Becomes
<1>3. Fits(w, q, backups) /\ Quiet(q, r)
  <2>1. AsSure(r, "index")
    BY <1>1 DEF AsSure, StageOf, Restoring
  <2> QED BY <1>1, <2>1, FitsAt
<1> HIDE DEF q
<1>4. Grown(backups, backups') /\ GoodBackups(backups') /\ WorkOK'
  BY <1>2, <1>3, WorkOKAfter DEF Grown, IInv
<1>5. b \in BackupType
  <2>1. r.token \in Written
    BY <1>1 DEF Fits, Undoing, Restoring, Uses, Written
  <2> QED BY <2>1 DEF IInv, GoodBackups, Written
<1>6. DiskOK'
  BY <1>2, <1>5 DEF IInv, DiskOK, Written, BackupType
<1>7. RowsKept'
  BY <1>2 DEF IInv, RowsKept, Written, DiskOK
<1>8. ApisKept'
  <2>1. work'[w] = q /\ \A v \in Workers \ {w} : work'[v] = work[v]
    BY <1>2 DEF IInv, WorkOK
  <2> QED BY <1>2, <1>3, <2>1 DEF IInv, ApisKept, Untouched, Written, Quiet
<1> QED BY <1>4, <1>6, <1>7, <1>8 DEF IInv

(* A backup is restored: the next of the tokens, or all of them are done.   *)
LEMMA VerifyIInv ==
  ASSUME IInv, NEW w \in Workers, Verify(w) PROVE IInv'
<1> DEFINE r == work[w]
           good == r.good \cup {r.token}
<1>1. r.op = "undo" /\ r.at = "verify" /\ Fits(w, r, backups)
  BY DEF Verify, Does, IInv, WorkOK
<1>2. UNCHANGED <<disk, offered, codex>>
  BY DEF Verify
<1>3. good \subseteq r.toks /\ good \subseteq Uses(r) /\ 0 \notin good
  BY <1>1 DEF Fits, Undoing, Restoring, Uses
<1>4. CASE work' = [work EXCEPT ![w] = GivesUp(r)]
  <2> DEFINE q == GivesUp(r)
  <2>1. AsSure(r, "record")
    BY <1>1 DEF AsSure, StageOf, Restoring
  <2>2. Fits(w, q, backups) /\ Quiet(q, r)
    BY <1>1, <2>1, FitsAt DEF GivesUp
  <2> HIDE DEF q
  <2>3. work' = [work EXCEPT ![w] = q]
    BY <1>4 DEF q
  <2> QED BY <1>2, <2>2, <2>3, Moved DEF disk, IInv, DiskOK
<1>5. ASSUME NEW a \in {"record", "rows"}, NEW k, NEW q,
             /\ DOMAIN q = Fields /\ q.op = r.op /\ q.at = a /\ q.s = r.s /\ q.token = k /\ q.good = good
             /\ q.bad = r.bad /\ q.toks = r.toks /\ q.todo = r.todo /\ q.seen = r.seen /\ q.db = r.db
             /\ q.step = r.step,
             k = 0 \/ k \in r.toks, a = "rows" => k \in r.toks,
             work' = [work EXCEPT ![w] = q]
      PROVE  IInv'
  <2> HIDE DEF good
  <2>1. Uses(q) \subseteq Uses(r)
    BY <1>3, <1>5 DEF Uses
  <2>2. Stage(q)
    BY <1>1, <1>5 DEF Stage
  <2>3. Deleting(q, backups) /\ Clearing(q, backups) /\ Sweeping(q, backups) /\ Undoing(q)
    BY <1>1, <1>3, <1>5 DEF Fits, Deleting, Clearing, Sweeping, Undoing, Restoring
  <2>4. Fits(w, q, backups) /\ Quiet(q, r)
    BY <1>1, <1>3, <1>5, <2>1, <2>2, <2>3 DEF Fits, OneSession, Quiet
  <2> QED BY <1>2, <1>5, <2>4, Moved DEF disk, IInv, DiskOK
<1>6. CASE work' = [work EXCEPT ![w] = [r EXCEPT !.at = "record", !.token = 0, !.good = good, !.done = TRUE]]
  <2> DEFINE q == [r EXCEPT !.at = "record", !.token = 0, !.good = good, !.done = TRUE]
  <2>1. /\ DOMAIN q = Fields /\ q.op = r.op /\ q.at = "record" /\ q.s = r.s /\ q.token = 0 /\ q.good = good
        /\ q.bad = r.bad /\ q.toks = r.toks /\ q.todo = r.todo /\ q.seen = r.seen /\ q.db = r.db
        /\ q.step = r.step
    BY <1>1 DEF Fits, Fields
  <2>2. work' = [work EXCEPT ![w] = q]
    BY <1>6
  <2> HIDE DEF q
  <2> QED BY <1>5, <2>1, <2>2
<1>7. CASE /\ good # r.toks
           /\ work' = [work EXCEPT ![w] = [r EXCEPT !.at = "rows", !.token = Min(r.toks \ good), !.good = good]]
  <2> DEFINE k == Min(r.toks \ good)
             q == [r EXCEPT !.at = "rows", !.token = k, !.good = good]
  <2>1. k \in r.toks
    <3>1. r.toks \ good # {} /\ r.toks \ good \subseteq Nat
      BY <1>3, <1>7, TokensNat
    <3> QED BY <3>1, MinMember
  <2>2. work' = [work EXCEPT ![w] = q]
    BY <1>7
  <2> HIDE DEF k
  <2>3. /\ DOMAIN q = Fields /\ q.op = r.op /\ q.at = "rows" /\ q.s = r.s /\ q.token = k /\ q.good = good
        /\ q.bad = r.bad /\ q.toks = r.toks /\ q.todo = r.todo /\ q.seen = r.seen /\ q.db = r.db
        /\ q.step = r.step
    BY <1>1 DEF Fits, Fields
  <2> HIDE DEF q
  <2> QED BY <1>5, <2>1, <2>2, <2>3
<1> QED BY <1>4, <1>6, <1>7 DEF Verify, MovesOn, Becomes

(* The restored backups are marked, and their sidecars go.                  *)
LEMMA RecordUndoneIInv ==
  ASSUME IInv, NEW w \in Workers, RecordUndone(w) PROVE IInv'
<1> DEFINE r == work[w]
           q == [r EXCEPT !.at = "report", !.token = 0]
<1>1. r.op = "undo" /\ r.at = "record" /\ Fits(w, r, backups)
  BY DEF RecordUndone, Does, IInv, WorkOK
<1>2. /\ UNCHANGED <<rows, rollout, file, backups, offered, codex>> /\ work' = [work EXCEPT ![w] = q]
      /\ marked' \in {marked, marked \cup r.good} /\ sidecar' \in [Tokens -> SUBSET Files]
  BY DEF RecordUndone, MarkersSaved, MovesOn, Becomes, IInv, DiskOK
<1>3. r.good \subseteq Written
  BY <1>1 DEF Fits, Uses, Written
<1>4. /\ DOMAIN q = Fields /\ q.op = r.op /\ q.at = "report" /\ q.s = r.s /\ q.token = 0 /\ q.good = r.good
      /\ q.bad = r.bad /\ q.toks = r.toks /\ q.todo = r.todo /\ q.seen = r.seen /\ q.db = r.db
      /\ q.step = r.step
  BY <1>1 DEF Fits, Fields
<1> HIDE DEF q
<1>5. Uses(q) \subseteq Uses(r)
  BY <1>4 DEF Uses
<1>6. Stage(q) /\ Deleting(q, backups) /\ Clearing(q, backups) /\ Sweeping(q, backups) /\ Undoing(q)
  BY <1>1, <1>4 DEF Fits, Stage, Deleting, Clearing, Sweeping, Undoing, Restoring
<1>7. Fits(w, q, backups) /\ Quiet(q, r)
  BY <1>1, <1>4, <1>5, <1>6 DEF Fits, OneSession, Quiet
<1> QED BY <1>2, <1>3, <1>7, Moved DEF IInv, DiskOK

(* The sweep begins with the backups that are not marked.                   *)
LEMMA LauncherStartsIInv ==
  ASSUME IInv, LauncherStarts PROVE IInv'
<1> DEFINE toks == Written \ marked
           q == [Idle EXCEPT !.op = "sweep", !.at = "judge", !.toks = toks,
                             !.todo = {backups[k].s : k \in toks}]
<1>1. UNCHANGED <<disk, offered, codex>> /\ "launcher" \in Workers
  BY DEF LauncherStarts, Workers
<1>2. \/ work' = [work EXCEPT !["launcher"] = q]
      \/ work' = [work EXCEPT !["launcher"] = Idle]
  BY DEF LauncherStarts, Begins, Ends, Becomes
<1>3. /\ DOMAIN q = Fields /\ q.op = "sweep" /\ q.at = "judge" /\ q.s = {} /\ q.token = 0
      /\ q.good = {} /\ q.bad = {} /\ q.toks = toks /\ q.todo = {backups[k].s : k \in toks}
      /\ q.seen = {} /\ q.db = 1 /\ q.step = "read"
  BY IdleFields DEF Fields
<1> HIDE DEF q
<1>4. Fits("launcher", q, backups) /\ Quiet(q, work["launcher"])
  <2>1. 1 \in Dbs
    BY SomeDbs DEF Dbs
  <2>2. toks \subseteq Written /\ 0 \notin toks
    BY NotZero DEF IInv
  <2>3. Uses(q) = toks
    BY <1>3, <2>2 DEF Uses
  <2>4. Stage(q) /\ Deleting(q, backups) /\ Clearing(q, backups) /\ Sweeping(q, backups) /\ Undoing(q)
    BY <1>3 DEF Stage, Deleting, Clearing, Sweeping, Undoing
  <2> QED BY <1>3, <2>1, <2>2, <2>3, <2>4 DEF Fits, Quiet, Written
<1>5. Fits("launcher", Idle, backups) /\ Quiet(Idle, work["launcher"])
  BY FitsIdle, IdleFields DEF Quiet
<1> QED BY <1>1, <1>2, <1>4, <1>5, Moved DEF disk, IInv, DiskOK

(* The sweep looks at a session.                                            *)
LEMMA FitsAbout ==
  ASSUME IInv, NEW w, NEW r, NEW q, Fits(w, r, backups), r.op = "sweep", r.at = "judge",
         /\ DOMAIN q = Fields /\ q.op = r.op /\ q.at = r.at /\ q.token = r.token /\ q.good = r.good
         /\ q.bad = r.bad /\ q.toks = r.toks /\ q.todo = r.todo /\ q.seen = r.seen /\ q.db = r.db
         /\ q.step = r.step,
         q.s \subseteq Sessions
  PROVE  Fits(w, q, backups) /\ Quiet(q, r)
<1>1. Uses(q) = Uses(r)
  BY DEF Uses
<1>2. Stage(q) /\ Deleting(q, backups) /\ Clearing(q, backups) /\ Sweeping(q, backups) /\ Undoing(q)
  BY DEF Fits, Stage, Deleting, Clearing, Sweeping, Undoing
<1> QED BY <1>1, <1>2 DEF Fits, Quiet

LEMMA FitsAbsent ==
  ASSUME IInv, NEW w, NEW r, NEW q, Fits(w, r, backups), r.op = "sweep", NEW k \in r.toks,
         /\ DOMAIN q = Fields /\ q.op = r.op /\ q.at = "snapshot" /\ q.s = {backups[k].s} /\ q.token = k
         /\ q.good = r.good /\ q.bad = r.bad /\ q.toks = r.toks /\ q.todo = r.todo /\ q.seen = r.seen
         /\ q.db = r.db /\ q.step = r.step
  PROVE  Fits(w, q, backups) /\ Quiet(q, r)
<1>0. k \in Written /\ k # 0 /\ backups[k].s \in Sessions
  <2>1. k \in Written /\ k # 0
    BY DEF Fits, Uses, Written
  <2> QED BY <2>1, BackupFields DEF IInv
<1>1. Uses(q) \subseteq Uses(r) /\ q.s \subseteq Sessions
  BY <1>0 DEF Uses
<1>2. Stage(q) /\ Deleting(q, backups) /\ Clearing(q, backups) /\ Sweeping(q, backups) /\ Undoing(q)
  BY <1>0 DEF Fits, Stage, Deleting, Clearing, Sweeping, Undoing
<1> QED BY <1>1, <1>2 DEF Fits, Quiet

LEMMA JudgeIInv ==
  ASSUME IInv, NEW w \in Workers, NEW s \in Sessions, Judge(w, s) PROVE IInv'
<1> DEFINE r0 == work[w]
           r == [r0 EXCEPT !.s = {s}]
           toks == r.toks \cap BackupsOf(s)
           ids == IF r.cache = <<>> THEN file["index"] ELSE r.cache[1]
           cached == [r EXCEPT !.cache = <<ids>>]
           absent == [r EXCEPT !.at = "snapshot", !.token = Max(toks)]
           both == [absent EXCEPT !.cache = <<ids>>]
<1>1. r0.op = "sweep" /\ r0.at = "judge" /\ Fits(w, r0, backups) /\ s \in r0.todo
  BY DEF Judge, Does, IInv, WorkOK
<1>2. UNCHANGED <<disk, offered, codex>>
  BY DEF Judge
<1>3. \E q \in {Marks(r), absent, Marks(cached), both} : work' = [work EXCEPT ![w] = q]
  BY DEF Judge, MovesOn, Becomes
<1>4. /\ DOMAIN r = Fields /\ r.op = r0.op /\ r.at = r0.at /\ r.token = r0.token /\ r.good = r0.good
      /\ r.bad = r0.bad /\ r.toks = r0.toks /\ r.todo = r0.todo /\ r.seen = r0.seen /\ r.db = r0.db
      /\ r.step = r0.step /\ r.s = {s}
  BY <1>1 DEF Fits, Fields
<1>5. /\ DOMAIN cached = Fields /\ cached.op = r0.op /\ cached.at = r0.at /\ cached.token = r0.token
      /\ cached.good = r0.good /\ cached.bad = r0.bad /\ cached.toks = r0.toks /\ cached.todo = r0.todo
      /\ cached.seen = r0.seen /\ cached.db = r0.db /\ cached.step = r0.step /\ cached.s = {s}
  BY <1>4 DEF Fields
<1>6. \E k \in r0.toks : backups[k].s = s
  BY <1>1 DEF Fits, Sweeping
<1>7. toks \subseteq r0.toks /\ toks # {} /\ toks \subseteq Written /\ \A k \in toks : backups[k].s = s
  <2>1. r0.toks \subseteq Written
    BY <1>1 DEF Fits, Uses, Written
  <2> QED BY <1>4, <1>6, <2>1 DEF BackupsOf
<1>8. Max(toks) \in r0.toks /\ backups[Max(toks)].s = s
  <2>1. Len(backups) \in Nat /\ Written = 1 .. Len(backups)
    BY DEF IInv, GoodBackups, Written
  <2>2. toks \in SUBSET Nat /\ \A x \in toks : x <= Len(backups)
    BY <1>7, <2>1
  <2> HIDE DEF toks
  <2>3. Max(toks) \in toks
    BY <1>7, <2>1, <2>2, MaxMember
  <2> QED BY <1>7, <2>3
<1> DEFINE k == Max(toks)
<1> HIDE DEF k
<1>9. /\ DOMAIN absent = Fields /\ absent.op = r0.op /\ absent.at = "snapshot" /\ absent.token = k
      /\ absent.good = r0.good /\ absent.bad = r0.bad /\ absent.toks = r0.toks /\ absent.todo = r0.todo
      /\ absent.seen = r0.seen /\ absent.db = r0.db /\ absent.step = r0.step /\ absent.s = {s}
  BY <1>4 DEF Fields, k
<1>10. /\ DOMAIN both = Fields /\ both.op = r0.op /\ both.at = "snapshot" /\ both.token = k
       /\ both.good = r0.good /\ both.bad = r0.bad /\ both.toks = r0.toks /\ both.todo = r0.todo
       /\ both.seen = r0.seen /\ both.db = r0.db /\ both.step = r0.step /\ both.s = {s}
  BY <1>9 DEF Fields
<1>11. k \in r0.toks /\ backups[k].s = s
  BY <1>8 DEF k
<1> HIDE DEF both, absent, cached, r, toks, ids
<1>12. Fits(w, r, backups) /\ Quiet(r, r0) /\ Fits(w, cached, backups) /\ Quiet(cached, r0)
  BY <1>1, <1>4, <1>5, FitsAbout
<1>13. /\ Fits(w, Marks(r), backups) /\ Quiet(Marks(r), r0)
       /\ Fits(w, Marks(cached), backups) /\ Quiet(Marks(cached), r0)
  BY <1>1, <1>4, <1>5, <1>12, FitsMarked DEF Quiet
<1>14. Fits(w, absent, backups) /\ Quiet(absent, r0) /\ Fits(w, both, backups) /\ Quiet(both, r0)
  BY <1>1, <1>9, <1>10, <1>11, FitsAbsent
<1> QED BY <1>2, <1>3, <1>13, <1>14, Moved DEF disk, IInv, DiskOK

(* What the files still hold of a session is kept in the sidecar.           *)
LEMMA KeepLeftoversIInv ==
  ASSUME IInv, NEW w \in Workers, KeepLeftovers(w) PROVE IInv'
<1> DEFINE r == work[w]
           entries == EntriesOf(Session(w))
           q == [r EXCEPT !.at = "index", !.done = "index" \in entries]
<1>1. r.op = "sweep" /\ r.at = "snapshot" /\ Fits(w, r, backups)
  BY DEF KeepLeftovers, Does, IInv, WorkOK
<1>2. UNCHANGED <<rows, rollout, file, backups, marked, offered, codex>>
  BY DEF KeepLeftovers
<1>3. \/ sidecar' = sidecar /\ work' = [work EXCEPT ![w] = Marks(r)]
      \/ /\ sidecar' = [sidecar EXCEPT ![r.token] = @ \cup entries]
         /\ work' = [work EXCEPT ![w] = q]
  BY DEF KeepLeftovers, MovesOn, Becomes
<1>4. /\ DOMAIN q = Fields /\ q.op = r.op /\ q.at = "index" /\ q.s = r.s /\ q.token = r.token
      /\ q.good = r.good /\ q.bad = r.bad /\ q.toks = r.toks /\ q.todo = r.todo /\ q.seen = r.seen
      /\ q.db = r.db /\ q.step = r.step
  BY <1>1 DEF Fits, Fields
<1>5. entries \subseteq Files
  BY DEF EntriesOf
<1> HIDE DEF q, entries
<1>6. Fits(w, Marks(r), backups) /\ Quiet(Marks(r), r)
  BY <1>1, FitsMarked
<1>7. Fits(w, q, backups) /\ Quiet(q, r)
  <2>1. Uses(q) = Uses(r)
    BY <1>4 DEF Uses
  <2>2. Stage(q) /\ Deleting(q, backups) /\ Clearing(q, backups) /\ Sweeping(q, backups) /\ Undoing(q)
    BY <1>1, <1>4 DEF Fits, Stage, Deleting, Clearing, Sweeping, Undoing
  <2> QED BY <1>1, <1>4, <2>1, <2>2 DEF Fits, Quiet
<1>8. sidecar' \in [Tokens -> SUBSET Files]
  BY <1>3, <1>5 DEF IInv, DiskOK
<1> QED BY <1>2, <1>3, <1>6, <1>7, <1>8, Moved DEF IInv, DiskOK

(* The end of an operation, and of a process.                               *)
LEMMA SweepEndsIInv ==
  ASSUME IInv, NEW w \in Workers, SweepEnds(w) PROVE IInv'
<1>1. Fits(w, work[w], backups)
  BY DEF IInv, WorkOK
<1>2. /\ UNCHANGED <<rows, rollout, file, backups, sidecar, offered, codex>>
      /\ work' = [work EXCEPT ![w] = Idle] /\ marked' \in {marked, marked \cup work[w].good}
  BY DEF SweepEnds, Ends, Begins, Becomes, MarkersSaved
<1>3. work[w].good \subseteq Written
  BY <1>1 DEF Fits, Uses, Written
<1>4. Fits(w, Idle, backups) /\ Quiet(Idle, work[w])
  BY FitsIdle, IdleFields DEF Quiet
<1> QED BY <1>2, <1>3, <1>4, Moved DEF IInv, DiskOK

LEMMA CrashIInv ==
  ASSUME IInv, NEW w \in Workers, Crash(w) PROVE IInv'
<1>1. UNCHANGED <<disk, offered, codex>>
      /\ \E q \in {Idle, Down} : work' = [work EXCEPT ![w] = q]
  BY DEF Crash, Begins, Becomes
<1>2. \A q \in {Idle, Down} : Fits(w, q, backups) /\ Quiet(q, work[w])
  BY FitsIdle, IdleFields DEF Quiet
<1> QED BY <1>1, <1>2, Moved DEF disk, IInv, DiskOK

(* The session that a failing step of the sweep is about is one of those it *)
(* still looks at.                                                          *)
LEMMA FailsFits ==
  ASSUME IInv, NEW w \in Workers, work[w].at \notin {"idle", "down", "record", "report"},
         NEW s \in IF work[w].at = "judge" THEN {{x} : x \in work[w].todo} ELSE {work[w].s}
  PROVE  LET r == work[w]  q == [r EXCEPT !.s = s] IN
         /\ DOMAIN q = Fields /\ q.op = r.op /\ q.at = r.at /\ q.token = r.token /\ q.good = r.good
         /\ q.s = s /\ q.had = r.had /\ q.done = r.done /\ q.toks = r.toks
         /\ Fits(w, q, backups) /\ Quiet(q, r)
<1> DEFINE r == work[w]
           q == [r EXCEPT !.s = s]
<1>1. Fits(w, r, backups)
  BY DEF IInv, WorkOK
<1>2. s \in IF r.at = "judge" THEN {{x} : x \in r.todo} ELSE {r.s}
  OBVIOUS
<1>3. /\ DOMAIN q = Fields /\ q.op = r.op /\ q.at = r.at /\ q.token = r.token /\ q.good = r.good
      /\ q.bad = r.bad /\ q.toks = r.toks /\ q.todo = r.todo /\ q.seen = r.seen /\ q.db = r.db
      /\ q.step = r.step /\ q.s = s /\ q.had = r.had /\ q.done = r.done
  BY <1>1 DEF Fits, Fields
<1> HIDE DEF q
<1>4. Fits(w, q, backups) /\ Quiet(q, r)
  <2>1. CASE r.at = "judge"
    <3>1. r.op = "sweep"
      BY <1>1, <2>1, IdleFields DEF Fits, Stage, Committing, Editing
    <3>2. PICK x \in r.todo : s = {x}
      BY <1>2, <2>1
    <3>3. PICK k \in r.toks : backups[k].s = x
      BY <1>1, <3>1, <3>2 DEF Fits, Sweeping
    <3>4. k \in Written
      BY <1>1, <3>3 DEF Fits, Uses, Written
    <3>5. x \in Sessions
      BY <3>3, <3>4, BackupFields DEF IInv
    <3> QED BY <1>1, <1>3, <2>1, <3>1, <3>2, <3>5, FitsAbout
  <2>2. CASE r.at # "judge"
    <3>1. s = r.s
      BY <1>2, <2>2
    <3>2. Same(q, r)
      BY <1>3, <3>1 DEF Same
    <3>3. Stage(q)
      BY <1>1, <1>3, IdleFields DEF Fits, Stage
    <3>4. Deleting(q, backups) /\ Clearing(q, backups) /\ Sweeping(q, backups) /\ Undoing(q)
      BY <1>1, <1>3, <3>1 DEF Fits, Deleting, Clearing, Sweeping, Undoing
    <3> QED BY <1>1, <1>3, <3>2, <3>3, <3>4, FitsSame DEF Quiet
  <2> QED BY <2>1, <2>2
<1> QED BY <1>3, <1>4 DEF q

(* A step fails.                                                            *)
LEMMA FailsIInv ==
  ASSUME IInv, NEW w \in Workers, Fails(w) PROVE IInv'
<1> DEFINE r == work[w]
<1>1. r.at \notin {"idle", "down", "record", "report"} /\ UNCHANGED <<disk, offered, codex>>
  BY DEF Fails
<1>2. PICK s \in IF r.at = "judge" THEN {{x} : x \in r.todo} ELSE {r.s} :
         work' = [work EXCEPT ![w] = AfterFailure([r EXCEPT !.s = s])]
  BY DEF Fails, MovesOn, Becomes
<1> DEFINE q == [r EXCEPT !.s = s]
<1>3. q.at = r.at /\ Fits(w, q, backups) /\ Quiet(q, r)
  BY <1>1, <1>2, FailsFits
<1>4. work' = [work EXCEPT ![w] = AfterFailure(q)]
  BY <1>2
<1> HIDE DEF q
<1>5. Fits(w, AfterFailure(q), backups) /\ Quiet(AfterFailure(q), q)
  BY <1>1, <1>3, FitsFailed
<1>6. Quiet(AfterFailure(q), r)
  BY <1>3, <1>5 DEF Quiet
<1> QED BY <1>1, <1>4, <1>5, <1>6, Moved DEF disk, IInv, DiskOK

(* Codex reads the global state when it starts, and writes what it has in   *)
(* memory; it adds to the index and to the rows.                            *)
LEMMA CodexIInv ==
  ASSUME IInv, CodexStep PROVE IInv'
<1>1. UNCHANGED <<backups, sidecar, marked, offered, work>>
  BY DEF CodexStep, CodexStarts, CodexStops, CodexFlushes, CodexIndexes, CodexRewrites, disk
<1>2. GoodBackups(backups') /\ WorkOK'
  BY <1>1 DEF IInv, WorkOK
<1>3. CASE CodexStarts
  <2>1. /\ codex'.on = TRUE /\ codex'.mem = file["global"] /\ codex'.open \subseteq Threads
        /\ UNCHANGED disk
    BY <1>3 DEF CodexStarts
  <2>2. DiskOK' /\ RowsKept' /\ ApisKept'
    BY <1>1, <2>1 DEF disk, IInv, DiskOK, RowsKept, ApisKept, Untouched, Written, Files, Sessions
  <2> QED BY <1>2, <2>2 DEF IInv
<1>4. CASE CodexStops
  <2>1. codex'.on = FALSE /\ codex'.mem = {} /\ codex'.open = {} /\ UNCHANGED disk
    BY <1>4 DEF CodexStops, CodexOff
  <2>2. DiskOK' /\ RowsKept' /\ ApisKept'
    BY <1>1, <2>1 DEF disk, IInv, DiskOK, RowsKept, ApisKept, Untouched, Written
  <2> QED BY <1>2, <2>2 DEF IInv
<1>5. CASE CodexFlushes
  <2>1. codex.on /\ file' = [file EXCEPT !["global"] = codex.mem] /\ UNCHANGED <<rows, rollout, codex>>
    BY <1>5 DEF CodexFlushes
  <2>2. DiskOK' /\ RowsKept'
    <3>1. file' \in [Files -> SUBSET Sessions]
      BY <2>1 DEF IInv, DiskOK
    <3>2. RowsKept'
      BY <1>1, <2>1 DEF IInv, RowsKept, Written
    <3> QED BY <1>1, <2>1, <3>1, <3>2 DEF IInv, DiskOK, Written
  <2>3. ApisKept'
    BY <1>1, <2>1 DEF IInv, DiskOK, ApisKept, Untouched, Written
  <2> QED BY <1>2, <2>2, <2>3 DEF IInv
<1>6. CASE \E s \in Sessions : CodexIndexes(s)
  <2>1. PICK s \in Sessions : file' = [file EXCEPT !["index"] = @ \cup {s}] /\ UNCHANGED <<rows, rollout, codex>>
    BY <1>6 DEF CodexIndexes
  <2>2. DiskOK' /\ RowsKept'
    <3>1. file' \in [Files -> SUBSET Sessions]
      BY <2>1 DEF IInv, DiskOK
    <3>2. RowsKept'
      BY <1>1, <2>1 DEF IInv, RowsKept, Written
    <3> QED BY <1>1, <2>1, <3>1, <3>2 DEF IInv, DiskOK, Written
  <2>3. ApisKept'
    BY <1>1, <2>1 DEF IInv, DiskOK, ApisKept, Untouched, Written
  <2> QED BY <1>2, <2>2, <2>3 DEF IInv
<1>7. CASE \E t \in Sessions : CodexRewrites(t)
  <2>1. PICK t \in Sessions : /\ UNCHANGED <<file, codex>>
                              /\ \/ \E d \in Dbs : rows' = [rows EXCEPT ![t][d] = "new"] /\ UNCHANGED rollout
                                 \/ rollout' = [rollout EXCEPT ![t] = "new"] /\ UNCHANGED rows
    BY <1>7 DEF CodexRewrites
  <2>2. DiskOK'
    BY <1>1, <2>1 DEF IInv, DiskOK, Written, Versions
  <2>3. RowsKept'
    BY <1>1, <2>1 DEF IInv, DiskOK, RowsKept, Written
  <2>4. ApisKept'
    BY <1>1, <2>1 DEF IInv, ApisKept, Untouched, Written
  <2> QED BY <1>2, <2>2, <2>3, <2>4 DEF IInv
<1> QED BY <1>3, <1>4, <1>5, <1>6, <1>7 DEF CodexStep

LEMMA StepIInv == IInv /\ [Next]_vars => IInv'
<1> SUFFICES ASSUME IInv, [Next]_vars PROVE IInv'
  OBVIOUS
<1>1. ASSUME NEW w \in Workers, NEW s \in Sessions, DeleteBegins(w, s) PROVE IInv'
  BY <1>1, DeleteBeginsIInv
<1>2. ASSUME NEW w \in Workers, DeleteStep(w) PROVE IInv'
  BY <1>2, LookIInv, CommitIInv, RemoveRolloutIInv, SaveEntriesIInv DEF DeleteStep
<1>3. ASSUME NEW w \in Workers, EditStep(w) PROVE IInv'
  BY <1>3, ReadFileIInv, WriteFileIInv DEF EditStep
<1>4. ASSUME NEW w \in Workers, UndoStep(w) PROVE IInv'
  BY <1>4, CheckConflictsIInv, RestoreRowsIInv, RestoreRolloutIInv, VerifyIInv, RecordUndoneIInv DEF UndoStep
<1>5. ASSUME NEW w \in Workers, SweepStep(w) PROVE IInv'
  BY <1>5, JudgeIInv, KeepLeftoversIInv, SweepEndsIInv DEF SweepStep
<1>6. ASSUME NEW w \in Workers, Report(w) \/ Fails(w) \/ Crash(w) PROVE IInv'
  BY <1>6, ReportIInv, FailsIInv, CrashIInv
<1>7. ASSUME NEW T \in offered, UndoBegins(T) PROVE IInv'
  BY <1>7, UndoBeginsIInv
<1>8. CASE LauncherStarts \/ CodexStep
  BY <1>8, LauncherStartsIInv, CodexIInv
<1>9. CASE UNCHANGED vars
  BY <1>9 DEF vars, disk, IInv, GoodBackups, DiskOK, WorkOK, RowsKept, ApisKept, Untouched, Written
<1> QED BY <1>1, <1>2, <1>3, <1>4, <1>5, <1>6, <1>7, <1>8, <1>9 DEF Next

LEMMA AlwaysIInv == Spec => []IInv
  BY InitIInv, StepIInv, PTL DEF Spec

LEMMA KeptIsNotLost == IInv => NothingIsLost
<1> SUFFICES ASSUME IInv PROVE NothingIsLost
  OBVIOUS
<1>1. TypeOK
  <2>1. \A k \in Written : /\ backups[k].s \in Sessions /\ backups[k].db \in 0 .. NumDbs
                           /\ {backups[k].row, backups[k].roll} \subseteq Versions
                           /\ backups[k].entries \subseteq Files
    BY BackupFields DEF IInv
  <2>2. UNION offered \subseteq Written
    BY DEF IInv, DiskOK, GoodTokens, Written
  <2>3. \A w \in Workers : /\ work[w].token \in Written \cup {0}
                           /\ work[w].op \in {"undo", "sweep"} => w = "launcher"
    BY DEF IInv, WorkOK, Fits, Uses, Written
  <2> QED BY <2>1, <2>2, <2>3 DEF IInv, DiskOK, TypeOK
<1>2. \A t \in Threads :
         /\ \A d \in Dbs : rows[t][d] # "none" \/ \E k \in BackupsOf(t) : backups[k].db = d
         /\ HasRollout(t) \/ \E k \in BackupsOf(t) : backups[k].roll # "none"
  BY DEF IInv, RowsKept, BackupsOf, HasRollout
<1>3. \A a \in Apis : EntriesOf(a) # {} \/ \E k \in BackupsOf(a) : Entries(k) # {}
  <2> SUFFICES ASSUME NEW a \in Apis PROVE EntriesOf(a) # {} \/ \E k \in BackupsOf(a) : Entries(k) # {}
    OBVIOUS
  <2>1. CASE Untouched(a)
    BY <2>1 DEF Untouched, EntriesOf, Files
  <2>2. CASE \E k \in Written : backups[k].s = a
    <3>1. PICK k \in Written : backups[k].s = a
      BY <2>2
    <3>2. backups[k].entries # {}
      BY <3>1, SessionsDiffer DEF IInv, GoodBackups, GoodBackup, Written
    <3> QED BY <3>1, <3>2 DEF BackupsOf, Entries
  <2> QED BY <2>1, <2>2 DEF IInv, ApisKept
<1> QED BY <1>1, <1>2, <1>3 DEF NothingIsLost

(* NothingIsLost: for any number of sessions, databases and backups, a row  *)
(* or a rollout that is gone is in a backup, and a session of the pure API   *)
(* mode is in the sidebar or in a backup.                                    *)
THEOREM StorageLosesNothing == Spec => []NothingIsLost
  BY AlwaysIInv, KeptIsNotLost, PTL

-----------------------------------------------------------------------------
(* What an operation may rely on while others work: whatever they take from *)
(* a session, or give to it, is noted in "since".                           *)
Keeps(s) ==
    /\ RowsOf(s) \subseteq RowsOf(s)' /\ EntriesOf(s) \subseteq EntriesOf(s)'
    /\ HasRollout(s) => HasRollout(s)'
Gains(s) == ~(RowsOf(s)' \subseteq RowsOf(s) /\ EntriesOf(s)' \subseteq EntriesOf(s))
Noted(w) ==
    /\ work'[w] = work[w] /\ Grown(backups, backups')
    /\ since[w].took \subseteq since'[w].took /\ since[w].gave \subseteq since'[w].gave
    /\ work[w].op # "none" =>
          \A s \in Sessions : (s \in since'[w].took \/ Keeps(s)) /\ (s \in since'[w].gave \/ ~Gains(s))
SinceOK == DOMAIN since = Workers

LEMMA QuietIsNoted ==
  ASSUME IInv, SinceOK, NEW v \in Workers, NEW w \in Workers \ {v}, NEW q, work' = [work EXCEPT ![v] = q],
         UNCHANGED <<rows, rollout, file>>, Grown(backups, backups'),
         since' = since \/ since' = [since EXCEPT ![v] = Nothing]
  PROVE  Noted(w)
<1>1. work'[w] = work[w] /\ since'[w] = since[w]
  BY DEF SinceOK, IInv, WorkOK
<1>2. \A s \in Sessions : Keeps(s) /\ ~Gains(s)
  BY DEF Keeps, Gains, RowsOf, EntriesOf, HasRollout
<1> QED BY <1>1, <1>2 DEF Noted

LEMMA ChangeIsNoted ==
  ASSUME IInv, NEW v, NEW w \in Workers \ {v}, work'[w] = work[w], Grown(backups, backups'),
         NEW took, NEW gave, Notes(v, took, gave),
         \A s \in Sessions : (s \in took \/ Keeps(s)) /\ (s \in gave \/ ~Gains(s))
  PROVE  Noted(w)
<1>1. CASE work[w].op = "none"
  <2>1. since'[w] = since[w]
    BY <1>1 DEF Notes
  <2> QED BY <1>1, <2>1 DEF Noted
<1>2. CASE work[w].op # "none"
  <2>1. since'[w].took = since[w].took \cup took /\ since'[w].gave = since[w].gave \cup gave
    BY <1>2 DEF Notes
  <2> QED BY <1>2, <2>1 DEF Noted
<1> QED BY <1>1, <1>2

(* The history stays a function on the workers, and an operation that has   *)
(* not ended keeps its own.                                                 *)
LEMMA SinceStays ==
  ASSUME SinceOK, NEW v,
         \/ since' = since \/ since' = [since EXCEPT ![v] = Nothing]
         \/ \E took, gave : Notes(v, took, gave)
  PROVE  SinceOK'
  BY DEF SinceOK, Notes

LEMMA OwnNotes ==
  ASSUME SinceOK, NEW v \in Workers, since' = since \/ \E took, gave : Notes(v, took, gave)
  PROVE  since'[v] = since[v]
  BY DEF SinceOK, Notes

(* The steps of one worker, as the others see them.                         *)
Step(v) ==
    \/ \E s \in Sessions : DeleteBegins(v, s)
    \/ DeleteStep(v) \/ EditStep(v) \/ UndoStep(v) \/ SweepStep(v)
    \/ Report(v) \/ Fails(v) \/ Crash(v)
    \/ v = "launcher" /\ ((\E T \in offered : UndoBegins(T)) \/ LauncherStarts)

(* Steps that change no row, rollout or file.                               *)
LEMMA QuietSteps ==
  ASSUME IInv, SinceOK, NEW v \in Workers,
         \/ \E s \in Sessions : DeleteBegins(v, s) \/ Judge(v, s)
         \/ Look(v) \/ SaveEntries(v) \/ ReadFile(v) \/ CheckConflicts(v) \/ Verify(v) \/ RecordUndone(v)
         \/ KeepLeftovers(v) \/ SweepEnds(v) \/ Report(v) \/ Fails(v) \/ Crash(v)
         \/ v = "launcher" /\ ((\E T \in offered : UndoBegins(T)) \/ LauncherStarts)
  PROVE  /\ UNCHANGED <<rows, rollout, file>> /\ \E q : work' = [work EXCEPT ![v] = q]
         /\ since' = since \/ since' = [since EXCEPT ![v] = Nothing]
         /\ Grown(backups, backups')
<1> USE DEF Begins, Ends, MovesOn, Becomes, disk
<1>0. backups' = backups => Grown(backups, backups')
  BY DEF Grown
<1>1. CASE \E s \in Sessions : DeleteBegins(v, s) \/ Judge(v, s)
  BY <1>0, <1>1 DEF DeleteBegins, Judge
<1>2. CASE Look(v) \/ SaveEntries(v)
  <2>1. backups' = backups \/ \E b : backups' = Append(backups, b)
    BY <1>2 DEF Look, SaveEntries
  <2>2. backups \in Seq(BackupType)
    BY DEF IInv, GoodBackups
  <2>3. Grown(backups, backups')
    BY <2>1, <2>2 DEF Grown
  <2> QED BY <1>2, <2>3 DEF Look, SaveEntries
<1>3. CASE ReadFile(v) \/ CheckConflicts(v) \/ Verify(v) \/ RecordUndone(v)
  BY <1>0, <1>3 DEF ReadFile, CheckConflicts, Verify, RecordUndone
<1>4. CASE KeepLeftovers(v) \/ SweepEnds(v) \/ Report(v) \/ Fails(v) \/ Crash(v)
  BY <1>0, <1>4 DEF KeepLeftovers, SweepEnds, Report, Fails, Crash
<1>5. CASE v = "launcher" /\ ((\E T \in offered : UndoBegins(T)) \/ LauncherStarts)
  BY <1>0, <1>5 DEF UndoBegins, LauncherStarts
<1> QED BY <1>1, <1>2, <1>3, <1>4, <1>5

LEMMA OthersAreNoted ==
  ASSUME IInv, SinceOK, NEW v \in Workers, NEW w \in Workers \ {v}, Step(v)
  PROVE  Noted(w) /\ SinceOK'
<1> DEFINE r == work[v]
           s == Session(v)
<1>0. /\ Fits(v, r, backups)
      /\ r.op \in {"delete", "clear", "undo"} => r.s = {s} /\ s \in Sessions
  BY OwnSession DEF IInv, WorkOK
<1>1. CASE \/ \E x \in Sessions : DeleteBegins(v, x) \/ Judge(v, x)
           \/ Look(v) \/ SaveEntries(v) \/ ReadFile(v) \/ CheckConflicts(v) \/ Verify(v) \/ RecordUndone(v)
           \/ KeepLeftovers(v) \/ SweepEnds(v) \/ Report(v) \/ Fails(v) \/ Crash(v)
           \/ v = "launcher" /\ ((\E T \in offered : UndoBegins(T)) \/ LauncherStarts)
  BY <1>1, QuietSteps, QuietIsNoted, SinceStays
<1>2. CASE Commit(v)
  <2>1. /\ rows' = [rows EXCEPT ![s][r.db] = "none"] /\ UNCHANGED <<rollout, file, backups>>
        /\ Notes(v, {s}, {}) /\ \E q : work' = [work EXCEPT ![v] = q]
    BY <1>2 DEF Commit, Becomes
  <2>2. work'[w] = work[w] /\ Grown(backups, backups')
    BY <2>1 DEF IInv, WorkOK, Grown
  <2>3. \A x \in Sessions \ {s} : Keeps(x)
    BY <2>1 DEF IInv, DiskOK, Keeps, RowsOf, EntriesOf, HasRollout
  <2>4. \A x \in Sessions : ~Gains(x)
    BY <2>1 DEF IInv, DiskOK, Gains, RowsOf, EntriesOf
  <2> QED BY <2>1, <2>2, <2>3, <2>4, ChangeIsNoted, SinceStays
<1>3. CASE RemoveRollout(v)
  <2>1. /\ UNCHANGED <<rows, file, backups>> /\ \E q : work' = [work EXCEPT ![v] = q]
        /\ \/ rollout' = [rollout EXCEPT ![s] = "none"] /\ Notes(v, {s}, {})
           \/ UNCHANGED <<rollout, since>>
    BY <1>3 DEF RemoveRollout, Becomes
  <2>2. work'[w] = work[w] /\ Grown(backups, backups')
    BY <2>1 DEF IInv, WorkOK, Grown
  <2>3. \A x \in Sessions : (x = s \/ Keeps(x)) /\ ~Gains(x)
    BY <2>1 DEF IInv, DiskOK, Keeps, Gains, RowsOf, EntriesOf, HasRollout
  <2>4. CASE Notes(v, {s}, {})
    BY <2>2, <2>3, <2>4, ChangeIsNoted, SinceStays
  <2>5. CASE UNCHANGED <<rollout, since>>
    BY <2>1, <2>2, <2>5, QuietIsNoted, SinceStays
  <2> QED BY <2>1, <2>4, <2>5
<1>4. CASE WriteFile(v)
  <2> DEFINE next == IF Undoes(r) THEN r.seen \cup r.s ELSE r.seen \ r.s
  <2>1. PICK f \in Files :
          /\ file' = [file EXCEPT ![f] = next] /\ Notes(v, file[f] \ next, next \ file[f])
          /\ UNCHANGED <<rows, rollout, backups>> /\ \E q : work' = [work EXCEPT ![v] = q]
    BY <1>4 DEF WriteFile, Becomes
  <2> HIDE DEF next
  <2>2. work'[w] = work[w] /\ Grown(backups, backups')
    BY <2>1 DEF IInv, WorkOK, Grown
  <2>3. \A x \in Sessions : x \in file[f] \ next \/ Keeps(x)
    BY <2>1 DEF IInv, DiskOK, Keeps, RowsOf, EntriesOf, HasRollout
  <2>4. \A x \in Sessions : x \in next \ file[f] \/ ~Gains(x)
    BY <2>1 DEF IInv, DiskOK, Gains, RowsOf, EntriesOf
  <2> QED BY <2>1, <2>2, <2>3, <2>4, ChangeIsNoted, SinceStays
<1>5. CASE RestoreRows(v)
  <2>1. /\ UNCHANGED <<rollout, file, backups>> /\ \E q : work' = [work EXCEPT ![v] = q]
        /\ \/ UNCHANGED <<rows, since>>
           \/ /\ rows' = [rows EXCEPT ![s][backups[r.token].db] = backups[r.token].row]
              /\ Notes(v, {}, {s}) /\ HasDbRows(r.token)
    BY <1>5 DEF RestoreRows, MovesOn, Becomes
  <2>2. work'[w] = work[w] /\ Grown(backups, backups')
    BY <2>1 DEF IInv, WorkOK, Grown
  <2>3. CASE UNCHANGED <<rows, since>>
    BY <2>1, <2>2, <2>3, QuietIsNoted, SinceStays
  <2>4. CASE /\ rows' = [rows EXCEPT ![s][backups[r.token].db] = backups[r.token].row]
             /\ Notes(v, {}, {s}) /\ HasDbRows(r.token)
    <3>1. backups[r.token].row # "none"
      <4>1. r.token \in Written
        BY <1>0, <1>5 DEF RestoreRows, Does, Fits, Undoing, Restoring, Uses, Written
      <4> QED BY <2>4, <4>1 DEF IInv, GoodBackups, GoodBackup, HasDbRows, Written
    <3>2. \A x \in Sessions : Keeps(x)
      BY <2>1, <2>4, <3>1 DEF IInv, DiskOK, Keeps, RowsOf, EntriesOf, HasRollout
    <3>3. \A x \in Sessions \ {s} : ~Gains(x)
      BY <2>1, <2>4 DEF IInv, DiskOK, Gains, RowsOf, EntriesOf
    <3> QED BY <2>2, <2>4, <3>2, <3>3, ChangeIsNoted, SinceStays
  <2> QED BY <2>1, <2>3, <2>4
<1>6. CASE RestoreRollout(v)
  <2>1. /\ UNCHANGED <<rows, file, backups>> /\ \E q : work' = [work EXCEPT ![v] = q]
        /\ \/ UNCHANGED <<rollout, since>>
           \/ /\ rollout' = [rollout EXCEPT ![s] = backups[r.token].roll]
              /\ Notes(v, {}, {s}) /\ backups[r.token].roll # "none"
    BY <1>6 DEF RestoreRollout, MovesOn, Becomes
  <2>2. work'[w] = work[w] /\ Grown(backups, backups')
    BY <2>1 DEF IInv, WorkOK, Grown
  <2>3. CASE UNCHANGED <<rollout, since>>
    BY <2>1, <2>2, <2>3, QuietIsNoted, SinceStays
  <2>4. CASE /\ rollout' = [rollout EXCEPT ![s] = backups[r.token].roll]
             /\ Notes(v, {}, {s}) /\ backups[r.token].roll # "none"
    <3>1. \A x \in Sessions : Keeps(x)
      BY <2>1, <2>4 DEF IInv, DiskOK, Keeps, RowsOf, EntriesOf, HasRollout
    <3>2. \A x \in Sessions \ {s} : ~Gains(x)
      BY <2>1, <2>4 DEF Gains, RowsOf, EntriesOf
    <3> QED BY <2>2, <2>4, <3>1, <3>2, ChangeIsNoted, SinceStays
  <2> QED BY <2>1, <2>3, <2>4
<1> QED BY <1>1, <1>2, <1>3, <1>4, <1>5, <1>6 DEF Step, DeleteStep, EditStep, UndoStep, SweepStep

LEMMA CodexIsNoted ==
  ASSUME IInv, SinceOK, CodexStep, NEW w \in Workers PROVE Noted(w) /\ SinceOK'
<1>0. UNCHANGED <<backups, work>> /\ Grown(backups, backups') /\ "codex" \notin Workers
  BY DEF CodexStep, CodexStarts, CodexStops, CodexFlushes, CodexIndexes, CodexRewrites, disk, Grown, Workers
<1>1. CASE CodexStarts \/ CodexStops
  <2>1. UNCHANGED <<rows, rollout, file, since>>
    BY <1>1 DEF CodexStarts, CodexStops, disk
  <2>2. \A s \in Sessions : Keeps(s) /\ ~Gains(s)
    BY <2>1 DEF Keeps, Gains, RowsOf, EntriesOf, HasRollout
  <2> QED BY <1>0, <2>1, <2>2 DEF Noted, SinceOK
<1>2. CASE CodexFlushes
  <2>1. /\ file' = [file EXCEPT !["global"] = codex.mem] /\ UNCHANGED <<rows, rollout>>
        /\ Notes("codex", file["global"] \ codex.mem, codex.mem \ file["global"])
    BY <1>2 DEF CodexFlushes
  <2>2. \A s \in Sessions : s \in file["global"] \ codex.mem \/ Keeps(s)
    BY <2>1 DEF IInv, DiskOK, Keeps, RowsOf, EntriesOf, HasRollout
  <2>3. \A s \in Sessions : s \in codex.mem \ file["global"] \/ ~Gains(s)
    BY <2>1 DEF IInv, DiskOK, Gains, RowsOf, EntriesOf
  <2> QED BY <1>0, <2>1, <2>2, <2>3, ChangeIsNoted, SinceStays
<1>3. CASE \E t \in Sessions : CodexIndexes(t)
  <2>1. PICK t \in Sessions : /\ file' = [file EXCEPT !["index"] = @ \cup {t}] /\ UNCHANGED <<rows, rollout>>
                              /\ Notes("codex", {}, {t})
    BY <1>3 DEF CodexIndexes
  <2>2. \A s \in Sessions : Keeps(s)
    BY <2>1 DEF IInv, DiskOK, Keeps, RowsOf, EntriesOf, HasRollout
  <2>3. \A s \in Sessions \ {t} : ~Gains(s)
    BY <2>1 DEF IInv, DiskOK, Gains, RowsOf, EntriesOf
  <2> QED BY <1>0, <2>1, <2>2, <2>3, ChangeIsNoted, SinceStays
<1>4. CASE \E t \in Sessions : CodexRewrites(t)
  <2>1. PICK t \in Sessions : /\ UNCHANGED file /\ Notes("codex", {}, {t})
                              /\ \/ \E d \in Dbs : rows' = [rows EXCEPT ![t][d] = "new"] /\ UNCHANGED rollout
                                 \/ rollout' = [rollout EXCEPT ![t] = "new"] /\ UNCHANGED rows
    BY <1>4 DEF CodexRewrites
  <2>2. \A s \in Sessions : Keeps(s)
    BY <2>1 DEF IInv, DiskOK, Keeps, RowsOf, EntriesOf, HasRollout
  <2>3. \A s \in Sessions \ {t} : ~Gains(s)
    BY <2>1 DEF IInv, DiskOK, Gains, RowsOf, EntriesOf
  <2> QED BY <1>0, <2>1, <2>2, <2>3, ChangeIsNoted, SinceStays
<1> QED BY <1>1, <1>2, <1>3, <1>4 DEF CodexStep

-----------------------------------------------------------------------------
(* What a backup holds; a deletion has a backup of every part that it has   *)
(* taken, and of every entry that it is still to take.                      *)
FileParts == {<<"file", f>> : f \in Files}
Holds(b) ==
    {<<"row", d>> : d \in {b.db} \ {0}} \cup {<<"file", f>> : f \in b.entries}
        \cup (IF b.roll # "none" THEN {<<"rollout", 0>>} ELSE {})
EditsAhead(r) == (r.op = "delete" /\ r.at \in Committing) \/ (r.op = "clear" /\ r.at \in Editing)
Covered(r, p, B) ==
    \/ r.op = "delete" /\ \E k \in r.good : p \in Holds(B[k])
    \/ r.op = "clear" /\ r.at # "save" /\ r.token # 0 /\ p \in Holds(B[r.token])
Safe(r, p, B) == p \in FileParts /\ EditsAhead(r) => r.token # 0 /\ p \in Holds(B[r.token])
Recoverable(w) ==
    LET r == work[w] IN
    r.op \in {"delete", "clear"} =>
       \A s \in r.s :
          \/ s \in since[w].took
          \/ \A p \in r.had : Covered(r, p, backups) \/ (p \in Parts(s) /\ Safe(r, p, backups))

(* A record q of the operation of r under which as much can be restored.    *)
Covers(q, r) ==
    /\ q.s = r.s /\ q.had = r.had
    /\ \/ q.op = "delete" /\ r.op = "delete" /\ r.good \subseteq q.good
       \/ q.op = "clear" /\ q.at = "save" /\ r.op = "delete" /\ r.good = {}
       \/ q.op = "clear" /\ r.op = "clear" /\ (r.at = "save" \/ (q.at # "save" /\ q.token = r.token))
Reaches(q, r) == EditsAhead(q) => EditsAhead(r) /\ q.token = r.token

LEMMA CoversAll ==
  ASSUME NEW q, NEW r, Covers(q, r), NEW B, NEW C, NEW w, Fits(w, r, B), Grown(B, C), NEW p, Covered(r, p, B)
  PROVE  Covered(q, p, C)
<1>1. \A k \in Uses(r) : C[k] = B[k]
  BY DEF Fits, Grown
<1>2. \A k \in r.good : C[k] = B[k]
  BY <1>1 DEF Uses, Fits
<1>3. r.token # 0 => C[r.token] = B[r.token]
  BY <1>1 DEF Uses
<1> QED BY <1>2, <1>3 DEF Covers, Covered

LEMMA StaysSafe ==
  ASSUME NEW q, NEW r, Reaches(q, r), NEW B, NEW C, NEW w, Fits(w, r, B), Grown(B, C), NEW p, Safe(r, p, B)
  PROVE  Safe(q, p, C)
<1>1. r.token # 0 => C[r.token] = B[r.token]
  BY DEF Fits, Grown, Uses
<1> QED BY <1>1 DEF Reaches, Safe

LEMMA KeptParts ==
  ASSUME NEW s, Keeps(s) PROVE Parts(s) \subseteq Parts(s)'
  BY DEF Keeps, Parts

LEMMA RecoverableNoted ==
  ASSUME IInv, NEW w \in Workers, Recoverable(w), Noted(w) PROVE Recoverable(w)'
<1> DEFINE r == work[w]
<1>1. work'[w] = r /\ since[w].took \subseteq since'[w].took /\ Grown(backups, backups') /\ Fits(w, r, backups)
  BY DEF Noted, IInv, WorkOK
<1> SUFFICES ASSUME r.op \in {"delete", "clear"}, NEW s \in r.s, s \notin since'[w].took, NEW p \in r.had
             PROVE  Covered(r, p, backups') \/ (p \in Parts(s)' /\ Safe(r, p, backups'))
  BY <1>1 DEF Recoverable
<1>2. s \in Sessions /\ s \notin since[w].took
  BY <1>1 DEF Fits
<1>3. Parts(s) \subseteq Parts(s)'
  BY <1>2, KeptParts DEF Noted
<1>5. Covers(r, r) /\ Reaches(r, r)
  BY DEF Covers, Reaches
<1>6. Covered(r, p, backups) \/ (p \in Parts(s) /\ Safe(r, p, backups))
  BY <1>2 DEF Recoverable
<1> QED BY <1>1, <1>3, <1>5, <1>6, CoversAll, StaysSafe

(* An own step: what it takes is covered, all else is where it was.         *)
LEMMA RecoverableStep ==
  ASSUME IInv, NEW w \in Workers, Recoverable(w), NEW q, work' = [work EXCEPT ![w] = q],
         since'[w] = since[w], Grown(backups, backups'), work[w].op \in {"delete", "clear"},
         Covers(q, work[w]),
         \A s \in work[w].s : \A p \in Parts(s) :
            Safe(work[w], p, backups) =>
               Covered(q, p, backups') \/ (p \in Parts(s)' /\ Safe(q, p, backups'))
  PROVE  Recoverable(w)'
<1> DEFINE r == work[w]
<1>1. work'[w] = q /\ Fits(w, r, backups)
  BY DEF IInv, WorkOK
<1>2. q.s = r.s /\ q.had = r.had
  BY DEF Covers
<1> SUFFICES ASSUME NEW s \in r.s, s \notin since[w].took, NEW p \in r.had
             PROVE  Covered(q, p, backups') \/ (p \in Parts(s)' /\ Safe(q, p, backups'))
  BY <1>1, <1>2 DEF Recoverable
<1>3. Covered(r, p, backups) \/ (p \in Parts(s) /\ Safe(r, p, backups))
  BY DEF Recoverable
<1> QED BY <1>1, <1>3, CoversAll

(* An own step that takes nothing.                                          *)
LEMMA RecoverableMoved ==
  ASSUME IInv, NEW w \in Workers, Recoverable(w), NEW q, work' = [work EXCEPT ![w] = q],
         since'[w] = since[w], Grown(backups, backups'), work[w].op \in {"delete", "clear"},
         Covers(q, work[w]), Reaches(q, work[w]), UNCHANGED <<rows, rollout, file>>
  PROVE  Recoverable(w)'
<1>1. \A s : Parts(s)' = Parts(s)
  BY DEF Parts, RowsOf, EntriesOf, HasRollout
<1>2. \A p : Safe(work[w], p, backups) => Safe(q, p, backups')
  BY StaysSafe DEF IInv, WorkOK
<1> QED BY <1>1, <1>2, RecoverableStep

(* The records that an edit and a failure lead to.                          *)
LEMMA NextDbCovers ==
  ASSUME NEW r, DOMAIN r = Fields, r.db \in Dbs, r.op = "delete"
  PROVE  Covers(NextDb(r), r) /\ Reaches(NextDb(r), r) /\ NextDb(r).op \in {"delete", "clear"}
<1> DEFINE q == NextDb(r)
<1>1. /\ q.s = r.s /\ q.good = r.good /\ q.had = r.had
      /\ \/ q.op = "delete" /\ q.at = "look"
         \/ q.op = "clear" /\ q.at = "save" /\ r.good = {} /\ r.bad = {}
         \/ q.op = "delete" /\ q.at = "report"
  BY NextDbFields
<1> HIDE DEF q
<1>2. Covers(q, r) /\ Reaches(q, r) /\ q.op \in {"delete", "clear"}
  BY <1>1 DEF Covers, Reaches, EditsAhead, Committing, Editing
<1> QED BY <1>2 DEF q

LEMMA DeferFields ==
  ASSUME NEW r, DOMAIN r = Fields, r.op = "sweep"
  PROVE  /\ Defers(r).op = "sweep" /\ Defers(r).at = "judge"
         /\ Marks(r).op = "sweep" /\ Marks(r).at = "judge"
<1>1. \A q : DOMAIN q = Fields /\ q.op = "sweep" => Defers(q).op = "sweep" /\ Defers(q).at = "judge"
  BY DEF Defers, Fields
<1> DEFINE q == [r EXCEPT !.good = @ \cup {k \in r.toks : backups[k].s \in r.s}]
<1>2. DOMAIN q = Fields /\ q.op = "sweep"
  BY DEF Fields
<1> HIDE DEF q
<1>3. Defers(q).op = "sweep" /\ Defers(q).at = "judge"
  BY <1>1, <1>2
<1> QED BY <1>1, <1>3 DEF Marks, q

AfterUndo(q, r) ==
    /\ q.op = "undo" /\ q.s = r.s /\ q.good = r.good /\ q.toks = r.toks /\ q.token = r.token
    /\ q.done = r.done
    /\ q.at = "record" \/ (r.at \in Editing /\ q.at \in {"global", "verify"})
Follows(q, r) ==
    /\ r.op \in {"delete", "clear"} => Covers(q, r) /\ Reaches(q, r) /\ q.op \in {"delete", "clear"}
    /\ r.op = "undo" => AfterUndo(q, r)
    /\ r.op = "sweep" => q.op = "sweep" /\ (q.at = "judge" \/ (r.at = "index" /\ q.at = "global" /\ q.s = r.s))

LEMMA AfterEditFollows ==
  ASSUME NEW w, NEW r0, Fits(w, r0, backups), r0.at \in Editing, NEW o \in Outcomes
  PROVE  Follows(AfterEdit(r0, o), r0) /\ r0.op \in {"delete", "clear", "undo", "sweep"}
<1> DEFINE r == [r0 EXCEPT !.step = "read", !.seen = {}]
           failed == o \in {"changed", "error"}
           A == AfterEdit(r0, o)
<1>1. /\ DOMAIN r = Fields /\ r.op = r0.op /\ r.at = r0.at /\ r.s = r0.s /\ r.db = r0.db /\ r.token = r0.token
      /\ r.good = r0.good /\ r.bad = r0.bad /\ r.toks = r0.toks /\ r.had = r0.had /\ r.done = r0.done
  BY DEF Fits, Fields
<1>2. r0.op \in {"delete", "clear", "undo", "sweep"} /\ r.db \in Dbs
  BY <1>1, IdleFields DEF Fits, Stage, Editing
<1>3. A = CASE r.op = "delete" ->
               (IF r.at = "index" THEN [r EXCEPT !.at = "again"]
                ELSE IF r.at = "again" THEN [r EXCEPT !.at = "global"] ELSE NextDb(r))
          [] r.op = "clear" ->
               [r EXCEPT !.at = IF @ = "index" THEN "global" ELSE "report", !.done = @ \/ o = "done"]
          [] r.op = "undo" ->
               (IF failed /\ ~HasDbRows(r.token) THEN [r EXCEPT !.at = "record"]
                ELSE [r EXCEPT !.at = IF @ = "index" THEN "global" ELSE "verify"])
          [] r.op = "sweep" ->
               (IF r.at = "index"
                THEN IF o = "error" \/ (r.done /\ o # "done") THEN Defers(r) ELSE [r EXCEPT !.at = "global"]
                ELSE IF failed THEN Defers(r) ELSE Marks(r))
  BY DEF AfterEdit
<1> HIDE DEF r, failed, A
<1>4. ASSUME r0.op = "delete" PROVE Follows(A, r0)
  <2>1. EditsAhead(r) /\ EditsAhead(r0)
    BY <1>1, <1>4 DEF EditsAhead, Committing
  <2>2. CASE A = NextDb(r)
    <3>1. Covers(NextDb(r), r) /\ Reaches(NextDb(r), r) /\ NextDb(r).op \in {"delete", "clear"}
      BY <1>1, <1>2, <1>4, NextDbCovers
    <3> QED BY <1>1, <1>4, <2>1, <2>2, <3>1 DEF Follows, Covers, Reaches
  <2>3. CASE \E a \in {"again", "global"} : A = [r EXCEPT !.at = a]
    <3>1. A.op = "delete" /\ A.s = r.s /\ A.had = r.had /\ A.good = r.good /\ A.token = r.token
      BY <1>1, <1>4, <2>3 DEF Fields
    <3> QED BY <1>1, <1>4, <2>1, <3>1 DEF Follows, Covers, Reaches
  <2> QED BY <1>1, <1>3, <1>4, <2>2, <2>3
<1>5. ASSUME r0.op = "clear" PROVE Follows(A, r0)
  <2>1. /\ A.op = "clear" /\ A.s = r.s /\ A.had = r.had /\ A.token = r.token /\ A.at \in {"global", "report"}
    BY <1>1, <1>3, <1>5 DEF Fields
  <2> QED BY <1>1, <1>5, <2>1 DEF Follows, Covers, Reaches, EditsAhead
<1>6. ASSUME r0.op = "undo" PROVE Follows(A, r0)
  <2>1. \E a \in {"record", "global", "verify"} : A = [r EXCEPT !.at = a]
    BY <1>1, <1>3, <1>6
  <2>2. /\ A.op = "undo" /\ A.s = r.s /\ A.good = r.good /\ A.toks = r.toks /\ A.token = r.token
        /\ A.done = r.done /\ A.at \in {"record", "global", "verify"}
    BY <1>1, <1>6, <2>1 DEF Fields
  <2> QED BY <1>1, <1>6, <2>2 DEF Follows, AfterUndo
<1>7. ASSUME r0.op = "sweep" PROVE Follows(A, r0)
  <2>1. A \in {Defers(r), Marks(r)} \/ (r.at = "index" /\ A = [r EXCEPT !.at = "global"])
    BY <1>1, <1>3, <1>7
  <2>2. CASE A \in {Defers(r), Marks(r)}
    BY <1>1, <1>7, <2>2, DeferFields DEF Follows
  <2>3. CASE r.at = "index" /\ A = [r EXCEPT !.at = "global"]
    <3>1. A.op = "sweep" /\ A.at = "global" /\ A.s = r.s
      BY <1>1, <1>7, <2>3 DEF Fields
    <3> QED BY <1>1, <1>7, <2>3, <3>1 DEF Follows
  <2> QED BY <2>1, <2>2, <2>3
<1> QED BY <1>2, <1>4, <1>5, <1>6, <1>7 DEF A

LEMMA FailedFollows ==
  ASSUME NEW w, NEW r, Fits(w, r, backups), r.at \notin {"idle", "down", "record", "report"}
  PROVE  Follows(AfterFailure(r), r) /\ r.op \in {"delete", "clear", "undo", "sweep"}
<1> DEFINE A == AfterFailure(r)
<1>0. r.op \in {"delete", "clear", "undo", "sweep"} /\ DOMAIN r = Fields /\ r.db \in Dbs
  BY IdleFields DEF Fits, Stage
<1>1. CASE r.at = "look" \/ r.at = "commit"
  <2>1. PICK t \in {0, r.token} : A = NextDb([r EXCEPT !.bad = @ \cup {t}])
    BY <1>1 DEF AfterFailure
  <2> DEFINE q == [r EXCEPT !.bad = @ \cup {t}]
  <2>2. /\ DOMAIN q = Fields /\ q.op = r.op /\ q.at = r.at /\ q.s = r.s /\ q.token = r.token
        /\ q.good = r.good /\ q.db = r.db /\ q.had = r.had
    BY <1>0 DEF Fields
  <2>3. r.op = "delete"
    BY <1>1, IdleFields DEF Fits, Stage
  <2> HIDE DEF q
  <2>4. Covers(NextDb(q), q) /\ Reaches(NextDb(q), q) /\ NextDb(q).op \in {"delete", "clear"}
    BY <1>0, <2>2, <2>3, NextDbCovers
  <2>5. Follows(NextDb(q), r)
    BY <2>2, <2>3, <2>4 DEF Follows, Covers, Reaches, EditsAhead
  <2> QED BY <1>0, <2>1, <2>5 DEF q
<1>2. CASE r.at = "rollout" /\ r.op = "delete"
  <2>1. A = [r EXCEPT !.at = "index"]
    BY <1>2 DEF AfterFailure
  <2>2. A.op = "delete" /\ A.s = r.s /\ A.had = r.had /\ A.good = r.good /\ A.token = r.token
    BY <1>0, <1>2, <2>1 DEF Fields
  <2> HIDE DEF A
  <2>3. Follows(A, r)
    BY <1>2, <2>2 DEF Follows, Covers, Reaches, EditsAhead, Committing
  <2> QED BY <1>0, <2>3 DEF A
<1>3. CASE r.at = "save"
  <2>0. r.op = "clear"
    BY <1>3, IdleFields DEF Fits, Stage, Committing, Editing
  <2>1. A = [r EXCEPT !.at = "report"]
    BY <1>3 DEF AfterFailure
  <2>2. A.op = "clear" /\ A.at = "report" /\ A.s = r.s /\ A.had = r.had /\ A.token = r.token
    BY <1>0, <2>0, <2>1 DEF Fields
  <2> HIDE DEF A
  <2>3. Follows(A, r)
    BY <1>3, <2>0, <2>2 DEF Follows, Covers, Reaches, EditsAhead, Editing
  <2> QED BY <1>0, <2>3 DEF A
<1>4. CASE r.at \in {"index", "again", "global"}
  <2>1. A = AfterEdit(r, "error")
    BY <1>4 DEF AfterFailure
  <2> QED BY <1>4, <2>1, AfterEditFollows DEF Outcomes, Editing
<1>5. CASE r.at \in {"judge", "snapshot"}
  <2>1. A = Defers(r)
    BY <1>5 DEF AfterFailure
  <2>2. r.op = "sweep"
    BY <1>5, IdleFields DEF Fits, Stage, Committing, Editing
  <2> QED BY <1>0, <2>1, <2>2, DeferFields DEF Follows
<1>6. CASE r.at \in {"check", "rows", "verify"} \/ (r.at = "rollout" /\ r.op # "delete")
  <2>0. r.op = "undo"
    BY <1>6, IdleFields DEF Fits, Stage, Committing, Editing
  <2>1. A = [r EXCEPT !.at = "record"]
    BY <1>6, <2>0 DEF AfterFailure, GivesUp
  <2>2. /\ A.op = "undo" /\ A.s = r.s /\ A.good = r.good /\ A.toks = r.toks /\ A.token = r.token
        /\ A.done = r.done /\ A.at = "record"
    BY <1>0, <2>0, <2>1 DEF Fields
  <2> HIDE DEF A
  <2>3. Follows(A, r)
    BY <2>0, <2>2 DEF Follows, AfterUndo
  <2> QED BY <1>0, <2>3 DEF A
<1>7. r.at \in {"look", "commit", "rollout", "save", "index", "again", "global", "judge", "snapshot", "check",
               "rows", "verify"}
  BY IdleFields DEF Fits, Stage, Committing, Editing
<1> QED BY <1>1, <1>2, <1>3, <1>4, <1>5, <1>6, <1>7

-----------------------------------------------------------------------------
(* The record that a step leaves its worker with.                           *)
LEMMA WorkAfter ==
  ASSUME IInv, NEW w \in Workers, NEW q, work' = [work EXCEPT ![w] = q]
  PROVE  work'[w] = q
  BY DEF IInv, WorkOK

(* An undo and a sweep go on as what they are.                              *)
LEMMA UndoStays ==
  ASSUME IInv, NEW w \in Workers,
         UndoStep(w) \/ (w = "launcher" /\ \E T \in offered : UndoBegins(T))
  PROVE  work'[w].op = "undo"
<1> DEFINE r == work[w]
<1>0. Fits(w, r, backups) /\ DOMAIN r = Fields
  BY DEF IInv, WorkOK, Fits
<1> USE DEF MovesOn, Becomes, Begins, Ends
<1>1. CASE UndoStep(w)
  <2>1. r.op = "undo"
    BY <1>1 DEF UndoStep, CheckConflicts, RestoreRows, RestoreRollout, Verify, RecordUndone, Does
  <2>2. CASE CheckConflicts(w)
    <3> DEFINE a == [r EXCEPT !.at = "record"]
               b == [r EXCEPT !.at = "rows", !.token = Min(r.toks)]
    <3>1. \E q \in {a, b} : work' = [work EXCEPT ![w] = q]
      BY <2>2 DEF CheckConflicts, GivesUp
    <3>2. a.op = "undo" /\ b.op = "undo"
      BY <1>0, <2>1 DEF Fields
    <3> HIDE DEF a, b
    <3> QED BY <3>1, <3>2, WorkAfter
  <2>3. CASE RestoreRows(w) \/ RestoreRollout(w)
    <3>1. \E a : work' = [work EXCEPT ![w] = [r EXCEPT !.at = a]]
      BY <2>3 DEF RestoreRows, RestoreRollout, GivesUp
    <3> QED BY <1>0, <2>1, <3>1, WorkAfter DEF Fields
  <2>4. CASE Verify(w)
    <3> DEFINE good == r.good \cup {r.token}
    <3> DEFINE a == [r EXCEPT !.at = "record"]
               b == [r EXCEPT !.at = "record", !.token = 0, !.good = good, !.done = TRUE]
               c == [r EXCEPT !.at = "rows", !.token = Min(r.toks \ good), !.good = good]
    <3>1. \E q \in {a, b, c} : work' = [work EXCEPT ![w] = q]
      BY <2>4 DEF Verify, GivesUp
    <3>2. a.op = "undo" /\ b.op = "undo" /\ c.op = "undo"
      BY <1>0, <2>1 DEF Fields
    <3> HIDE DEF a, b, c
    <3> QED BY <3>1, <3>2, WorkAfter
  <2>5. CASE RecordUndone(w)
    <3>1. work' = [work EXCEPT ![w] = [r EXCEPT !.at = "report", !.token = 0]]
      BY <2>5 DEF RecordUndone
    <3> QED BY <1>0, <2>1, <3>1, WorkAfter DEF Fields
  <2> QED BY <1>1, <2>2, <2>3, <2>4, <2>5 DEF UndoStep
<1>2. CASE w = "launcher" /\ \E T \in offered : UndoBegins(T)
  <2>1. PICK T \in offered : \E b :
           work' = [work EXCEPT ![w] = [Idle EXCEPT !.op = "undo", !.at = "check",
                                            !.s = {backups[k].s : k \in T}, !.toks = T, !.blind = b]]
    BY <1>2 DEF UndoBegins
  <2>2. PICK b : work' = [work EXCEPT ![w] = [Idle EXCEPT !.op = "undo", !.at = "check",
                                                 !.s = {backups[k].s : k \in T}, !.toks = T, !.blind = b]]
    BY <2>1
  <2> DEFINE a == [Idle EXCEPT !.op = "undo", !.at = "check", !.s = {backups[k].s : k \in T}, !.toks = T,
                               !.blind = b]
  <2>3. a.op = "undo" /\ work' = [work EXCEPT ![w] = a]
    BY <2>2, IdleFields DEF Fields
  <2> HIDE DEF a
  <2> QED BY <2>3, WorkAfter
<1> QED BY <1>1, <1>2

LEMMA SweepStays ==
  ASSUME IInv, NEW w \in Workers,
         SweepStep(w) \/ Report(w) \/ Crash(w) \/ (w = "launcher" /\ LauncherStarts)
  PROVE  work'[w].op \in {"none", "sweep"}
<1> DEFINE r == work[w]
<1>0. Fits(w, r, backups) /\ DOMAIN r = Fields
  BY DEF IInv, WorkOK, Fits
<1> USE DEF MovesOn, Becomes, Begins, Ends
<1>1. CASE \E s \in Sessions : Judge(w, s)
  <2>1. PICK s \in Sessions : Judge(w, s)
    BY <1>1
  <2> DEFINE x == [r EXCEPT !.s = {s}]
             y == [x EXCEPT !.cache = <<IF x.cache = <<>> THEN file["index"] ELSE x.cache[1]>>]
             k == Max(x.toks \cap BackupsOf(s))
             a == [x EXCEPT !.at = "snapshot", !.token = k]
             b == [a EXCEPT !.cache = <<IF x.cache = <<>> THEN file["index"] ELSE x.cache[1]>>]
  <2>2. r.op = "sweep" /\ \E q \in {Marks(x), a, Marks(y), b} : work' = [work EXCEPT ![w] = q]
    BY <2>1 DEF Judge, Does
  <2>3. DOMAIN x = Fields /\ x.op = "sweep" /\ a.op = "sweep" /\ DOMAIN a = Fields
    BY <1>0, <2>2 DEF Fields
  <2>4. DOMAIN y = Fields /\ y.op = "sweep" /\ b.op = "sweep"
    BY <2>3 DEF Fields
  <2> HIDE DEF x, y, a, b
  <2>5. Marks(x).op = "sweep" /\ Marks(y).op = "sweep"
    BY <2>3, <2>4, DeferFields
  <2> QED BY <2>2, <2>3, <2>4, <2>5, WorkAfter
<1>2. CASE KeepLeftovers(w)
  <2> DEFINE a == [r EXCEPT !.at = "index", !.done = "index" \in EntriesOf(Session(w))]
  <2>1. r.op = "sweep" /\ \E q \in {Marks(r), a} : work' = [work EXCEPT ![w] = q]
    BY <1>2 DEF KeepLeftovers, Does
  <2>2. a.op = "sweep" /\ Marks(r).op = "sweep"
    BY <1>0, <2>1, DeferFields DEF Fields
  <2> QED BY <2>1, <2>2, WorkAfter
<1>3. CASE SweepEnds(w) \/ Report(w) \/ Crash(w)
  BY <1>3, WorkAfter, IdleFields DEF SweepEnds, Report, Crash
<1>4. CASE w = "launcher" /\ LauncherStarts
  <2> DEFINE a == [Idle EXCEPT !.op = "sweep", !.at = "judge", !.toks = Written \ marked,
                               !.todo = {backups[k].s : k \in Written \ marked}]
  <2>1. \E q \in {a, Idle} : work' = [work EXCEPT ![w] = q]
    BY <1>4 DEF LauncherStarts
  <2>2. a.op = "sweep" /\ Idle.op = "none"
    BY IdleFields DEF Fields
  <2> QED BY <2>1, <2>2, WorkAfter
<1> QED BY <1>1, <1>2, <1>3, <1>4 DEF SweepStep

LEMMA DeletionStays ==
  ASSUME IInv, NEW w \in Workers, DeleteStep(w) \/ \E x \in Sessions : DeleteBegins(w, x)
  PROVE  work'[w].op \in {"delete", "clear"}
<1> DEFINE r == work[w]
<1>0. Fits(w, r, backups) /\ DOMAIN r = Fields /\ r.db \in Dbs
  BY DEF IInv, WorkOK, Fits
<1> USE DEF MovesOn, Becomes, Begins, Ends
<1>1. CASE \E x \in Sessions : DeleteBegins(w, x)
  <2>1. PICK x \in Sessions : work' = [work EXCEPT ![w] = [Idle EXCEPT !.op = "delete", !.at = "look",
                                                            !.s = {x}, !.had = Parts(x)]]
    BY <1>1 DEF DeleteBegins
  <2> DEFINE a == [Idle EXCEPT !.op = "delete", !.at = "look", !.s = {x}, !.had = Parts(x)]
  <2>2. a.op = "delete" /\ work' = [work EXCEPT ![w] = a]
    BY <2>1, IdleFields DEF Fields
  <2> HIDE DEF a
  <2> QED BY <2>2, WorkAfter
<1>2. CASE Look(w)
  <2> DEFINE a == [r EXCEPT !.at = "commit", !.token = Len(backups) + 1]
  <2>1. r.op = "delete" /\ \E q \in {a, NextDb(r)} : work' = [work EXCEPT ![w] = q]
    BY <1>2 DEF Look, Does
  <2>2. a.op = "delete" /\ NextDb(r).op \in {"delete", "clear"}
    BY <1>0, <2>1, NextDbCovers DEF Fields
  <2> QED BY <2>1, <2>2, WorkAfter
<1>3. CASE Commit(w) \/ RemoveRollout(w) \/ SaveEntries(w)
  <2> DEFINE a == [r EXCEPT !.at = "rollout", !.good = @ \cup {r.token}]
             b == [r EXCEPT !.at = "index"]
             c == [r EXCEPT !.at = "index", !.token = Len(backups) + 1]
  <2>1. r.op \in {"delete", "clear"} /\ \E q \in {a, b, c} : work' = [work EXCEPT ![w] = q]
    BY <1>3 DEF Commit, RemoveRollout, SaveEntries, Does
  <2>2. a.op = r.op /\ b.op = r.op /\ c.op = r.op
    BY <1>0 DEF Fields
  <2> HIDE DEF a, b, c
  <2> QED BY <2>1, <2>2, WorkAfter
<1> QED BY <1>1, <1>2, <1>3 DEF DeleteStep

(* Deletions: what has gone is in a backup that the deletion hands out.     *)
LEMMA RecoverableOwn ==
  ASSUME IInv, SinceOK, NEW w \in Workers, Recoverable(w), Step(w)
  PROVE  Recoverable(w)'
<1> DEFINE r == work[w]
<1>s. PICK s : s = Session(w)
  OBVIOUS
<1>0. /\ Fits(w, r, backups) /\ DOMAIN r = Fields /\ r.db \in Dbs
      /\ r.op \in {"delete", "clear", "undo"} =>
            r.s = {s} /\ s \in Sessions /\ \A k \in Uses(r) : backups[k].s = s
  BY <1>s, OwnSession DEF IInv, WorkOK, Fits
<1>g. backups' = backups => Grown(backups, backups')
  BY DEF Grown
<1>1. CASE \/ UndoStep(w) \/ SweepStep(w) \/ Report(w) \/ Crash(w)
           \/ w = "launcher" /\ ((\E T \in offered : UndoBegins(T)) \/ LauncherStarts)
  BY <1>1, UndoStays, SweepStays DEF Recoverable
<1>2. CASE \E x \in Sessions : DeleteBegins(w, x)
  <2>1. PICK x \in Sessions : /\ UNCHANGED disk
                              /\ work' = [work EXCEPT ![w] = [Idle EXCEPT !.op = "delete", !.at = "look",
                                                                !.s = {x}, !.had = Parts(x)]]
    BY <1>2 DEF DeleteBegins, Begins, Becomes
  <2> DEFINE q == [Idle EXCEPT !.op = "delete", !.at = "look", !.s = {x}, !.had = Parts(x)]
  <2>2. q.op = "delete" /\ q.at = "look" /\ q.s = {x} /\ q.had = Parts(x) /\ work'[w] = q
    BY <2>1, WorkAfter, IdleFields DEF Fields
  <2> HIDE DEF q
  <2>3. \A p : Safe(q, p, backups')
    BY <2>2 DEF Safe, EditsAhead, Committing, Editing
  <2>4. Parts(x)' = Parts(x)
    BY <2>1 DEF disk, Parts, RowsOf, EntriesOf, HasRollout
  <2> QED BY <2>2, <2>3, <2>4 DEF Recoverable
<1>3. CASE Look(w)
  <2>1. /\ r.op = "delete" /\ r.at = "look" /\ UNCHANGED <<rows, rollout, file>> /\ since'[w] = since[w]
        /\ Grown(backups, backups')
    BY <1>s, <1>3, QuietSteps, OwnNotes DEF Look, Does, MovesOn
  <2>2. CASE MovesOn(w, NextDb(r))
    <3>1. Covers(NextDb(r), r) /\ Reaches(NextDb(r), r)
      BY <1>0, <2>1, NextDbCovers
    <3> QED BY <2>1, <2>2, <3>1, RecoverableMoved DEF MovesOn, Becomes
  <2>3. CASE /\ r.db \in RowsOf(s) /\ HasRoom
             /\ \E roll \in {rollout[s], "none"} : backups' = Append(backups, Backup(s, r.db, rows[s][r.db], roll))
             /\ MovesOn(w, [r EXCEPT !.at = "commit", !.token = Len(backups) + 1])
    <3> DEFINE q == [r EXCEPT !.at = "commit", !.token = Len(backups) + 1]
    <3>1. PICK roll : backups' = Append(backups, Backup(s, r.db, rows[s][r.db], roll))
      BY <2>3
    <3>2. backups'[Len(backups) + 1].entries = EntriesOf(s) /\ Len(backups) + 1 # 0
      BY <3>1 DEF IInv, GoodBackups, Backup
    <3>3. /\ q.op = "delete" /\ q.at = "commit" /\ q.s = r.s /\ q.had = r.had /\ q.good = r.good
          /\ q.token = Len(backups) + 1
      BY <1>0, <2>1 DEF Fields
    <3>4. work' = [work EXCEPT ![w] = q]
      BY <2>3 DEF MovesOn, Becomes
    <3> HIDE DEF q
    <3>5. Covers(q, r)
      BY <2>1, <3>3 DEF Covers
    <3>6. Parts(s)' = Parts(s)
      BY <2>1 DEF Parts, RowsOf, EntriesOf, HasRollout
    <3>7. \A p \in Parts(s) : Safe(q, p, backups')
      <4> SUFFICES ASSUME NEW p \in Parts(s), p \in FileParts PROVE p \in Holds(backups'[q.token])
        BY <3>2, <3>3 DEF Safe
      <4>1. PICK f \in EntriesOf(s) : p = <<"file", f>>
        BY DEF Parts, FileParts
      <4> QED BY <3>2, <3>3, <4>1 DEF Holds
    <3> QED BY <1>0, <2>1, <3>4, <3>5, <3>6, <3>7, RecoverableStep
  <2> QED BY <1>s, <1>3, <2>2, <2>3 DEF Look
<1>4. CASE Commit(w)
  <2> DEFINE q == [r EXCEPT !.at = "rollout", !.good = @ \cup {r.token}]
  <2>1. /\ r.op = "delete" /\ r.at = "commit" /\ rows' = [rows EXCEPT ![s][r.db] = "none"]
        /\ UNCHANGED <<rollout, file, backups>> /\ work' = [work EXCEPT ![w] = q] /\ since'[w] = since[w]
    BY <1>s, <1>4, OwnNotes DEF Commit, Does, Becomes
  <2>2. r.token # 0 /\ backups[r.token].db = r.db /\ r.db # 0
    BY <1>0, <2>1 DEF Fits, Deleting, Committing, Dbs
  <2>3. /\ q.op = "delete" /\ q.at = "rollout" /\ q.s = r.s /\ q.had = r.had /\ q.token = r.token
        /\ q.good = r.good \cup {r.token}
    BY <1>0, <2>1 DEF Fields
  <2> HIDE DEF q
  <2>4. Covers(q, r) /\ Reaches(q, r)
    BY <2>1, <2>3 DEF Covers, Reaches, EditsAhead, Committing
  <2>5. \A p \in Parts(s) : p = <<"row", r.db>> \/ p \in Parts(s)'
    BY <2>1 DEF IInv, DiskOK, Parts, RowsOf, EntriesOf, HasRollout
  <2>6. <<"row", r.db>> \in Holds(backups[r.token])
    BY <2>2 DEF Holds
  <2>7. \A p : Safe(r, p, backups) => Safe(q, p, backups')
    BY <1>0, <1>g, <2>1, <2>4, StaysSafe
  <2>8. Covered(q, <<"row", r.db>>, backups')
    BY <2>1, <2>3, <2>6 DEF Covered
  <2> QED BY <1>0, <1>g, <2>1, <2>4, <2>5, <2>7, <2>8, RecoverableStep
<1>5. CASE RemoveRollout(w)
  <2> DEFINE q == [r EXCEPT !.at = "index"]
  <2>1. /\ r.op = "delete" /\ r.at = "rollout" /\ UNCHANGED <<rows, file, backups>>
        /\ work' = [work EXCEPT ![w] = q] /\ since'[w] = since[w]
        /\ \/ rollout' = [rollout EXCEPT ![s] = "none"] /\ backups[r.token].roll # "none"
           \/ rollout' = rollout
    BY <1>s, <1>5, OwnNotes DEF RemoveRollout, Does, Becomes
  <2>2. r.token \in r.good
    BY <1>0, <2>1 DEF Fits, Deleting, Committing
  <2>3. q.op = "delete" /\ q.s = r.s /\ q.had = r.had /\ q.token = r.token /\ q.good = r.good
    BY <1>0, <2>1 DEF Fields
  <2> HIDE DEF q
  <2>4. Covers(q, r) /\ Reaches(q, r)
    BY <2>1, <2>3 DEF Covers, Reaches, EditsAhead, Committing
  <2>5. \A p \in Parts(s) : p \in Parts(s)' \/ (p = <<"rollout", 0>> /\ backups[r.token].roll # "none")
    BY <2>1 DEF IInv, DiskOK, Parts, RowsOf, EntriesOf, HasRollout
  <2>6. \A p : Safe(r, p, backups) => Safe(q, p, backups')
    BY <1>0, <1>g, <2>1, <2>4, StaysSafe
  <2>7. backups[r.token].roll # "none" => Covered(q, <<"rollout", 0>>, backups')
    BY <2>1, <2>2, <2>3 DEF Covered, Holds
  <2> QED BY <1>0, <1>g, <2>1, <2>4, <2>5, <2>6, <2>7, RecoverableStep
<1>6. CASE SaveEntries(w)
  <2>1. /\ r.op = "clear" /\ r.at = "save" /\ UNCHANGED <<rows, rollout, file>> /\ since'[w] = since[w]
        /\ Grown(backups, backups')
    BY <1>s, <1>6, QuietSteps, OwnNotes DEF SaveEntries, Does, MovesOn
  <2>2. Parts(s)' = Parts(s)
    BY <2>1 DEF Parts, RowsOf, EntriesOf, HasRollout
  <2>3. CASE EntriesOf(s) = {} /\ MovesOn(w, [r EXCEPT !.at = "index"])
    <3> DEFINE q == [r EXCEPT !.at = "index"]
    <3>1. q.op = "clear" /\ q.at = "index" /\ q.s = r.s /\ q.had = r.had /\ q.token = r.token
      BY <1>0, <2>1 DEF Fields
    <3>2. work' = [work EXCEPT ![w] = q]
      BY <2>3 DEF MovesOn, Becomes
    <3> HIDE DEF q
    <3>3. Covers(q, r)
      BY <2>1, <3>1 DEF Covers
    <3>4. \A p \in Parts(s) : p \notin FileParts
      BY <2>3 DEF Parts, FileParts
    <3>5. \A p \in Parts(s) : Safe(q, p, backups')
      BY <3>4 DEF Safe
    <3> QED BY <1>0, <2>1, <2>2, <3>2, <3>3, <3>5, RecoverableStep
  <2>4. CASE /\ backups' = Append(backups, Backup(s, 0, "none", "none"))
             /\ MovesOn(w, [r EXCEPT !.at = "index", !.token = Len(backups) + 1])
    <3> DEFINE q == [r EXCEPT !.at = "index", !.token = Len(backups) + 1]
    <3>1. backups'[Len(backups) + 1].entries = EntriesOf(s) /\ Len(backups) + 1 # 0
      BY <2>4 DEF IInv, GoodBackups, Backup
    <3>2. q.op = "clear" /\ q.at = "index" /\ q.s = r.s /\ q.had = r.had /\ q.token = Len(backups) + 1
      BY <1>0, <2>1 DEF Fields
    <3>3. work' = [work EXCEPT ![w] = q]
      BY <2>4 DEF MovesOn, Becomes
    <3> HIDE DEF q
    <3>4. Covers(q, r)
      BY <2>1, <3>2 DEF Covers
    <3>5. \A p \in Parts(s) : Safe(q, p, backups')
      <4> SUFFICES ASSUME NEW p \in Parts(s), p \in FileParts PROVE p \in Holds(backups'[q.token])
        BY <3>1, <3>2 DEF Safe
      <4>1. PICK f \in EntriesOf(s) : p = <<"file", f>>
        BY DEF Parts, FileParts
      <4> QED BY <3>1, <3>2, <4>1 DEF Holds
    <3> QED BY <1>0, <2>1, <2>2, <3>3, <3>4, <3>5, RecoverableStep
  <2> QED BY <1>s, <1>6, <2>3, <2>4 DEF SaveEntries
<1>7. CASE ReadFile(w)
  <2>1. /\ r.at \in Editing /\ UNCHANGED <<rows, rollout, file>> /\ since'[w] = since[w]
        /\ Grown(backups, backups')
        /\ \/ \E f \in Files : work' = [work EXCEPT ![w] = [r EXCEPT !.step = "write", !.seen = file[f]]]
           \/ \E o \in Outcomes : work' = [work EXCEPT ![w] = AfterEdit(r, o)]
    BY <1>7, QuietSteps, OwnNotes DEF ReadFile, Edits, Editing, MovesOn, Becomes, Outcomes
  <2>2. CASE \E o \in Outcomes : work' = [work EXCEPT ![w] = AfterEdit(r, o)]
    <3>1. PICK o \in Outcomes : work' = [work EXCEPT ![w] = AfterEdit(r, o)]
      BY <2>2
    <3>2. Follows(AfterEdit(r, o), r) /\ r.op \in {"delete", "clear", "undo", "sweep"}
      BY <1>0, <2>1, AfterEditFollows
    <3>3. CASE r.op \in {"delete", "clear"}
      BY <2>1, <3>1, <3>2, <3>3, RecoverableMoved DEF Follows
    <3>4. CASE r.op \in {"undo", "sweep"}
      BY <3>1, <3>2, <3>4, WorkAfter DEF Follows, AfterUndo, Recoverable
    <3> QED BY <3>2, <3>3, <3>4
  <2>3. CASE \E f \in Files : work' = [work EXCEPT ![w] = [r EXCEPT !.step = "write", !.seen = file[f]]]
    <3>1. PICK f \in Files : work' = [work EXCEPT ![w] = [r EXCEPT !.step = "write", !.seen = file[f]]]
      BY <2>3
    <3> DEFINE q == [r EXCEPT !.step = "write", !.seen = file[f]]
    <3>2. /\ q.op = r.op /\ q.at = r.at /\ q.s = r.s /\ q.had = r.had /\ q.token = r.token /\ q.good = r.good
          /\ work' = [work EXCEPT ![w] = q]
      BY <1>0, <3>1 DEF Fields
    <3> HIDE DEF q
    <3>3. CASE r.op \in {"delete", "clear"}
      <4>1. Covers(q, r) /\ Reaches(q, r)
        BY <2>1, <3>2, <3>3 DEF Covers, Reaches, EditsAhead, Editing
      <4> QED BY <2>1, <3>2, <3>3, <4>1, RecoverableMoved
    <3>4. CASE r.op \notin {"delete", "clear"}
      BY <3>2, <3>4, WorkAfter DEF Recoverable
    <3> QED BY <3>3, <3>4
  <2> QED BY <2>1, <2>2, <2>3
<1>8. CASE WriteFile(w)
  <2>1. PICK f \in Files, o \in Outcomes :
          /\ r.at \in Editing /\ UNCHANGED <<rows, rollout, backups>> /\ since'[w] = since[w]
          /\ file' = [file EXCEPT ![f] = IF Undoes(r) THEN r.seen \cup r.s ELSE r.seen \ r.s]
          /\ work' = [work EXCEPT ![w] = AfterEdit(r, o)]
    BY <1>8, OwnNotes DEF WriteFile, Edits, Editing, Becomes, Outcomes
  <2> DEFINE q == AfterEdit(r, o)
  <2>2. Follows(q, r) /\ r.op \in {"delete", "clear", "undo", "sweep"} /\ work' = [work EXCEPT ![w] = q]
    BY <1>0, <2>1, AfterEditFollows
  <2> HIDE DEF q
  <2>3. CASE r.op \in {"undo", "sweep"}
    BY <2>2, <2>3, WorkAfter DEF Follows, AfterUndo, Recoverable
  <2>4. CASE r.op \in {"delete", "clear"}
    <3>1. Covers(q, r) /\ Reaches(q, r) /\ EditsAhead(r) /\ ~Undoes(r)
      BY <2>1, <2>2, <2>4 DEF Follows, EditsAhead, Committing, Undoes
    <3>2. \A p \in Parts(s) : p \in Parts(s)' \/ p = <<"file", f>>
      BY <2>1 DEF IInv, DiskOK, Parts, RowsOf, EntriesOf, HasRollout
    <3>3. Safe(r, <<"file", f>>, backups) => Covered(r, <<"file", f>>, backups)
      <4>1. r.op = "delete" => r.token \in r.good
        BY <1>0, <2>1 DEF Fits, Deleting, Committing, Editing
      <4>2. r.at # "save"
        BY <2>1 DEF Editing
      <4>3. <<"file", f>> \in FileParts
        BY DEF FileParts
      <4> QED BY <2>4, <3>1, <4>1, <4>2, <4>3 DEF Safe, Covered
    <3>4. Covered(r, <<"file", f>>, backups) => Covered(q, <<"file", f>>, backups')
      BY <1>0, <1>g, <2>1, <3>1, CoversAll
    <3>5. \A p : Safe(r, p, backups) => Safe(q, p, backups')
      BY <1>0, <1>g, <2>1, <3>1, StaysSafe
    <3> QED BY <1>0, <1>g, <2>1, <2>2, <2>4, <3>1, <3>2, <3>3, <3>4, <3>5, RecoverableStep
  <2> QED BY <2>2, <2>3, <2>4
<1>9. CASE Fails(w)
  <2>1. /\ r.at \notin {"idle", "down", "record", "report"} /\ UNCHANGED <<rows, rollout, file, backups>>
        /\ since'[w] = since[w]
    BY <1>9, OwnNotes DEF Fails, disk, MovesOn
  <2>2. PICK x \in IF r.at = "judge" THEN {{y} : y \in r.todo} ELSE {r.s} :
           work' = [work EXCEPT ![w] = AfterFailure([r EXCEPT !.s = x])]
    BY <1>9 DEF Fails, MovesOn, Becomes
  <2> DEFINE z == [r EXCEPT !.s = x]
             q == AfterFailure(z)
  <2>3. Fits(w, z, backups)
    BY <2>1, <2>2, FailsFits
  <2>4. z.op = r.op /\ z.at = r.at /\ z.had = r.had /\ z.good = r.good /\ z.token = r.token /\ z.s = x
    BY <1>0 DEF Fields
  <2>5. work' = [work EXCEPT ![w] = q]
    BY <2>2
  <2>6. Follows(q, z) /\ z.op \in {"delete", "clear", "undo", "sweep"}
    BY <2>1, <2>3, <2>4, FailedFollows
  <2> HIDE DEF z, q
  <2>7. CASE r.op \in {"undo", "sweep"}
    BY <2>4, <2>5, <2>6, <2>7, WorkAfter DEF Follows, AfterUndo, Recoverable
  <2>8. CASE r.op \in {"delete", "clear"}
    <3>1. r.at # "judge"
      BY <1>0, <2>8, IdleFields DEF Fits, Stage, Committing, Editing
    <3>2. z.s = r.s
      BY <2>2, <2>4, <3>1
    <3>3. Covers(q, r) /\ Reaches(q, r)
      BY <2>4, <2>6, <2>8, <3>2 DEF Follows, Covers, Reaches, EditsAhead
    <3> QED BY <1>g, <2>1, <2>5, <2>8, <3>3, RecoverableMoved
  <2> QED BY <2>4, <2>6, <2>7, <2>8
<1> QED BY <1>1, <1>2, <1>3, <1>4, <1>5, <1>6, <1>7, <1>8, <1>9 DEF Step, DeleteStep, EditStep

-----------------------------------------------------------------------------
(* What an undo has restored so far, and what a sweep has made sure of.     *)
RowBack(k)     == backups[k].db # 0 => backups[k].db \in RowsOf(backups[k].s)
RolloutBack(k) == backups[k].db # 0 /\ backups[k].roll # "none" => HasRollout(backups[k].s)
EntryBack(k)   == backups[k].db = 0 => EntriesOf(backups[k].s) # {}
Back(k) == RowBack(k) /\ RolloutBack(k) /\ EntryBack(k)
Restored ==
    LET r == work["launcher"] IN
    r.op = "undo" =>
       /\ r.done => r.good = r.toks /\ r.at \in {"record", "report"}
       /\ \/ r.s \subseteq since["launcher"].took
          \/ /\ \A k \in r.good : Back(k)
             /\ r.at \in Restoring \ {"rows"} => RowBack(r.token)
             /\ r.at \in Restoring \ {"rows", "rollout"} => RolloutBack(r.token)
Swept ==
    LET r == work["launcher"] IN
    r.op = "sweep" /\ r.at # "judge" =>
       \A s \in r.s :
          \/ s \in since["launcher"].gave
          \/ /\ RowsOf(s) = {}
             /\ r.at # "snapshot" => \A f \in EntriesOf(s) : \E k \in BackupsOf(s) : f \in Entries(k)

LEMMA BackStays ==
  ASSUME NEW k \in Written, Grown(backups, backups'), Keeps(backups[k].s)
  PROVE  /\ RowBack(k) => RowBack(k)'
         /\ RolloutBack(k) => RolloutBack(k)'
         /\ Back(k) => Back(k)'
<1>1. backups'[k] = backups[k]
  BY DEF Grown, Written
<1> QED BY <1>1 DEF Keeps, RowBack, RolloutBack, EntryBack, Back

(* A step of an undo, which takes nothing: what it adds is back.            *)
LEMMA RestoredStep ==
  ASSUME IInv, Restored, NEW q, work' = [work EXCEPT !["launcher"] = q],
         since["launcher"].took \subseteq since'["launcher"].took, Grown(backups, backups'),
         work["launcher"].op = "undo", q.s = work["launcher"].s,
         q.done => q.good = q.toks /\ q.at \in {"record", "report"},
         \A s \in q.s : s \in since'["launcher"].took \/ Keeps(s),
         ~(q.s \subseteq since["launcher"].took) =>
            /\ \A k \in q.good : k \in work["launcher"].good \/ Back(k)'
            /\ (q.at \in Restoring \ {"rows"} => RowBack(q.token)')
            /\ (q.at \in Restoring \ {"rows", "rollout"} => RolloutBack(q.token)')
  PROVE  Restored'
<1> DEFINE r == work["launcher"]
<1>1. "launcher" \in Workers /\ Fits("launcher", r, backups) /\ work'["launcher"] = q
  BY WorkAfter DEF IInv, WorkOK, Workers
<1>2. PICK s : r.s = {s} /\ \A k \in Uses(r) : backups[k].s = s /\ k \in Written
  BY <1>1 DEF Fits, OneSession, Written
<1>3. CASE s \in since'["launcher"].took
  BY <1>1, <1>2, <1>3 DEF Restored
<1>4. CASE s \notin since'["launcher"].took
  <2>1. Keeps(s) /\ ~(q.s \subseteq since["launcher"].took)
    BY <1>2, <1>4
  <2>2. \A k \in r.good : Back(k) /\ k \in Uses(r)
    BY <1>1, <2>1 DEF Restored, Fits, Uses
  <2>3. \A k \in r.good : Back(k)'
    BY <1>2, <2>1, <2>2, BackStays
  <2> QED BY <1>1, <2>1, <2>3 DEF Restored
<1> QED BY <1>3, <1>4

LEMMA RestoredNoted == ASSUME IInv, Restored, Noted("launcher") PROVE Restored'
<1> DEFINE r == work["launcher"]
<1>1. "launcher" \in Workers /\ Fits("launcher", r, backups) /\ work'["launcher"] = r
  BY DEF IInv, WorkOK, Workers, Noted
<1> SUFFICES ASSUME r.op = "undo" PROVE Restored'
  BY <1>1 DEF Restored
<1>2. PICK s : s \in Sessions /\ r.s = {s} /\ \A k \in Uses(r) : backups[k].s = s /\ k \in Written
  BY <1>1 DEF Fits, OneSession, Written
<1>3. CASE s \in since'["launcher"].took
  BY <1>1, <1>2, <1>3 DEF Restored
<1>4. CASE s \notin since'["launcher"].took
  <2>1. Keeps(s) /\ ~(r.s \subseteq since["launcher"].took) /\ Grown(backups, backups')
    BY <1>2, <1>4 DEF Noted
  <2>2. \A k \in r.good : k \in Uses(r)
    BY <1>1 DEF Fits, Uses
  <2>3. \A k \in r.good : Back(k)'
    BY <1>2, <2>1, <2>2, BackStays DEF Restored
  <2>t. PICK t : t = r.token
    OBVIOUS
  <2>4. r.at \in Restoring => t \in Uses(r)
    BY <1>1, <2>t DEF Fits, Undoing, Uses
  <2>5. r.at \in Restoring \ {"rows"} => RowBack(t)'
    BY <1>2, <2>1, <2>t, <2>4, BackStays DEF Restored
  <2>6. r.at \in Restoring \ {"rows", "rollout"} => RolloutBack(t)'
    BY <1>2, <2>1, <2>t, <2>4, BackStays DEF Restored
  <2> QED BY <1>1, <2>t, <2>3, <2>5, <2>6 DEF Restored
<1> QED BY <1>3, <1>4

(* A step of an undo that changes no row, rollout or file.                  *)
LEMMA RestoredMoved ==
  ASSUME IInv, SinceOK, Restored, NEW q, work' = [work EXCEPT !["launcher"] = q],
         since'["launcher"] = since["launcher"], UNCHANGED <<rows, rollout, file, backups>>,
         work["launcher"].op = "undo", q.s = work["launcher"].s,
         q.done => q.good = q.toks /\ q.at \in {"record", "report"},
         ~(q.s \subseteq since["launcher"].took) =>
            /\ \A k \in q.good : k \in work["launcher"].good \/ Back(k)
            /\ q.at \in Restoring \ {"rows"} => RowBack(q.token)
            /\ q.at \in Restoring \ {"rows", "rollout"} => RolloutBack(q.token)
  PROVE  Restored'
<1>1. \A s : Keeps(s)
  BY DEF Keeps, RowsOf, EntriesOf, HasRollout
<1>2. \A k : RowBack(k)' = RowBack(k) /\ RolloutBack(k)' = RolloutBack(k) /\ EntryBack(k)' = EntryBack(k)
  BY DEF RowBack, RolloutBack, EntryBack, RowsOf, EntriesOf, HasRollout
<1>3. Grown(backups, backups')
  BY DEF Grown
<1>4. \A k : Back(k) => Back(k)'
  BY <1>2 DEF Back
<1> QED BY <1>1, <1>2, <1>3, <1>4, RestoredStep

LEMMA RestoredOwn ==
  ASSUME IInv, SinceOK, Restored, Step("launcher") PROVE Restored'
<1> DEFINE L == "launcher"
           r == work[L]
<1>l. L \in Workers
  BY DEF Workers
<1>s. PICK s : s = Session(L)
  OBVIOUS
<1>0. /\ Fits(L, r, backups) /\ DOMAIN r = Fields
      /\ r.op \in {"delete", "clear", "undo"} =>
            r.s = {s} /\ s \in Sessions /\ \A k \in Uses(r) : backups[k].s = s /\ k \in Written
  BY <1>l, <1>s, OwnSession DEF IInv, WorkOK, Fits, Written
<1>g. backups' = backups => Grown(backups, backups')
  BY DEF Grown
<1>e. r.op = "undo" /\ r.at \in Editing => r.at \in Restoring \ {"rows", "rollout"}
  BY <1>0, IdleFields DEF Fits, Stage, Editing, Restoring
<1>r. r.op = "undo" => /\ r.done => r.good = r.toks /\ r.at \in {"record", "report"}
                       /\ ~(r.s \subseteq since[L].took) =>
                             /\ \A k \in r.good : Back(k)
                             /\ r.at \in Restoring \ {"rows"} => RowBack(r.token)
                             /\ r.at \in Restoring \ {"rows", "rollout"} => RolloutBack(r.token)
  BY DEF Restored
<1>t. r.op = "undo" /\ r.at \in Restoring => r.token \in Uses(r) /\ r.token \in r.toks
  BY <1>0 DEF Fits, Undoing, Uses
<1> HIDE DEF L
<1> USE <1>l
<1>1. CASE (\E x \in Sessions : DeleteBegins(L, x)) \/ DeleteStep(L) \/ SweepStep(L) \/ Report(L) \/ Crash(L)
           \/ LauncherStarts
  <2>1. work'[L].op # "undo"
    BY <1>1, DeletionStays, SweepStays DEF L
  <2> QED BY <2>1 DEF Restored, L
<1>2. CASE \E T \in offered : UndoBegins(T)
  <2>1. PICK T \in offered : \E b :
           work' = [work EXCEPT ![L] = [Idle EXCEPT !.op = "undo", !.at = "check",
                                            !.s = {backups[k].s : k \in T}, !.toks = T, !.blind = b]]
    BY <1>2 DEF UndoBegins, Begins, Becomes, L
  <2>2. PICK b : work' = [work EXCEPT ![L] = [Idle EXCEPT !.op = "undo", !.at = "check",
                                                 !.s = {backups[k].s : k \in T}, !.toks = T, !.blind = b]]
    BY <2>1
  <2> DEFINE q == [Idle EXCEPT !.op = "undo", !.at = "check", !.s = {backups[k].s : k \in T}, !.toks = T,
                               !.blind = b]
  <2>3. q.at = "check" /\ q.good = {} /\ q.done = FALSE /\ work' = [work EXCEPT ![L] = q]
    BY <2>2, IdleFields DEF Fields
  <2> HIDE DEF q
  <2>4. work'[L] = q
    BY <2>3, WorkAfter
  <2> QED BY <2>3, <2>4 DEF Restored, Restoring, L
<1>3. CASE CheckConflicts(L)
  <2> DEFINE a == [r EXCEPT !.at = "record"]
             b == [r EXCEPT !.at = "rows", !.token = Min(r.toks)]
  <2>1. /\ r.op = "undo" /\ r.at = "check" /\ UNCHANGED <<rows, rollout, file, backups>> /\ since' = since
        /\ \E q \in {a, b} : work' = [work EXCEPT ![L] = q]
    BY <1>3 DEF CheckConflicts, Does, GivesUp, MovesOn, Becomes, disk
  <2>2. /\ a.at = "record" /\ a.s = r.s /\ a.good = r.good /\ a.toks = r.toks /\ a.done = r.done
        /\ b.at = "rows" /\ b.s = r.s /\ b.good = r.good /\ b.toks = r.toks /\ b.done = r.done
    BY <1>0 DEF Fields
  <2> HIDE DEF a, b
  <2>3. PICK q \in {a, b} : work' = [work EXCEPT ![L] = q]
    BY <2>1
  <2> QED BY <1>r, <2>1, <2>2, <2>3, RestoredMoved DEF Restoring, L
<1>4. CASE RestoreRows(L)
  <2>r. PICK a, b, k : a = [r EXCEPT !.at = "record"] /\ b = [r EXCEPT !.at = "rollout"] /\ k = r.token
    OBVIOUS
  <2>1. r.op = "undo" /\ r.at = "rows" /\ UNCHANGED <<rollout, file, backups>>
    BY <1>4 DEF RestoreRows, Does
  <2>2. /\ a.at = "record" /\ a.s = r.s /\ a.good = r.good /\ a.toks = r.toks /\ a.done = r.done
        /\ b.at = "rollout" /\ b.s = r.s /\ b.good = r.good /\ b.toks = r.toks /\ b.done = r.done
        /\ b.token = k
    BY <1>0, <2>r DEF Fields
  <2>3. \/ UNCHANGED <<rows, since>> /\ work' = [work EXCEPT ![L] = a]
        \/ UNCHANGED <<rows, since>> /\ work' = [work EXCEPT ![L] = b] /\ ~HasDbRows(k)
        \/ /\ HasDbRows(k) /\ rows' = [rows EXCEPT ![s][backups[k].db] = backups[k].row]
           /\ Notes(L, {}, {s}) /\ work' = [work EXCEPT ![L] = b]
    BY <1>s, <1>4, <2>r DEF RestoreRows, MovesOn, Becomes, GivesUp
  <2>4. CASE UNCHANGED <<rows, since>> /\ work' = [work EXCEPT ![L] = a]
    BY <1>r, <2>1, <2>2, <2>4, RestoredMoved DEF Restoring, L
  <2>5. CASE UNCHANGED <<rows, since>> /\ work' = [work EXCEPT ![L] = b] /\ ~HasDbRows(k)
    <3>1. RowBack(b.token)
      BY <2>2, <2>5 DEF RowBack, HasDbRows
    <3> QED BY <1>r, <2>1, <2>2, <2>5, <3>1, RestoredMoved DEF Restoring, L
  <2>6. CASE /\ HasDbRows(k) /\ rows' = [rows EXCEPT ![s][backups[k].db] = backups[k].row]
             /\ Notes(L, {}, {s}) /\ work' = [work EXCEPT ![L] = b]
    <3>1. k \in Written /\ backups[k].s = s
      BY <1>0, <1>t, <2>1, <2>r DEF Restoring
    <3>2. backups[k].row # "none" /\ s \in Threads /\ backups[k].db \in Dbs
      BY <2>6, <3>1, BackupFields, SomeDbs DEF IInv, GoodBackups, GoodBackup, HasDbRows, Written, Dbs
    <3>3. Keeps(s)
      BY <2>1, <2>6, <3>2 DEF IInv, DiskOK, Keeps, RowsOf, EntriesOf, HasRollout
    <3>4. RowBack(b.token)'
      BY <2>1, <2>2, <2>6, <3>1, <3>2 DEF IInv, DiskOK, RowBack, RowsOf
    <3>5. since'[L] = since[L]
      BY <2>6, OwnNotes
    <3> QED BY <1>0, <1>g, <1>r, <2>1, <2>2, <2>6, <3>3, <3>4, <3>5, RestoredStep DEF Restoring, L
  <2> QED BY <2>3, <2>4, <2>5, <2>6
<1>5. CASE RestoreRollout(L)
  <2>r. PICK b, k : b = [r EXCEPT !.at = "index"] /\ k = r.token
    OBVIOUS
  <2>1. /\ r.op = "undo" /\ r.at = "rollout" /\ UNCHANGED <<rows, file, backups>>
        /\ work' = [work EXCEPT ![L] = b]
        /\ \/ UNCHANGED <<rollout, since>> /\ backups[k].roll = "none"
           \/ /\ backups[k].roll # "none" /\ rollout' = [rollout EXCEPT ![s] = backups[k].roll]
              /\ Notes(L, {}, {s})
    BY <1>s, <1>5, <2>r DEF RestoreRollout, Does, MovesOn, Becomes
  <2>2. /\ b.at = "index" /\ b.s = r.s /\ b.good = r.good /\ b.toks = r.toks /\ b.done = r.done
        /\ b.token = k
    BY <1>0, <2>r DEF Fields
  <2>3. k \in Written /\ backups[k].s = s
    BY <1>0, <1>t, <2>1, <2>r DEF Restoring
  <2>4. ~(r.s \subseteq since[L].took) => RowBack(k)
    BY <1>r, <2>r, <2>1 DEF Restoring
  <2>5. CASE UNCHANGED <<rollout, since>> /\ backups[k].roll = "none"
    <3>1. RolloutBack(k)
      BY <2>5 DEF RolloutBack
    <3> QED BY <1>r, <2>1, <2>2, <2>4, <2>5, <3>1, RestoredMoved DEF Restoring, L
  <2>6. CASE /\ backups[k].roll # "none" /\ rollout' = [rollout EXCEPT ![s] = backups[k].roll]
             /\ Notes(L, {}, {s})
    <3>1. Keeps(s)
      BY <2>1, <2>6 DEF IInv, DiskOK, Keeps, RowsOf, EntriesOf, HasRollout
    <3>2. backups[k].db # 0 => s \in Threads
      BY <2>3 DEF IInv, GoodBackups, GoodBackup, Written
    <3>3. RolloutBack(k)'
      BY <2>1, <2>3, <2>6, <3>2 DEF IInv, DiskOK, RolloutBack, HasRollout
    <3>4. RowBack(k) => RowBack(k)'
      BY <1>g, <2>1, <2>3, <3>1, BackStays
    <3>5. since'[L] = since[L]
      BY <2>6, OwnNotes
    <3>6. ~(b.s \subseteq since[L].took) => RowBack(b.token)' /\ RolloutBack(b.token)'
      BY <2>2, <2>4, <3>3, <3>4
    <3>7. b.s = {s} /\ b.good = r.good /\ (b.done => b.good = b.toks /\ b.at \in {"record", "report"})
      BY <1>0, <1>r, <2>1, <2>2
    <3>8. Grown(backups, backups') /\ r.op = "undo" /\ b.s = r.s /\ work' = [work EXCEPT ![L] = b]
      BY <1>g, <2>1, <2>2
    <3>9. \A x \in b.s : Keeps(x)
      BY <3>1, <3>7
    <3> QED BY <3>5, <3>6, <3>7, <3>8, <3>9, RestoredStep DEF L
  <2> QED BY <2>1, <2>5, <2>6
<1>6. CASE Verify(L)
  <2> DEFINE good == r.good \cup {r.token}
             a == [r EXCEPT !.at = "record"]
             b == [r EXCEPT !.at = "record", !.token = 0, !.good = good, !.done = TRUE]
             c == [r EXCEPT !.at = "rows", !.token = Min(r.toks \ good), !.good = good]
  <2>1. /\ r.op = "undo" /\ r.at = "verify" /\ UNCHANGED <<rows, rollout, file, backups>> /\ since' = since
        /\ \/ work' = [work EXCEPT ![L] = a]
           \/ /\ HasDbRows(r.token) \/ EntriesOf(s) # {}
              /\ \/ good = r.toks /\ work' = [work EXCEPT ![L] = b]
                 \/ work' = [work EXCEPT ![L] = c]
    BY <1>s, <1>6 DEF Verify, Does, GivesUp, MovesOn, Becomes, disk
  <2>2. /\ a.at = "record" /\ a.s = r.s /\ a.good = r.good /\ a.toks = r.toks /\ a.done = r.done
        /\ b.at = "record" /\ b.s = r.s /\ b.good = good /\ b.toks = r.toks
        /\ c.at = "rows" /\ c.s = r.s /\ c.good = good /\ c.toks = r.toks /\ c.done = r.done
    BY <1>0 DEF Fields
  <2>3. ~r.done
    BY <1>r, <2>1
  <2> HIDE DEF a, b, c
  <2>4. CASE work' = [work EXCEPT ![L] = a]
    BY <1>r, <2>1, <2>2, <2>4, RestoredMoved DEF Restoring, L
  <2>5. CASE HasDbRows(r.token) \/ EntriesOf(s) # {}
    <3>1. backups[r.token].s = s
      BY <1>0, <1>t, <2>1 DEF Restoring
    <3>2. ~(r.s \subseteq since[L].took) => Back(r.token)
      BY <1>r, <2>1, <2>5, <3>1 DEF Restoring, Back, EntryBack, HasDbRows
    <3>3. ~(r.s \subseteq since[L].took) => \A k \in good : k \in r.good \/ Back(k)
      BY <3>2
    <3>4. CASE good = r.toks /\ work' = [work EXCEPT ![L] = b]
      BY <2>1, <2>2, <3>3, <3>4, RestoredMoved DEF Restoring, L
    <3>5. CASE work' = [work EXCEPT ![L] = c]
      BY <2>1, <2>2, <2>3, <3>3, <3>5, RestoredMoved DEF Restoring, L
    <3> QED BY <2>1, <2>4, <3>4, <3>5
  <2> QED BY <2>1, <2>4, <2>5
<1>7. CASE RecordUndone(L)
  <2> DEFINE a == [r EXCEPT !.at = "report", !.token = 0]
  <2>1. /\ r.op = "undo" /\ r.at = "record" /\ UNCHANGED <<rows, rollout, file, backups>> /\ since' = since
        /\ work' = [work EXCEPT ![L] = a]
    BY <1>7 DEF RecordUndone, Does, MovesOn, Becomes
  <2>2. a.at = "report" /\ a.s = r.s /\ a.good = r.good /\ a.toks = r.toks /\ a.done = r.done
    BY <1>0 DEF Fields
  <2> HIDE DEF a
  <2> QED BY <1>r, <2>1, <2>2, RestoredMoved DEF Restoring, L
<1>8. CASE ReadFile(L)
  <2>1. /\ r.at \in Editing /\ UNCHANGED <<rows, rollout, file, backups>> /\ since' = since
        /\ \/ \E f \in Files : work' = [work EXCEPT ![L] = [r EXCEPT !.step = "write", !.seen = file[f]]]
           \/ \E o \in Outcomes : work' = [work EXCEPT ![L] = AfterEdit(r, o)]
    BY <1>8 DEF ReadFile, Edits, Editing, MovesOn, Becomes, Outcomes, disk
  <2>2. PICK q : /\ work' = [work EXCEPT ![L] = q]
                 /\ \/ \E f \in Files : q = [r EXCEPT !.step = "write", !.seen = file[f]]
                    \/ \E o \in Outcomes : q = AfterEdit(r, o)
    BY <2>1
  <2>3. CASE \E f \in Files : q = [r EXCEPT !.step = "write", !.seen = file[f]]
    <3>1. /\ q.op = r.op /\ q.at = r.at /\ q.s = r.s /\ q.token = r.token /\ q.good = r.good
          /\ q.toks = r.toks /\ q.done = r.done
      BY <1>0, <2>3 DEF Fields
    <3>2. CASE r.op = "undo"
      BY <1>r, <2>1, <2>2, <3>1, <3>2, RestoredMoved DEF L
    <3>3. CASE r.op # "undo"
      BY <2>2, <3>1, <3>3, WorkAfter DEF Restored, L
    <3> QED BY <3>2, <3>3
  <2>4. CASE \E o \in Outcomes : q = AfterEdit(r, o)
    <3>1. Follows(q, r) /\ r.op \in {"delete", "clear", "undo", "sweep"}
      BY <1>0, <2>1, <2>4, AfterEditFollows
    <3>2. CASE r.op = "undo"
      <4>1. AfterUndo(q, r)
        BY <3>1, <3>2 DEF Follows
      <4>2. ~(q.s \subseteq since[L].took) /\ q.at \in Restoring =>
               r.at \in Restoring \ {"rows", "rollout"} /\ RowBack(q.token) /\ RolloutBack(q.token)
        BY <1>e, <1>r, <3>2, <4>1 DEF AfterUndo, Restoring
      <4>3. ~q.done
        BY <1>r, <2>1, <3>2, <4>1 DEF AfterUndo, Editing
      <4> QED BY <1>r, <2>1, <2>2, <3>2, <4>1, <4>2, <4>3, RestoredMoved DEF AfterUndo, L
    <3>3. CASE r.op # "undo"
      BY <2>2, <3>1, <3>3, WorkAfter DEF Follows, Restored, L
    <3> QED BY <3>2, <3>3
  <2> QED BY <2>2, <2>3, <2>4
<1>9. CASE WriteFile(L)
  <2>1. PICK f \in Files, o \in Outcomes :
          /\ r.at \in Editing /\ UNCHANGED <<rows, rollout, backups>> /\ since'[L] = since[L]
          /\ file' = [file EXCEPT ![f] = IF Undoes(r) THEN r.seen \cup r.s ELSE r.seen \ r.s]
          /\ work' = [work EXCEPT ![L] = AfterEdit(r, o)]
    BY <1>9, OwnNotes DEF WriteFile, Edits, Editing, Becomes, Outcomes
  <2>q. PICK q : q = AfterEdit(r, o)
    OBVIOUS
  <2>2. Follows(q, r) /\ r.op \in {"delete", "clear", "undo", "sweep"} /\ work' = [work EXCEPT ![L] = q]
    BY <1>0, <2>1, <2>q, AfterEditFollows
  <2>3. CASE r.op = "undo"
    <3>1. AfterUndo(q, r)
      BY <2>2, <2>3 DEF Follows
    <3>2. Keeps(s)
      BY <1>0, <2>1, <2>3 DEF Undoes, IInv, DiskOK, Keeps, RowsOf, EntriesOf, HasRollout
    <3>3. ~q.done
      BY <1>r, <2>1, <2>3, <3>1 DEF AfterUndo, Editing
    <3>4. PICK t : t = r.token
      OBVIOUS
    <3>5. q.token = t /\ (q.at \in Restoring => r.at \in Restoring \ {"rows", "rollout"})
      BY <1>e, <2>3, <3>1, <3>4 DEF AfterUndo, Restoring
    <3>6. q.at \in Restoring => t \in Written /\ backups[t].s = s
      BY <1>0, <1>t, <2>3, <3>4, <3>5
    <3>7. ~(q.s \subseteq since[L].took) /\ q.at \in Restoring => RowBack(t) /\ RolloutBack(t)
      BY <1>r, <2>3, <3>1, <3>4, <3>5 DEF AfterUndo
    <3>8. ~(q.s \subseteq since[L].took) /\ q.at \in Restoring => RowBack(q.token)' /\ RolloutBack(q.token)'
      BY <1>g, <2>1, <3>2, <3>5, <3>6, <3>7, BackStays
    <3>9. q.s = {s} /\ q.s = r.s /\ q.good = r.good /\ r.op = "undo"
      BY <1>0, <2>3, <3>1 DEF AfterUndo
    <3>10. Grown(backups, backups') /\ work' = [work EXCEPT ![L] = q] /\ since'[L] = since[L]
      BY <1>g, <2>1, <2>2
    <3>11. \A x \in q.s : Keeps(x)
      BY <3>2, <3>9
    <3> QED BY <3>3, <3>8, <3>9, <3>10, <3>11, RestoredStep DEF L
  <2>4. CASE r.op # "undo"
    BY <2>2, <2>4, WorkAfter DEF Follows, Restored, L
  <2> QED BY <2>3, <2>4
<1>10. CASE Fails(L)
  <2>1. /\ r.at \notin {"idle", "down", "record", "report"} /\ UNCHANGED <<rows, rollout, file, backups>>
        /\ since' = since
    BY <1>10 DEF Fails, disk, MovesOn
  <2>2. PICK x \in IF r.at = "judge" THEN {{y} : y \in r.todo} ELSE {r.s} :
           work' = [work EXCEPT ![L] = AfterFailure([r EXCEPT !.s = x])]
    BY <1>10 DEF Fails, MovesOn, Becomes
  <2> DEFINE z == [r EXCEPT !.s = x]
             q == AfterFailure(z)
  <2>3. /\ Fits(L, z, backups) /\ z.op = r.op /\ z.at = r.at /\ z.good = r.good /\ z.token = r.token
        /\ z.s = x /\ z.toks = r.toks /\ z.done = r.done
    BY <2>1, <2>2, FailsFits
  <2>4. work' = [work EXCEPT ![L] = q]
    BY <2>2
  <2>5. Follows(q, z) /\ z.op \in {"delete", "clear", "undo", "sweep"}
    BY <2>1, <2>3, FailedFollows
  <2> HIDE DEF z, q
  <2>6. CASE r.op = "undo"
    <3>1. AfterUndo(q, z)
      BY <2>3, <2>5, <2>6 DEF Follows
    <3>2. z.s = r.s
      BY <1>0, <2>2, <2>3, <2>6, IdleFields DEF Fits, Stage
    <3>3. ~(q.s \subseteq since[L].took) /\ q.at \in Restoring => RowBack(q.token) /\ RolloutBack(q.token)
      BY <1>e, <1>r, <2>3, <2>6, <3>1, <3>2 DEF AfterUndo, Restoring
    <3>4. ~q.done
      BY <1>r, <2>1, <2>3, <2>6, <3>1 DEF AfterUndo
    <3>5. q.good = r.good /\ q.s = r.s
      BY <2>3, <3>1, <3>2 DEF AfterUndo
    <3> QED BY <1>r, <2>1, <2>4, <2>6, <3>3, <3>4, <3>5, RestoredMoved DEF L
  <2>7. CASE r.op # "undo"
    BY <2>3, <2>4, <2>5, <2>7, WorkAfter DEF Follows, Restored, L
  <2> QED BY <2>6, <2>7
<1> QED BY <1>1, <1>2, <1>3, <1>4, <1>5, <1>6, <1>7, <1>8, <1>9, <1>10 DEF Step, EditStep, UndoStep, L

(* A step that leaves the launcher's sweep of r where it is, or further on, *)
(* and gives nothing to its session.                                        *)
LEMMA SweptStep ==
  ASSUME IInv, Swept, NEW q, work' = [work EXCEPT !["launcher"] = q], q.op = "sweep", q.at # "judge",
         work["launcher"].op = "sweep", work["launcher"].at \notin {"judge", "snapshot"},
         q.s = work["launcher"].s, since["launcher"].gave \subseteq since'["launcher"].gave,
         \A s \in Sessions : s \in since'["launcher"].gave \/ ~Gains(s),
         Grown(backups, backups'), sidecar' = sidecar
  PROVE  Swept'
<1> DEFINE r == work["launcher"]
<1>1. "launcher" \in Workers /\ Fits("launcher", r, backups) /\ work'["launcher"] = q
  BY WorkAfter DEF IInv, WorkOK, Workers
<1> SUFFICES ASSUME NEW s \in r.s, s \notin since'["launcher"].gave
             PROVE  /\ RowsOf(s)' = {}
                    /\ \A f \in EntriesOf(s)' : \E k \in BackupsOf(s)' : f \in Entries(k)'
  BY <1>1 DEF Swept
<1>2. s \in Sessions /\ RowsOf(s)' \subseteq RowsOf(s) /\ EntriesOf(s)' \subseteq EntriesOf(s)
  BY <1>1 DEF Fits, Gains
<1>3. RowsOf(s) = {} /\ \A f \in EntriesOf(s) : \E k \in BackupsOf(s) : f \in Entries(k)
  BY DEF Swept
<1>4. \A k \in BackupsOf(s) : k \in BackupsOf(s)' /\ Entries(k)' = Entries(k)
  BY DEF Grown, BackupsOf, Entries, Written
<1> QED BY <1>2, <1>3, <1>4

LEMMA SweptNoted == ASSUME IInv, Swept, Noted("launcher"), sidecar' = sidecar PROVE Swept'
<1> DEFINE r == work["launcher"]
<1>1. "launcher" \in Workers /\ Fits("launcher", r, backups) /\ work'["launcher"] = r
  BY DEF IInv, WorkOK, Workers, Noted
<1> SUFFICES ASSUME r.op = "sweep", r.at # "judge", NEW s \in r.s, s \notin since'["launcher"].gave
             PROVE  /\ RowsOf(s)' = {}
                    /\ r.at # "snapshot" =>
                          \A f \in EntriesOf(s)' : \E k \in BackupsOf(s)' : f \in Entries(k)'
  BY <1>1 DEF Swept
<1>2. s \in Sessions /\ s \notin since["launcher"].gave
      /\ RowsOf(s)' \subseteq RowsOf(s) /\ EntriesOf(s)' \subseteq EntriesOf(s)
  BY <1>1 DEF Fits, Gains, Noted
<1>3. RowsOf(s) = {}
      /\ (r.at # "snapshot" => \A f \in EntriesOf(s) : \E k \in BackupsOf(s) : f \in Entries(k))
  BY <1>2 DEF Swept
<1>4. \A k \in BackupsOf(s) : k \in BackupsOf(s)' /\ Entries(k)' = Entries(k)
  BY DEF Noted, Grown, BackupsOf, Entries, Written
<1> QED BY <1>2, <1>3, <1>4

LEMMA SweptOwn ==
  ASSUME IInv, SinceOK, Swept, Step("launcher") PROVE Swept'
<1> DEFINE L == "launcher"
           r == work[L]
<1>l. L \in Workers
  BY DEF Workers
<1>0. Fits(L, r, backups) /\ DOMAIN r = Fields
  BY <1>l DEF IInv, WorkOK, Fits
<1>g. backups' = backups => Grown(backups, backups')
  BY DEF Grown
<1>n. UNCHANGED <<rows, file>> => \A s : RowsOf(s)' = RowsOf(s) /\ EntriesOf(s)' = EntriesOf(s) /\ ~Gains(s)
  BY DEF RowsOf, EntriesOf, Gains
<1> HIDE DEF L
<1> USE <1>l
<1>1. CASE (\E x \in Sessions : DeleteBegins(L, x)) \/ DeleteStep(L) \/ UndoStep(L)
           \/ \E T \in offered : UndoBegins(T)
  <2>1. work'[L].op # "sweep"
    BY <1>1, DeletionStays, UndoStays DEF L
  <2> QED BY <2>1 DEF Swept, L
<1>2. CASE SweepEnds(L) \/ Report(L) \/ Crash(L) \/ LauncherStarts
  <2> DEFINE a == [Idle EXCEPT !.op = "sweep", !.at = "judge", !.toks = Written \ marked,
                               !.todo = {backups[k].s : k \in Written \ marked}]
  <2>1. \E q \in {Idle, Down, a} : work' = [work EXCEPT ![L] = q]
    BY <1>2 DEF SweepEnds, Report, Crash, LauncherStarts, Begins, Ends, Becomes, L
  <2>2. Idle.op = "none" /\ Down.op = "none" /\ a.at = "judge"
    BY IdleFields DEF Fields
  <2> HIDE DEF a
  <2>3. work'[L].op # "sweep" \/ work'[L].at = "judge"
    BY <2>1, <2>2, WorkAfter
  <2> QED BY <2>3 DEF Swept, L
<1>3. CASE \E s \in Sessions : Judge(L, s)
  <2>1. PICK s \in Sessions : Judge(L, s)
    BY <1>3
  <2> DEFINE x == [r EXCEPT !.s = {s}]
             y == [x EXCEPT !.cache = <<IF x.cache = <<>> THEN file["index"] ELSE x.cache[1]>>]
             k == Max(x.toks \cap BackupsOf(s))
             a == [x EXCEPT !.at = "snapshot", !.token = k]
             b == [a EXCEPT !.cache = <<IF x.cache = <<>> THEN file["index"] ELSE x.cache[1]>>]
  <2>2. /\ r.op = "sweep" /\ UNCHANGED <<rows, file>>
        /\ \/ \E q \in {Marks(x), Marks(y)} : work' = [work EXCEPT ![L] = q]
           \/ RowsOf(s) = {} /\ \E q \in {a, b} : work' = [work EXCEPT ![L] = q]
    BY <2>1 DEF Judge, Does, MovesOn, Becomes, disk
  <2>3. /\ DOMAIN x = Fields /\ x.op = "sweep" /\ a.op = "sweep" /\ DOMAIN a = Fields
        /\ a.s = {s} /\ a.at = "snapshot"
    BY <1>0, <2>2 DEF Fields
  <2>4. DOMAIN y = Fields /\ y.op = "sweep" /\ b.op = "sweep" /\ b.s = {s} /\ b.at = "snapshot"
    BY <2>3 DEF Fields
  <2> HIDE DEF x, y, a, b
  <2>5. Marks(x).at = "judge" /\ Marks(y).at = "judge"
    BY <2>3, <2>4, DeferFields
  <2>6. CASE \E q \in {Marks(x), Marks(y)} : work' = [work EXCEPT ![L] = q]
    <3>1. work'[L].at = "judge"
      BY <2>5, <2>6, WorkAfter
    <3> QED BY <3>1 DEF Swept, L
  <2>7. CASE RowsOf(s) = {} /\ \E q \in {a, b} : work' = [work EXCEPT ![L] = q]
    <3>1. work'[L].at = "snapshot" /\ work'[L].s = {s}
      BY <2>3, <2>4, <2>7, WorkAfter
    <3>2. RowsOf(s)' = {}
      BY <1>n, <2>2, <2>7
    <3> QED BY <3>1, <3>2 DEF Swept, L
  <2> QED BY <2>2, <2>6, <2>7
<1>4. CASE KeepLeftovers(L)
  <2>s. PICK s : s = backups[r.token].s
    OBVIOUS
  <2>t. PICK t : t = r.token
    OBVIOUS
  <2>1. r.op = "sweep" /\ r.at = "snapshot" /\ UNCHANGED <<rows, file, backups, since>>
    BY <1>4 DEF KeepLeftovers, Does, MovesOn
  <2>2. t \in Written /\ r.s = {s} /\ Session(L) = s /\ s \in Sessions /\ backups[t].s = s
    BY <1>0, <2>s, <2>t, <2>1 DEF Fits, Sweeping, Uses, Session, Written
  <2>3. t \in Tokens
    BY <2>2, NotZero DEF IInv
  <2> DEFINE a == [r EXCEPT !.at = "index", !.done = "index" \in EntriesOf(s)]
  <2>4. \/ work' = [work EXCEPT ![L] = Marks(r)]
        \/ sidecar' = [sidecar EXCEPT ![t] = @ \cup EntriesOf(s)] /\ work' = [work EXCEPT ![L] = a]
    BY <1>4, <2>2, <2>t DEF KeepLeftovers, MovesOn, Becomes
  <2>5. a.op = "sweep" /\ a.at = "index" /\ a.s = {s} /\ Marks(r).at = "judge"
    BY <1>0, <2>1, <2>2, DeferFields DEF Fields
  <2> HIDE DEF a
  <2>6. CASE work' = [work EXCEPT ![L] = Marks(r)]
    <3>1. work'[L].at = "judge"
      BY <2>5, <2>6, WorkAfter
    <3> QED BY <3>1 DEF Swept, L
  <2>7. CASE sidecar' = [sidecar EXCEPT ![t] = @ \cup EntriesOf(s)] /\ work' = [work EXCEPT ![L] = a]
    <3>1. work'[L] = a
      BY <2>7, WorkAfter
    <3>2. s \in since[L].gave \/ RowsOf(s) = {}
      BY <2>1, <2>2 DEF Swept, L
    <3>3. EntriesOf(s)' = EntriesOf(s) /\ RowsOf(s)' = RowsOf(s)
      BY <1>n, <2>1
    <3>4. t \in BackupsOf(s)' /\ EntriesOf(s) \subseteq Entries(t)'
      BY <2>1, <2>2, <2>3, <2>7 DEF IInv, DiskOK, BackupsOf, Entries, Written
    <3> QED BY <2>1, <2>5, <3>1, <3>2, <3>3, <3>4 DEF Swept, L
  <2> QED BY <2>4, <2>6, <2>7
<1>5. ASSUME NEW q, NEW z, work' = [work EXCEPT ![L] = q], Follows(q, z), z.op = r.op, z.at = r.at,
             z.at \in Editing => z.s = r.s,
             r.op \in {"delete", "clear", "undo", "sweep"},
             since'[L] = since[L], \A s \in Sessions : r.op = "sweep" => ~Gains(s),
             Grown(backups, backups'), sidecar' = sidecar
      PROVE  Swept'
  <2>1. work'[L] = q
    BY <1>5, WorkAfter
  <2>2. CASE q.op # "sweep" \/ q.at = "judge"
    BY <2>1, <2>2 DEF Swept, L
  <2>3. CASE q.op = "sweep" /\ q.at # "judge"
    <3>1. r.op = "sweep" /\ r.at = "index" /\ q.s = r.s
      BY <1>5, <2>3 DEF Follows, AfterUndo, Editing
    <3> QED BY <1>5, <2>3, <3>1, SweptStep DEF L
  <2> QED BY <2>2, <2>3
<1>6. CASE ReadFile(L)
  <2>1. /\ r.at \in Editing /\ UNCHANGED <<rows, file, backups, sidecar>> /\ since' = since
        /\ \/ \E f \in Files : work' = [work EXCEPT ![L] = [r EXCEPT !.step = "write", !.seen = file[f]]]
           \/ \E o \in Outcomes : work' = [work EXCEPT ![L] = AfterEdit(r, o)]
    BY <1>6 DEF ReadFile, Edits, Editing, MovesOn, Becomes, Outcomes, disk
  <2>2. PICK q : /\ work' = [work EXCEPT ![L] = q]
                 /\ \/ \E f \in Files : q = [r EXCEPT !.step = "write", !.seen = file[f]]
                    \/ \E o \in Outcomes : q = AfterEdit(r, o)
    BY <2>1
  <2>3. Grown(backups, backups') /\ \A s \in Sessions : ~Gains(s)
    BY <1>g, <1>n, <2>1
  <2>4. CASE \E f \in Files : q = [r EXCEPT !.step = "write", !.seen = file[f]]
    <3>1. q.op = r.op /\ q.at = r.at /\ q.s = r.s
      BY <1>0, <2>4 DEF Fields
    <3>2. CASE r.op = "sweep"
      BY <2>1, <2>2, <2>3, <3>1, <3>2, SweptStep DEF L, Editing
    <3>3. CASE r.op # "sweep"
      BY <2>2, <3>1, <3>3, WorkAfter DEF Swept, L
    <3> QED BY <3>2, <3>3
  <2>5. CASE \E o \in Outcomes : q = AfterEdit(r, o)
    <3>1. Follows(q, r) /\ r.op \in {"delete", "clear", "undo", "sweep"}
      BY <1>0, <2>1, <2>5, AfterEditFollows
    <3>2. PICK z : z = r
      OBVIOUS
    <3> QED BY <1>5, <2>1, <2>2, <2>3, <3>1, <3>2
  <2> QED BY <2>2, <2>4, <2>5
<1>7. CASE WriteFile(L)
  <2>1. PICK f \in Files, o \in Outcomes :
          /\ r.at \in Editing /\ UNCHANGED <<rows, backups, sidecar>> /\ since'[L] = since[L]
          /\ file' = [file EXCEPT ![f] = IF Undoes(r) THEN r.seen \cup r.s ELSE r.seen \ r.s]
          /\ work' = [work EXCEPT ![L] = AfterEdit(r, o)]
    BY <1>7, OwnNotes DEF WriteFile, Edits, Editing, Becomes, Outcomes
  <2>q. PICK q, z : q = AfterEdit(r, o) /\ z = r
    OBVIOUS
  <2>2. Follows(q, z) /\ r.op \in {"delete", "clear", "undo", "sweep"} /\ work' = [work EXCEPT ![L] = q]
    BY <1>0, <2>1, <2>q, AfterEditFollows
  <2>3. Grown(backups, backups') /\ work'[L] = q
    BY <1>g, <2>1, <2>2, WorkAfter
  <2>4. CASE q.op # "sweep" \/ q.at = "judge"
    BY <2>3, <2>4 DEF Swept, L
  <2>5. CASE q.op = "sweep" /\ q.at # "judge"
    <3>1. r.op = "sweep" /\ r.at = "index" /\ q.s = r.s /\ ~Undoes(r)
      BY <2>2, <2>q, <2>5 DEF Follows, AfterUndo, Undoes
    <3>2. PICK s : r.s = {s}
      BY <1>0, <3>1 DEF Fits, Sweeping
    <3>3. RowsOf(s)' = RowsOf(s)
      BY <2>1 DEF RowsOf
    <3>4. EntriesOf(s)' \subseteq EntriesOf(s)
      BY <2>1, <3>1, <3>2 DEF IInv, DiskOK, EntriesOf
    <3>5. \A k \in BackupsOf(s) : k \in BackupsOf(s)' /\ Entries(k)' = Entries(k)
      BY <2>1 DEF BackupsOf, Entries, Written
    <3>6. s \in since[L].gave
          \/ (RowsOf(s) = {} /\ \A f2 \in EntriesOf(s) : \E k \in BackupsOf(s) : f2 \in Entries(k))
      BY <3>1, <3>2 DEF Swept, L
    <3>7. s \in since'[L].gave
          \/ (RowsOf(s)' = {} /\ \A f2 \in EntriesOf(s)' : \E k \in BackupsOf(s)' : f2 \in Entries(k)')
      BY <2>1, <3>3, <3>4, <3>5, <3>6
    <3> QED BY <2>3, <3>1, <3>2, <3>7 DEF Swept, L
  <2> QED BY <2>4, <2>5
<1>8. CASE Fails(L)
  <2>1. /\ r.at \notin {"idle", "down", "record", "report"} /\ UNCHANGED <<rows, file, backups, sidecar>>
        /\ since' = since
    BY <1>8 DEF Fails, disk, MovesOn
  <2>2. PICK x \in IF r.at = "judge" THEN {{y} : y \in r.todo} ELSE {r.s} :
           work' = [work EXCEPT ![L] = AfterFailure([r EXCEPT !.s = x])]
    BY <1>8 DEF Fails, MovesOn, Becomes
  <2>z. PICK z, q : z = [r EXCEPT !.s = x] /\ q = AfterFailure(z)
    OBVIOUS
  <2>3. Fits(L, z, backups) /\ z.op = r.op /\ z.at = r.at /\ z.s = x
    BY <2>1, <2>2, <2>z, FailsFits
  <2>4. work' = [work EXCEPT ![L] = q]
    BY <2>2, <2>z
  <2>5. Follows(q, z) /\ z.op \in {"delete", "clear", "undo", "sweep"}
    BY <2>1, <2>3, <2>z, FailedFollows
  <2>6. z.at \in Editing => z.s = r.s
    BY <2>2, <2>3 DEF Editing
  <2>7. Grown(backups, backups') /\ \A s \in Sessions : ~Gains(s)
    BY <1>g, <1>n, <2>1
  <2> QED BY <1>5, <2>1, <2>3, <2>4, <2>5, <2>6, <2>7
<1> QED BY <1>1, <1>2, <1>3, <1>4, <1>6, <1>7, <1>8 DEF Step, EditStep, SweepStep, L

-----------------------------------------------------------------------------
(* The second layer of the invariant.                                       *)
JInv == SinceOK /\ (\A w \in Workers : Recoverable(w)) /\ Restored /\ Swept

LEMMA InitJInv == Init => JInv
  BY IdleFields DEF Init, JInv, SinceOK, Recoverable, Restored, Swept, Workers

(* The manager and Codex leave the sidecars alone.                          *)
LEMMA SidecarsStay ==
  ASSUME IInv, Step("manager") \/ CodexStep PROVE sidecar' = sidecar
<1>1. CASE CodexStep
  BY <1>1 DEF CodexStep, CodexStarts, CodexStops, CodexFlushes, CodexIndexes, CodexRewrites, disk
<1>2. CASE Step("manager")
  <2>1. work["manager"].op \notin {"undo", "sweep"}
    BY DEF IInv, WorkOK, Fits, Workers
  <2>2. CASE UndoStep("manager") \/ SweepStep("manager")
    BY <2>1, <2>2 DEF UndoStep, CheckConflicts, RestoreRows, RestoreRollout, Verify, RecordUndone,
                      SweepStep, Judge, KeepLeftovers, SweepEnds, Does
  <2>3. CASE DeleteStep("manager") \/ \E s \in Sessions : DeleteBegins("manager", s)
    BY <2>3 DEF DeleteStep, Look, Commit, RemoveRollout, SaveEntries, DeleteBegins, disk
  <2>4. CASE EditStep("manager") \/ Report("manager") \/ Fails("manager") \/ Crash("manager")
    BY <2>4 DEF EditStep, ReadFile, WriteFile, Report, Fails, Crash, disk
  <2> QED BY <1>2, <2>2, <2>3, <2>4 DEF Step
<1> QED BY <1>1, <1>2

LEMMA StepJInv == IInv /\ JInv /\ [Next]_vars => JInv'
<1> SUFFICES ASSUME IInv, JInv, [Next]_vars PROVE JInv'
  OBVIOUS
<1> USE DEF JInv
<1>1. ASSUME Step("launcher") PROVE JInv'
  <2>1. Noted("manager") /\ SinceOK'
    BY <1>1, OthersAreNoted DEF Workers
  <2>2. Recoverable("launcher")' /\ Recoverable("manager")'
    BY <1>1, <2>1, RecoverableOwn, RecoverableNoted DEF Workers
  <2>3. Restored' /\ Swept'
    BY <1>1, RestoredOwn, SweptOwn
  <2> QED BY <2>1, <2>2, <2>3 DEF Workers
<1>2. ASSUME Step("manager") PROVE JInv'
  <2>1. Noted("launcher") /\ SinceOK'
    BY <1>2, OthersAreNoted DEF Workers
  <2>2. Recoverable("launcher")' /\ Recoverable("manager")'
    BY <1>2, <2>1, RecoverableOwn, RecoverableNoted DEF Workers
  <2>3. Restored' /\ Swept'
    BY <1>2, <2>1, RestoredNoted, SweptNoted, SidecarsStay
  <2> QED BY <2>1, <2>2, <2>3 DEF Workers
<1>3. ASSUME CodexStep PROVE JInv'
  <2>1. SinceOK' /\ \A w \in Workers : Noted(w)
    BY <1>3, CodexIsNoted DEF Workers
  <2>2. \A w \in Workers : Recoverable(w)'
    BY <2>1, RecoverableNoted
  <2>3. Restored' /\ Swept'
    BY <1>3, <2>1, RestoredNoted, SweptNoted, SidecarsStay DEF Workers
  <2> QED BY <2>1, <2>2, <2>3
<1>4. CASE UNCHANGED vars
  BY <1>4 DEF vars, disk, SinceOK, Recoverable, Restored, Swept, Parts, RowsOf, EntriesOf, HasRollout,
              RowBack, RolloutBack, EntryBack, Back, BackupsOf, Entries, Written
<1>5. Next => Step("launcher") \/ Step("manager") \/ CodexStep
  BY DEF Next, Step, Workers
<1> QED BY <1>1, <1>2, <1>3, <1>4, <1>5

LEMMA AlwaysJInv == Spec => [](IInv /\ JInv)
  BY InitIInv, InitJInv, StepIInv, StepJInv, PTL DEF Spec

(* DeletionIsUndoable: what a deletion took that reports success, and that  *)
(* no other took, its tokens restore, whatever else went on.                *)
LEMMA EndsUndoable ==
  ASSUME IInv, JInv, NEW w \in Workers, work[w].op \in {"delete", "clear"}, work[w].at = "report",
         work[w].done
  PROVE  \/ work[w].s \subseteq since[w].took
         \/ work[w].had \subseteq
               Parts(Session(w)) \cup UNION {Restores(k) : k \in Tickets(work[w])}
<1> DEFINE r == work[w]
<1>1. r.s = {Session(w)} /\ Fits(w, r, backups)
  BY OwnSession DEF IInv, WorkOK
<1> SUFFICES ASSUME ~(r.s \subseteq since[w].took), NEW p \in r.had, p \notin Parts(Session(w))
             PROVE  \E k \in Tickets(r) : p \in Restores(k)
  OBVIOUS
<1>2. Covered(r, p, backups)
  BY <1>1 DEF JInv, Recoverable
<1>3. \A k : p \in Holds(backups[k]) => p \in Restores(k)
  BY DEF Holds, Restores, Entries
<1>4. CASE r.op = "delete"
  <2>1. PICK k \in r.good : p \in Holds(backups[k])
    BY <1>2, <1>4 DEF Covered
  <2>2. Tickets(r) = r.good
    BY <1>4, <2>1 DEF Tickets
  <2> QED BY <1>3, <2>1, <2>2
<1>5. CASE r.op = "clear"
  <2>1. r.token # 0 /\ p \in Holds(backups[r.token])
    BY <1>2, <1>5 DEF Covered
  <2>2. r.token \in Tickets(r)
    BY <1>5, <2>1 DEF Tickets
  <2> QED BY <1>3, <2>1, <2>2
<1> QED BY <1>4, <1>5

THEOREM DeletionsCanBeUndone == Spec => DeletionIsUndoable
<1>1. IInv /\ JInv => [\A w \in Workers :
         LET r == work[w] IN
         (r.op \in {"delete", "clear"} /\ r.at = "report" /\ r.done /\ Report(w)) =>
            \/ r.s \subseteq since[w].took
            \/ r.had \subseteq Parts(Session(w)) \cup UNION {Restores(k) : k \in Tickets(r)}]_vars
  BY EndsUndoable
<1> QED BY <1>1, AlwaysJInv, PTL DEF DeletionIsUndoable

(* UndoneMeansBack: an undo that reports success has brought back the rows  *)
(* and the rollout of every backup, or the session's place in the sidebar.  *)
LEMMA EndsRestored ==
  ASSUME IInv, JInv, NEW w \in Workers, work[w].op = "undo", work[w].at = "report", work[w].done,
         NEW k \in work[w].toks
  PROVE  \/ backups[k].s \in since[w].took
         \/ IF HasDbRows(k)
            THEN Restores(k) \ {<<"file", f>> : f \in Files} \subseteq Parts(backups[k].s)
            ELSE EntriesOf(backups[k].s) # {}
<1> DEFINE r == work[w]
<1>1. Fits(w, r, backups) /\ w = "launcher"
  BY DEF IInv, WorkOK, Fits
<1>2. k \in Uses(r) /\ k \in Written
  BY <1>1 DEF Fits, Uses, Written
<1>3. r.s = {backups[k].s}
  BY <1>1, <1>2 DEF Fits, OneSession
<1> SUFFICES ASSUME backups[k].s \notin since[w].took
             PROVE  IF HasDbRows(k)
                    THEN Restores(k) \ {<<"file", f>> : f \in Files} \subseteq Parts(backups[k].s)
                    ELSE EntriesOf(backups[k].s) # {}
  OBVIOUS
<1>4. Back(k)
  BY <1>1, <1>3 DEF JInv, Restored
<1>5. CASE HasDbRows(k)
  <2>1. backups[k].db \in RowsOf(backups[k].s) /\ (backups[k].roll # "none" => HasRollout(backups[k].s))
    BY <1>4, <1>5 DEF Back, RowBack, RolloutBack, HasDbRows
  <2>2. ASSUME NEW p \in Restores(k), p \notin {<<"file", f>> : f \in Files} PROVE p \in Parts(backups[k].s)
    <3>1. Entries(k) \subseteq Files
      BY <1>2, BackupFields, NotZero DEF IInv, DiskOK, Entries
    <3>2. p = <<"row", backups[k].db>> \/ (p = <<"rollout", 0>> /\ backups[k].roll # "none")
      BY <2>2, <3>1 DEF Restores
    <3> QED BY <2>1, <3>2 DEF Parts
  <2> QED BY <1>5, <2>2
<1>6. CASE ~HasDbRows(k)
  BY <1>4, <1>6 DEF Back, EntryBack, HasDbRows
<1> QED BY <1>5, <1>6

THEOREM UndoneSessionsAreBack == Spec => UndoneMeansBack
<1>1. IInv /\ JInv => [\A w \in Workers :
         LET r == work[w] IN
         (r.op = "undo" /\ r.at = "report" /\ r.done /\ Report(w)) =>
            \A k \in r.toks :
               \/ backups[k].s \in since[w].took
               \/ IF HasDbRows(k)
                  THEN Restores(k) \ {<<"file", f>> : f \in Files} \subseteq Parts(backups[k].s)
                  ELSE EntriesOf(backups[k].s) # {}]_vars
  BY EndsRestored
<1> QED BY <1>1, AlwaysJInv, PTL DEF UndoneMeansBack

(* SweepIsSafe: the sweep takes an entry only of a session that is in no    *)
(* database, and only when a backup or its sidecar holds the entry, unless  *)
(* the session came back while it swept.                                    *)
THEOREM SweepTakesOnlyLeftovers == Spec => SweepIsSafe
<1>1. ASSUME IInv, JInv, NEW s \in work["launcher"].s, NEW f \in Files,
             work["launcher"].op = "sweep", WriteFile("launcher"), s \in file[f] \ file'[f]
      PROVE  \/ s \in since["launcher"].gave
             \/ RowsOf(s) = {} /\ \E k \in BackupsOf(s) : f \in Entries(k)
  <2>1. work["launcher"].at \in Editing
    BY <1>1 DEF WriteFile, Edits, Editing
  <2>2. f \in EntriesOf(s)
    BY <1>1 DEF EntriesOf
  <2> QED BY <1>1, <2>1, <2>2 DEF JInv, Swept, Editing
<1>2. IInv /\ JInv => [\A s \in work["launcher"].s, f \in Files :
         (work["launcher"].op = "sweep" /\ WriteFile("launcher") /\ s \in file[f] \ file'[f]) =>
            \/ s \in since["launcher"].gave
            \/ RowsOf(s) = {} /\ \E k \in BackupsOf(s) : f \in Entries(k)]_vars
  BY <1>1
<1> QED BY <1>2, AlwaysJInv, PTL DEF SweepIsSafe

(* NewerRowsStay: a row that was written after a deletion is never replaced *)
(* by the row of the backup.                                                *)
LEMMA RowsThatChange ==
  ASSUME IInv, [Next]_vars, NEW t \in Threads, NEW d \in Dbs, rows[t][d] = "new" PROVE rows'[t][d] # "old"
<1>1. \/ rows' = rows
      \/ \E w \in Workers : Commit(w) \/ RestoreRows(w)
      \/ \E x \in Sessions, e \in Dbs : rows' = [rows EXCEPT ![x][e] = "new"]
  <2>1. ASSUME NEW w \in Workers PROVE Step(w) => rows' = rows \/ Commit(w) \/ RestoreRows(w)
    BY DEF Step, DeleteBegins, DeleteStep, Look, RemoveRollout, SaveEntries, EditStep, ReadFile, WriteFile,
           UndoStep, CheckConflicts, RestoreRollout, Verify, RecordUndone, SweepStep, Judge,
           KeepLeftovers, SweepEnds, Report, Fails, Crash, UndoBegins, LauncherStarts, disk
  <2>2. CodexStep => rows' = rows \/ \E x \in Sessions, e \in Dbs : rows' = [rows EXCEPT ![x][e] = "new"]
    BY DEF CodexStep, CodexStarts, CodexStops, CodexFlushes, CodexIndexes, CodexRewrites, disk
  <2>3. Next => (\E w \in Workers : Step(w)) \/ CodexStep
    BY DEF Next, Step, Workers
  <2>4. UNCHANGED vars => rows' = rows
    BY DEF vars, disk
  <2> QED BY <2>1, <2>2, <2>3, <2>4
<1>2. CASE \E w \in Workers : Commit(w)
  BY <1>2 DEF Commit, IInv, DiskOK
<1>3. CASE \E w \in Workers : RestoreRows(w)
  BY <1>3 DEF RestoreRows, IInv, DiskOK
<1>4. CASE \E x \in Sessions, e \in Dbs : rows' = [rows EXCEPT ![x][e] = "new"]
  BY <1>4 DEF IInv, DiskOK
<1> QED BY <1>1, <1>2, <1>3, <1>4

THEOREM BackupsNeverReplaceRows == Spec => NewerRowsStay
<1>1. IInv /\ [Next]_vars => [\A t \in Threads : \A d \in Dbs : rows[t][d] = "new" => rows'[t][d] # "old"]_rows
  BY RowsThatChange
<1> QED BY <1>1, AlwaysIInv, PTL DEF NewerRowsStay, Spec
=============================================================================
