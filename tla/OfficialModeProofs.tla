-------------------------- MODULE OfficialModeProofs --------------------------
(***************************************************************************)
(* Proofs about OfficialMode: a sign-in of the user's that ReCodex found is  *)
(* kept, official mode is the user's, coming back from it restores the      *)
(* installation, and signing out gives back what it found, for any number   *)
(* of sign-ins, gateways, failed writes and ends of the program.            *)
(***************************************************************************)
EXTENDS OfficialMode, TLAPS

(* The operations, their writes and the values of the variables.             *)
Flows == {"none", "enable", "disable", "route", "stage", "login", "logout"}
Steps == {"save", "demote", "auth back", "unmark", "drop backup", "restore config", "unset key",
          "discard", "clear", "apply", "keep own", "mark", "write auth", "set key", "stage", "end"}

Blocks      == [gw : Gateways \cup {"none"}, key : Nat, leads : BOOLEAN]
Credentials == {"nobody", "user", "recodex"} \X Nat
Configs     == [block : Blocks, dflt : Providers \cup {"none"}, prev : Providers \cup {"none"}]
Snapshots   == [taken : BOOLEAN, block : Blocks, auth : Credentials, key : Nat]
Runs        == [flow : Flows, at : Steps, block : Blocks, auth : Credentials, key : Nat,
                clean : BOOLEAN]

TypeOK ==
    /\ cfg \in Configs
    /\ auth \in Credentials /\ backup \in Credentials /\ managed \in BOOLEAN /\ key \in Nat
    /\ snap \in Snapshots
    /\ run \in Runs
    /\ session \in Nat
    /\ count \in [sessions : Nat, signIns : Nat, incidents : Nat]
    /\ settled \in BOOLEAN

(* Which writes an operation has.                                            *)
OnItsWay ==
    /\ run.flow = "none" => run = Idle
    /\ run.flow = "enable" =>
          run.at \in {"save", "demote", "auth back", "unmark", "drop backup", "clear"}
    /\ run.flow = "disable" =>
          run.at \in {"apply", "keep own", "mark", "write auth", "set key", "clear"}
    /\ run.flow = "route" => run.at = "apply"
    /\ run.flow = "stage" => run.at = "stage"
    /\ run.flow = "login" =>
          run.at \in {"discard", "clear", "apply", "keep own", "mark", "write auth", "set key"}
    /\ run.flow = "logout" =>
          run.at \in {"restore config", "auth back", "unmark", "drop backup", "unset key",
                      "discard", "clear"}

(* There is no sign-in of the user's that was made with nothing of ReCodex's  *)
(* in place; or else that is the one in auth.json.                           *)
Free == own = Nobody
Back == Free \/ auth = own

(* What keeps the user's sign-in at every write: the backup, once there, is  *)
(* that sign-in, a mark without a backup is made only where there was        *)
(* nothing to keep, and auth.json has it back before the backup goes.        *)
OwnInv ==
    /\ Free \/ own \in {auth, backup}
    /\ backup # Nobody => Free \/ backup = own
    /\ managed /\ backup = Nobody => Free
    /\ run.at \in {"mark", "write auth"} /\ run.auth # Nobody => Free \/ backup = own
    /\ run.at \in {"unmark", "drop backup"} => Back
    /\ run.at = "drop backup" => ~managed
    /\ ownDflt = Chosen(cfg)

(* What a sign-out that went well so far has taken away, write by write.     *)
LogoutInv ==
    run.flow = "logout" /\ run.clean =>
        /\ run.at # "restore config" => cfg.block = NoBlock /\ cfg.dflt = Chosen(cfg)
        /\ run.at \in {"unset key", "discard", "clear"} => ~managed /\ backup = Nobody /\ Back
        /\ run.at \in {"discard", "clear"} => key = 0

(* Official mode, and what the operations that enter and leave it know on    *)
(* their way.                                                                *)
OfficialInv ==
    /\ run.flow \in {"none", "stage"} /\ is_official_mode /\ settled =>
          ~cfg.block.leads /\ Back /\ ~managed /\ backup = Nobody
    /\ run.flow = "stage" => is_official_mode
    /\ run.flow = "enable" /\ run.clean =>
          /\ run.at \in {"auth back", "unmark", "drop backup"} => ~cfg.block.leads
          /\ run.at # "clear"
    /\ run.flow = "login" /\ settled /\ run.at \notin {"discard", "clear"} => ~is_official_mode
    /\ run.flow = "route" => ~is_official_mode

(* The inductive invariant.                                                  *)
IInv == TypeOK /\ OnItsWay /\ OwnInv /\ LogoutInv /\ OfficialInv

(* The action of SignOutRestores.                                            *)
SignOutStep ==
    run.flow = "logout" /\ run.clean /\ Completed =>
          /\ ~is_official_mode'
          /\ cfg'.block = NoBlock /\ cfg'.dflt = ownDflt
          /\ key' = 0 /\ ~managed' /\ backup' = Nobody
          /\ own = Nobody \/ auth' = own

(* The values the writes put down are of the right type.                     *)
LEMMA ValuesTyped ==
    /\ Nobody \in Credentials /\ \A i \in Nat : User(i) \in Credentials /\ Ours(i) \in Credentials
    /\ NoBlock \in Blocks /\ \A g \in Gateways, k \in Nat : Block(g, k) \in Blocks
    /\ Idle \in Runs
    /\ NoSnapshot \in Snapshots
  <1>1. Nobody \in Credentials /\ \A i \in Nat : User(i) \in Credentials /\ Ours(i) \in Credentials
    BY DEF Credentials, Nobody, User, Ours
  <1>2. NoBlock \in Blocks /\ \A g \in Gateways, k \in Nat : Block(g, k) \in Blocks
    BY DEF Blocks, NoBlock, Block
  <1>3. Idle \in Runs
    BY <1>1, <1>2 DEF Idle, Runs, Flows, Steps
  <1>4. NoSnapshot \in Snapshots
    BY <1>1, <1>2 DEF NoSnapshot, Snapshots
  <1> QED BY <1>1, <1>2, <1>3, <1>4

(* The first state is well typed.                                            *)
LEMMA InitTypes == Init => TypeOK
  <1> SUFFICES ASSUME Init PROVE TypeOK
    OBVIOUS
  <1>1. cfg \in Configs
    BY ValuesTyped DEF Init, Configs
  <1>2. auth \in Credentials /\ backup \in Credentials /\ managed \in BOOLEAN /\ key \in Nat
    BY ValuesTyped DEF Init
  <1> QED BY <1>1, <1>2, ValuesTyped DEF Init, TypeOK

(***************************************************************************)
(* What a write changes and which write follows, one fact per write.        *)
(***************************************************************************)
LEMMA EffectOfWrite == ASSUME Write PROVE
    /\ run.at = "save" =>
           /\ snap' = current_snapshot
           /\ UNCHANGED <<cfg, auth, backup, managed, key>>
    /\ run.at = "demote" =>
           /\ cfg' = demote_managed_provider(cfg)
           /\ UNCHANGED <<auth, backup, managed, key, snap>>
    /\ run.at = "auth back" =>
           /\ auth' = IF managed \/ backup # Nobody THEN backup ELSE auth
           /\ UNCHANGED <<cfg, backup, managed, key, snap>>
    /\ run.at = "unmark" => (managed' = FALSE) /\ UNCHANGED <<cfg, auth, backup, key, snap>>
    /\ run.at = "drop backup" => (backup' = Nobody) /\ UNCHANGED <<cfg, auth, managed, key, snap>>
    /\ run.at = "restore config" =>
           /\ cfg' = restore_config(cfg)
           /\ UNCHANGED <<auth, backup, managed, key, snap>>
    /\ run.at = "unset key" => (key' = 0) /\ UNCHANGED <<cfg, auth, backup, managed, snap>>
    /\ run.at = "discard" =>
           /\ cfg' = restore_config(cfg)
           /\ UNCHANGED <<auth, backup, managed, key, snap>>
    /\ run.at = "clear" => (snap' = NoSnapshot) /\ UNCHANGED <<cfg, auth, backup, managed, key>>
    /\ run.at = "apply" =>
           /\ cfg' = Applied(cfg, run.block)
           /\ UNCHANGED <<auth, backup, managed, key, snap>>
    /\ run.at = "keep own" => (backup' = Kept(run)) /\ UNCHANGED <<cfg, auth, managed, key, snap>>
    /\ run.at = "mark" =>
           /\ managed' = IF run.auth # Nobody THEN TRUE ELSE managed
           /\ UNCHANGED <<cfg, auth, backup, key, snap>>
    /\ run.at = "write auth" =>
           /\ auth' = IF run.auth # Nobody THEN run.auth ELSE auth
           /\ UNCHANGED <<cfg, backup, managed, key, snap>>
    /\ run.at = "set key" =>
           /\ key' = IF run.key # 0 THEN run.key ELSE key
           /\ UNCHANGED <<cfg, auth, backup, managed, snap>>
    /\ run.at = "stage" =>
           /\ snap' = [snap EXCEPT !.block = run.block]
           /\ UNCHANGED <<cfg, auth, backup, managed, key>>
  <1> USE DEF Write, Config, Auth, Backup, Mark, Key, Snapshot
  <1>1. run.at = "save" =>
           /\ snap' = current_snapshot
           /\ UNCHANGED <<cfg, auth, backup, managed, key>>
    OBVIOUS
  <1>2. run.at = "demote" =>
           /\ cfg' = demote_managed_provider(cfg)
           /\ UNCHANGED <<auth, backup, managed, key, snap>>
    OBVIOUS
  <1>3. run.at = "auth back" =>
           /\ auth' = IF managed \/ backup # Nobody THEN backup ELSE auth
           /\ UNCHANGED <<cfg, backup, managed, key, snap>>
    OBVIOUS
  <1>4. run.at = "unmark" => (managed' = FALSE) /\ UNCHANGED <<cfg, auth, backup, key, snap>>
    OBVIOUS
  <1>5. run.at = "drop backup" => (backup' = Nobody) /\ UNCHANGED <<cfg, auth, managed, key, snap>>
    OBVIOUS
  <1>6. run.at = "restore config" =>
           /\ cfg' = restore_config(cfg)
           /\ UNCHANGED <<auth, backup, managed, key, snap>>
    OBVIOUS
  <1>7. run.at = "unset key" => (key' = 0) /\ UNCHANGED <<cfg, auth, backup, managed, snap>>
    OBVIOUS
  <1>8. run.at = "discard" =>
           /\ cfg' = restore_config(cfg)
           /\ UNCHANGED <<auth, backup, managed, key, snap>>
    OBVIOUS
  <1>9. run.at = "clear" => (snap' = NoSnapshot) /\ UNCHANGED <<cfg, auth, backup, managed, key>>
    OBVIOUS
  <1>10. run.at = "apply" =>
           /\ cfg' = Applied(cfg, run.block)
           /\ UNCHANGED <<auth, backup, managed, key, snap>>
    OBVIOUS
  <1>11. run.at = "keep own" => (backup' = Kept(run)) /\ UNCHANGED <<cfg, auth, managed, key, snap>>
    OBVIOUS
  <1>12. run.at = "mark" =>
           /\ managed' = IF run.auth # Nobody THEN TRUE ELSE managed
           /\ UNCHANGED <<cfg, auth, backup, key, snap>>
    OBVIOUS
  <1>13. run.at = "write auth" =>
           /\ auth' = IF run.auth # Nobody THEN run.auth ELSE auth
           /\ UNCHANGED <<cfg, backup, managed, key, snap>>
    OBVIOUS
  <1>14. run.at = "set key" =>
           /\ key' = IF run.key # 0 THEN run.key ELSE key
           /\ UNCHANGED <<cfg, auth, backup, managed, snap>>
    OBVIOUS
  <1>15. run.at = "stage" =>
           /\ snap' = [snap EXCEPT !.block = run.block]
           /\ UNCHANGED <<cfg, auth, backup, managed, key>>
    OBVIOUS
  <1> QED BY <1>1, <1>2, <1>3, <1>4, <1>5, <1>6, <1>7, <1>8, <1>9, <1>10, <1>11, <1>12, <1>13,
     <1>14, <1>15

(* The operation goes on with this write.                                    *)
Moves(s) == run' = [run EXCEPT !.at = s]

(* In this operation, this write is followed by that one, or it was the last. *)
Follows(flow, s, next) ==
    run.flow = flow /\ run.at = s => IF next = "end" THEN run' = Idle ELSE Moves(next)

(* Every write of every operation and the one that follows it.               *)
LEMMA WayOfWrite == ASSUME TypeOK, OnItsWay, Write PROVE
    /\ run.flow \in Flows \ {"none"} /\ run.at # "end"
    /\ Follows("enable", "save", "demote")
    /\ Follows("enable", "demote", "auth back")
    /\ Follows("enable", "auth back", "unmark")
    /\ Follows("enable", "unmark", "drop backup")
    /\ Follows("enable", "drop backup", "end")
    /\ Follows("enable", "clear", "end")
    /\ Follows("disable", "apply", "keep own")
    /\ Follows("disable", "keep own", "mark")
    /\ Follows("disable", "mark", "write auth")
    /\ Follows("disable", "write auth", "set key")
    /\ Follows("disable", "set key", "clear")
    /\ Follows("disable", "clear", "end")
    /\ Follows("route", "apply", "end")
    /\ Follows("stage", "stage", "end")
    /\ Follows("login", "discard", "clear")
    /\ Follows("login", "clear", "apply")
    /\ Follows("login", "apply", "keep own")
    /\ Follows("login", "keep own", "mark")
    /\ Follows("login", "mark", "write auth")
    /\ Follows("login", "write auth", "set key")
    /\ Follows("login", "set key", "end")
    /\ Follows("logout", "restore config", "auth back")
    /\ Follows("logout", "auth back", "unmark")
    /\ Follows("logout", "unmark", "drop backup")
    /\ Follows("logout", "drop backup", "unset key")
    /\ Follows("logout", "unset key", "discard")
    /\ Follows("logout", "discard", "clear")
    /\ Follows("logout", "clear", "end")
  <1>1. run.flow \in Flows \ {"none"} /\ run.at # "end"
    BY DEF TypeOK, Write, OnItsWay, Runs, Flows
  <1> USE DEF Follows, Write, GoesOn, NextStep, Moves, TypeOK, Runs
  <1>2. Follows("enable", "save", "demote")
    OBVIOUS
  <1>3. Follows("enable", "demote", "auth back")
    OBVIOUS
  <1>4. Follows("enable", "auth back", "unmark")
    OBVIOUS
  <1>5. Follows("enable", "unmark", "drop backup")
    OBVIOUS
  <1>6. Follows("enable", "drop backup", "end")
    OBVIOUS
  <1>7. Follows("enable", "clear", "end")
    OBVIOUS
  <1>8. Follows("disable", "apply", "keep own")
    OBVIOUS
  <1>9. Follows("disable", "keep own", "mark")
    OBVIOUS
  <1>10. Follows("disable", "mark", "write auth")
    OBVIOUS
  <1>11. Follows("disable", "write auth", "set key")
    OBVIOUS
  <1>12. Follows("disable", "set key", "clear")
    OBVIOUS
  <1>13. Follows("disable", "clear", "end")
    OBVIOUS
  <1>14. Follows("route", "apply", "end")
    OBVIOUS
  <1>15. Follows("stage", "stage", "end")
    OBVIOUS
  <1>16. Follows("login", "discard", "clear")
    OBVIOUS
  <1>17. Follows("login", "clear", "apply")
    OBVIOUS
  <1>18. Follows("login", "apply", "keep own")
    OBVIOUS
  <1>19. Follows("login", "keep own", "mark")
    OBVIOUS
  <1>20. Follows("login", "mark", "write auth")
    OBVIOUS
  <1>21. Follows("login", "write auth", "set key")
    OBVIOUS
  <1>22. Follows("login", "set key", "end")
    OBVIOUS
  <1>23. Follows("logout", "restore config", "auth back")
    OBVIOUS
  <1>24. Follows("logout", "auth back", "unmark")
    OBVIOUS
  <1>25. Follows("logout", "unmark", "drop backup")
    OBVIOUS
  <1>26. Follows("logout", "drop backup", "unset key")
    OBVIOUS
  <1>27. Follows("logout", "unset key", "discard")
    OBVIOUS
  <1>28. Follows("logout", "discard", "clear")
    OBVIOUS
  <1>29. Follows("logout", "clear", "end")
    OBVIOUS
  <1> QED BY <1>1, <1>2, <1>3, <1>4, <1>5, <1>6, <1>7, <1>8, <1>9, <1>10, <1>11, <1>12, <1>13,
     <1>14, <1>15, <1>16, <1>17, <1>18, <1>19, <1>20, <1>21, <1>22, <1>23, <1>24, <1>25, <1>26,
     <1>27, <1>28, <1>29

(* Where an operation is after it ended or went on.                          *)
LEMMA IdleAndMoves == ASSUME TypeOK PROVE
    Idle.at = "end" /\ Idle.flow = "none" /\ \A s : Moves(s) => run'.at = s
  BY DEF Idle, Moves, TypeOK, Runs

(* An operation keeps what it set out with, and each of four writes comes     *)
(* after one other.                                                           *)
LEMMA OperationGoesOn == ASSUME TypeOK, OnItsWay, Write PROVE
    /\ run' = Idle \/ \E s \in Steps : Moves(s)
    /\ run' = Idle \/ (run'.flow = run.flow /\ run'.auth = run.auth /\ run'.clean = run.clean)
    /\ run'.at = "mark" => run.at = "keep own"
    /\ run'.at = "write auth" => run.at = "mark"
    /\ run'.at = "unmark" => run.at = "auth back"
    /\ run'.at = "drop backup" => run.at = "unmark"
  <1>1. run' = Idle \/ \E s \in Steps : Moves(s)
    BY WayOfWrite DEF Follows, OnItsWay, Flows, Steps
  <1>2. run' = Idle \/ (run'.flow = run.flow /\ run'.auth = run.auth /\ run'.clean = run.clean)
    BY <1>1 DEF Moves, Idle, TypeOK, Runs
  <1>3. run.at = "keep own" \/ run'.at # "mark"
    BY IdleAndMoves, WayOfWrite DEF Follows, OnItsWay, Flows
  <1>4. run.at = "mark" \/ run'.at # "write auth"
    BY IdleAndMoves, WayOfWrite DEF Follows, OnItsWay, Flows
  <1>5. run.at = "auth back" \/ run'.at # "unmark"
    BY IdleAndMoves, WayOfWrite DEF Follows, OnItsWay, Flows
  <1>6. run.at = "unmark" \/ run'.at # "drop backup"
    BY IdleAndMoves, WayOfWrite DEF Follows, OnItsWay, Flows
  <1> QED BY <1>1, <1>2, <1>3, <1>4, <1>5, <1>6

(* A write keeps the types, and its operation on its way.                    *)
LEMMA WriteTypes == ASSUME TypeOK, OnItsWay, Write PROVE TypeOK' /\ OnItsWay'
  <1>1. cfg' \in Configs
    <2>1. restore_config(cfg) \in Configs /\ demote_managed_provider(cfg) \in Configs
      BY ValuesTyped DEF restore_config, demote_managed_provider, Chosen, Configs, Blocks, TypeOK
    <2>2. Applied(cfg, run.block) \in Configs
      BY DEF Applied, Chosen, Configs, Blocks, Runs, TypeOK
    <2> QED BY <2>1, <2>2, EffectOfWrite, WayOfWrite DEF TypeOK, Runs, Steps
  <1>2. auth' \in Credentials /\ backup' \in Credentials
    <2>1. auth' \in {auth, backup, run.auth} /\ backup' \in {backup, auth, Nobody}
      BY DEF Write, Auth, Backup, Kept
    <2> QED BY <2>1, ValuesTyped DEF TypeOK, Runs
  <1>3. key' \in Nat
    BY DEF Write, Key, TypeOK, Runs
  <1>4. managed' \in BOOLEAN
    BY DEF Write, Mark, TypeOK
  <1>5. snap' \in Snapshots
    <2>1. current_snapshot \in Snapshots
      BY ValuesTyped DEF current_snapshot, Snapshots, Configs, TypeOK
    <2>2. [snap EXCEPT !.block = run.block] \in Snapshots
      BY DEF Snapshots, Runs, TypeOK
    <2> QED BY <2>1, <2>2, ValuesTyped, EffectOfWrite, WayOfWrite DEF TypeOK, Runs, Steps
  <1>6. run' \in Runs
    BY ValuesTyped, OperationGoesOn DEF TypeOK, Runs, Moves
  <1>7. OnItsWay'
    <2>1. run' = Idle \/ run'.flow = run.flow
      BY OperationGoesOn DEF Moves, TypeOK, Runs
    <2>2. CASE run' = Idle
      BY <2>2 DEF OnItsWay, Idle
    <2>3. CASE run'.flow = run.flow
      BY <2>3, WayOfWrite, IdleAndMoves DEF Follows, OnItsWay, Flows, Steps
    <2> QED BY <2>1, <2>2, <2>3
  <1>8. settled' \in BOOLEAN
    BY DEF TypeOK, Write, Runs
  <1> QED BY <1>1, <1>2, <1>3, <1>4, <1>5, <1>6, <1>7, <1>8 DEF TypeOK, Write, world

(* A write keeps what the user brought.                                      *)
LEMMA WriteKeepsOwn == ASSUME TypeOK, OnItsWay, OwnInv, Write PROVE OwnInv'
  <1>1. Chosen(cfg') = Chosen(cfg)
    <2>1. /\ Chosen(restore_config(cfg)) = Chosen(cfg)
          /\ Chosen(demote_managed_provider(cfg)) = Chosen(cfg)
      BY DEF Chosen, restore_config, demote_managed_provider, TypeOK, Configs
    <2>2. Chosen(Applied(cfg, run.block)) = Chosen(cfg)
      BY DEF Chosen, Applied
    <2> QED BY <2>1, <2>2, EffectOfWrite, WayOfWrite DEF TypeOK, Runs, Steps
  <1> USE EffectOfWrite, OperationGoesOn, IdleAndMoves
          DEF Write, world, OwnInv, Free, Back, Kept
  <1>2. CASE run.at = "save"
    BY <1>1, <1>2
  <1>3. CASE run.at = "demote"
    BY <1>1, <1>3
  <1>4. CASE run.at = "auth back"
    BY <1>1, <1>4
  <1>5. CASE run.at = "unmark"
    BY <1>1, <1>5
  <1>6. CASE run.at = "drop backup"
    BY <1>1, <1>6
  <1>7. CASE run.at = "restore config"
    BY <1>1, <1>7
  <1>8. CASE run.at = "unset key"
    BY <1>1, <1>8
  <1>9. CASE run.at = "discard"
    BY <1>1, <1>9
  <1>10. CASE run.at = "clear"
    BY <1>1, <1>10
  <1>11. CASE run.at = "apply"
    BY <1>1, <1>11
  <1>12. CASE run.at = "keep own"
    BY <1>1, <1>12
  <1>13. CASE run.at = "mark"
    BY <1>1, <1>13
  <1>14. CASE run.at = "write auth"
    BY <1>1, <1>14
  <1>15. CASE run.at = "set key"
    BY <1>1, <1>15
  <1>16. CASE run.at = "stage"
    BY <1>1, <1>16
  <1> QED BY WayOfWrite, <1>2, <1>3, <1>4, <1>5, <1>6, <1>7, <1>8, <1>9, <1>10, <1>11, <1>12,
     <1>13, <1>14, <1>15, <1>16 DEF TypeOK, Runs, Steps

(* Single fields after the writes that replace a record.                     *)
LEMMA FieldsAfterWrites == ASSUME TypeOK PROVE
    /\ restore_config(cfg).block = NoBlock
    /\ restore_config(cfg).dflt = Chosen(cfg)
    /\ Chosen(restore_config(cfg)) = Chosen(cfg)
    /\ demote_managed_provider(cfg).block.leads = FALSE
    /\ current_snapshot.taken = TRUE
    /\ NoSnapshot.taken = FALSE
    /\ [snap EXCEPT !.block = run.block].taken = snap.taken
  <1>1. restore_config(cfg).block = NoBlock /\ restore_config(cfg).dflt = Chosen(cfg)
    BY DEF restore_config
  <1>2. Chosen(restore_config(cfg)) = Chosen(cfg)
    BY DEF restore_config, Chosen
  <1>3. demote_managed_provider(cfg).block.leads = FALSE
    BY DEF demote_managed_provider, TypeOK, Configs, Blocks
  <1>4. current_snapshot.taken = TRUE /\ NoSnapshot.taken = FALSE
    BY DEF current_snapshot, NoSnapshot
  <1>5. [snap EXCEPT !.block = run.block].taken = snap.taken
    BY DEF TypeOK, Snapshots
  <1> QED BY <1>1, <1>2, <1>3, <1>4, <1>5

(* A write that succeeds brings a sign-out one fact further.                 *)
LEMMA WriteKeepsLogout == ASSUME TypeOK, OnItsWay, OwnInv, LogoutInv, Write PROVE LogoutInv'
  <1> SUFFICES ASSUME run'.flow = "logout", run'.clean
               PROVE  /\ run'.at # "restore config" =>
                            cfg'.block = NoBlock /\ cfg'.dflt = Chosen(cfg')
                      /\ run'.at \in {"unset key", "discard", "clear"} =>
                            ~managed' /\ backup' = Nobody /\ Back'
                      /\ run'.at \in {"discard", "clear"} => key' = 0
    BY DEF LogoutInv
  <1>1. run.flow = "logout" /\ run.clean
    BY OperationGoesOn, IdleAndMoves
  <1> USE EffectOfWrite, WayOfWrite, IdleAndMoves, FieldsAfterWrites
          DEF Follows, LogoutInv, OwnInv, Free, Back, Write, world
  <1>2. CASE run.at = "restore config"
    BY <1>1, <1>2
  <1>3. CASE run.at = "auth back"
    BY <1>1, <1>3
  <1>4. CASE run.at = "unmark"
    BY <1>1, <1>4
  <1>5. CASE run.at = "drop backup"
    BY <1>1, <1>5
  <1>6. CASE run.at = "unset key"
    BY <1>1, <1>6
  <1>7. CASE run.at = "discard"
    BY <1>1, <1>7
  <1>8. CASE run.at = "clear"
    BY <1>1, <1>8
  <1> QED BY <1>1, <1>2, <1>3, <1>4, <1>5, <1>6, <1>7, <1>8 DEF OnItsWay

(* A write of an operation that enters, leaves or stays in official mode.    *)
LEMMA WriteKeepsOfficial == ASSUME TypeOK, OnItsWay, OwnInv, OfficialInv, Write PROVE OfficialInv'
  <1>1. CASE run.flow = "enable"
    <2>1. CASE run.at = "save"
      BY <1>1, <2>1, EffectOfWrite, WayOfWrite, OperationGoesOn, IdleAndMoves, FieldsAfterWrites
         DEF Follows, Write, world, OfficialInv, OwnInv, Free, Back, is_official_mode, Completed
    <2>2. CASE run.at = "demote"
      BY <1>1, <2>2, EffectOfWrite, WayOfWrite, OperationGoesOn, IdleAndMoves, FieldsAfterWrites
         DEF Follows, Write, world, OfficialInv, OwnInv, Free, Back, is_official_mode, Completed
    <2>3. CASE run.at = "auth back"
      BY <1>1, <2>3, EffectOfWrite, WayOfWrite, OperationGoesOn, IdleAndMoves, FieldsAfterWrites
         DEF Follows, Write, world, OfficialInv, OwnInv, Free, Back, is_official_mode, Completed
    <2>4. CASE run.at = "unmark"
      BY <1>1, <2>4, EffectOfWrite, WayOfWrite, OperationGoesOn, IdleAndMoves, FieldsAfterWrites
         DEF Follows, Write, world, OfficialInv, OwnInv, Free, Back, is_official_mode, Completed
    <2>5. CASE run.at = "drop backup"
      BY <1>1, <2>5, EffectOfWrite, WayOfWrite, OperationGoesOn, IdleAndMoves, FieldsAfterWrites
         DEF Follows, Write, world, OfficialInv, OwnInv, Free, Back, is_official_mode, Completed
    <2>6. CASE run.at = "clear"
      BY <1>1, <2>6, EffectOfWrite, WayOfWrite, OperationGoesOn, IdleAndMoves, FieldsAfterWrites
         DEF Follows, Write, world, OfficialInv, OwnInv, Free, Back, is_official_mode, Completed
    <2> QED BY <1>1, <2>1, <2>2, <2>3, <2>4, <2>5, <2>6 DEF OnItsWay
  <1>2. CASE run.flow = "disable" \/ run.flow = "logout"
    <2>1. run.at = "clear" \/ run' # Idle
      <3>1. CASE run.flow = "disable"
        BY <3>1, WayOfWrite, IdleAndMoves DEF Follows, OnItsWay
      <3>2. CASE run.flow = "logout"
        BY <3>2, WayOfWrite, IdleAndMoves DEF Follows, OnItsWay
      <3> QED BY <1>2, <3>1, <3>2
    <2>2. CASE run.at = "clear"
      BY <1>2, <2>2, EffectOfWrite, WayOfWrite, IdleAndMoves, FieldsAfterWrites DEF Follows,
         OfficialInv, is_official_mode
    <2>3. CASE run' # Idle
      BY <1>2, <2>3, OperationGoesOn DEF OfficialInv
    <2> QED BY <2>1, <2>2, <2>3
  <1>3. CASE run.flow = "route"
    BY <1>3, EffectOfWrite, WayOfWrite, IdleAndMoves DEF Follows, OfficialInv, OnItsWay,
       is_official_mode
  <1>4. CASE run.flow = "stage"
    <2>1. run.at = "stage" /\ run' = Idle
      BY <1>4, WayOfWrite DEF Follows, OnItsWay
    <2> QED BY <1>4, <2>1, EffectOfWrite, IdleAndMoves, FieldsAfterWrites
            DEF Write, world, OfficialInv, Free, Back, is_official_mode
  <1>5. CASE run.flow = "login"
    <2>1. settled' = settled
      BY <1>5 DEF Write
    <2>2. CASE run.at = "discard"
      BY <1>5, <2>1, <2>2, WayOfWrite, IdleAndMoves, OperationGoesOn DEF Follows, OfficialInv
    <2>3. CASE run.at = "clear"
      BY <1>5, <2>3, EffectOfWrite, WayOfWrite, IdleAndMoves, FieldsAfterWrites, OperationGoesOn
         DEF Follows, OfficialInv, is_official_mode
    <2>4. CASE run.at \notin {"discard", "clear"}
      <3>1. snap' = snap
        BY <1>5, <2>4, EffectOfWrite DEF OnItsWay
      <3> QED BY <1>5, <2>1, <2>4, <3>1, IdleAndMoves, OperationGoesOn DEF OfficialInv,
         is_official_mode
    <2> QED BY <2>2, <2>3, <2>4
  <1> QED BY <1>1, <1>2, <1>3, <1>4, <1>5, WayOfWrite DEF Flows

(* Every operation begins when none runs, and changes no file in doing so.   *)
LEMMA BeginKeepsIInv ==
    ASSUME IInv, run = Idle,
           NEW flow \in Flows \ {"none"}, NEW block \in Blocks,
           NEW credentials \in Credentials, NEW newKey \in Nat,
           Begins(flow, block, credentials, newKey),
           flow = "stage" => is_official_mode,
           flow \in {"enable", "route"} => ~is_official_mode,
           session' \in Nat, count' \in [sessions : Nat, signIns : Nat, incidents : Nat],
           UNCHANGED <<files, own, ownDflt, settled>>
    PROVE  IInv'
  <1>1. /\ run' \in Runs /\ run'.flow = flow /\ run'.at = FirstStep(flow)
        /\ run'.flow # "none"
    BY DEF Begins, FirstStep, Runs, Flows, Steps
  <1>2. TypeOK'
    BY <1>1 DEF IInv, TypeOK, files
  <1>3. OnItsWay'
    BY <1>1 DEF OnItsWay, FirstStep, Flows
  <1>4. OwnInv'
    BY <1>1 DEF IInv, OwnInv, Free, Back, FirstStep, Flows, files, Chosen
  <1>5. LogoutInv'
    BY <1>1 DEF LogoutInv, FirstStep
  <1>6. OfficialInv'
    <2>1. run.flow = "none"
      BY DEF Idle
    <2> QED BY <1>1, <2>1 DEF IInv, OfficialInv, FirstStep, Flows, Back, Free, is_official_mode,
       files
  <1> QED BY <1>2, <1>3, <1>4, <1>5, <1>6 DEF IInv

(* A failed write: the operation is no longer clean, and the writes at which *)
(* much is known are not reached from a failure.                             *)
LEMMA FailureKeepsIInv == ASSUME IInv, WriteFails PROVE IInv'
  <1>1. /\ UNCHANGED <<cfg, auth, backup, managed, snap, session, own, ownDflt>>
        /\ settled' = FALSE
    BY DEF WriteFails
  <1>2. key' \in Nat
    <2>1. Key(run.at, run) \in Nat
      BY DEF Key, IInv, TypeOK, Runs
    <2> QED BY <2>1 DEF WriteFails, IInv, TypeOK
  <1>3. count' \in [sessions : Nat, signIns : Nat, incidents : Nat]
    BY DEF WriteFails, Incident, IInv, TypeOK
  <1>4. \/ run' = Idle
        \/ /\ run'.flow = run.flow /\ run'.auth = run.auth /\ run'.clean = FALSE /\ run' \in Runs
           /\ run.flow = "login" => run'.at \in {"clear", "apply"}
           /\ run.flow = "logout" => run'.at \in {"discard", "clear"}
           /\ run.flow = "enable" => run'.at = "clear"
           /\ run.flow \in {"login", "logout", "enable"}
    BY DEF WriteFails, GoesOn, AfterFailure, NextStep, IInv, TypeOK, Runs, Steps
  <1>5. TypeOK'
    BY <1>1, <1>2, <1>3, <1>4, ValuesTyped DEF IInv, TypeOK
  <1>6. OnItsWay'
    BY <1>4, IdleAndMoves DEF OnItsWay, IInv
  <1>7. OwnInv'
    BY <1>1, <1>4, IdleAndMoves DEF OwnInv, IInv, Free, Back, Chosen, OnItsWay
  <1>8. LogoutInv'
    BY <1>1, <1>4, IdleAndMoves DEF LogoutInv, IInv
  <1>9. OfficialInv'
    BY <1>1, <1>4, IdleAndMoves DEF OfficialInv, IInv
  <1> QED BY <1>5, <1>6, <1>7, <1>8, <1>9 DEF IInv

(* The program ends between two writes.                                      *)
LEMMA EndKeepsIInv == ASSUME IInv, Dies PROVE IInv'
  <1>1. /\ UNCHANGED <<files, session, own, ownDflt>>
        /\ settled' = FALSE /\ run' = Idle
        /\ count' \in [sessions : Nat, signIns : Nat, incidents : Nat]
    BY DEF Dies, Incident, IInv, TypeOK
  <1>2. TypeOK' /\ OnItsWay'
    BY <1>1, ValuesTyped, IdleAndMoves DEF IInv, TypeOK, OnItsWay, files
  <1>3. OwnInv' /\ LogoutInv' /\ OfficialInv'
    BY <1>1, IdleAndMoves DEF OwnInv, LogoutInv, OfficialInv, IInv, Free, Back, Chosen, files
  <1> QED BY <1>2, <1>3 DEF IInv

(* The user signs in to Codex: over a backup or a mark the earlier sign-in is  *)
(* still the one to give back; else nothing of ReCodex's is in the way.      *)
LEMMA SignInKeepsIInv == ASSUME IInv, UserSignsIn PROVE IInv'
  <1>1. /\ UNCHANGED <<cfg, backup, managed, key, snap, run, session, ownDflt, settled>>
        /\ run = Idle /\ auth' \in Credentials
        /\ count' \in [sessions : Nat, signIns : Nat, incidents : Nat]
    BY ValuesTyped DEF UserSignsIn, IInv, TypeOK
  <1>2. IF managed \/ backup # Nobody THEN own' = own ELSE own' = auth'
    BY DEF UserSignsIn
  <1>3. TypeOK' /\ OnItsWay' /\ LogoutInv'
    BY <1>1, IdleAndMoves DEF IInv, TypeOK, OnItsWay, LogoutInv
  <1>4. OwnInv'
    BY <1>1, <1>2, IdleAndMoves DEF IInv, OwnInv, Free, Back, Chosen
  <1>5. OfficialInv'
    BY <1>1, <1>2, IdleAndMoves DEF OfficialInv, IInv, Free, Back, is_official_mode
  <1> QED BY <1>3, <1>4, <1>5 DEF IInv

(* The user chooses a provider.                                              *)
LEMMA ChoiceKeepsIInv == ASSUME IInv, NEW p \in Providers, UserChooses(p) PROVE IInv'
  <1>1. /\ UNCHANGED <<auth, backup, managed, key, snap, run, session, count, own, settled>>
        /\ run = Idle /\ cfg' \in Configs /\ cfg'.block = cfg.block /\ ownDflt' = p /\ cfg'.dflt = p
    BY DEF UserChooses, IInv, TypeOK, Configs
  <1>2. TypeOK' /\ OnItsWay'
    BY <1>1 DEF IInv, TypeOK, OnItsWay
  <1>3. OwnInv'
    BY <1>1, IdleAndMoves, ProvidersAssumption DEF IInv, OwnInv, Free, Back, Chosen
  <1>4. LogoutInv' /\ OfficialInv'
    BY <1>1, IdleAndMoves DEF LogoutInv, OfficialInv, IInv, Free, Back, is_official_mode
  <1> QED BY <1>2, <1>3, <1>4 DEF IInv

(* The invariant is inductive.                                               *)
LEMMA StepKeepsIInv == IInv /\ [Next]_vars => IInv'
  <1> SUFFICES ASSUME IInv, [Next]_vars PROVE IInv'
    OBVIOUS
  <1> USE DEF IInv
  <1>1. /\ session \in Nat /\ count \in [sessions : Nat, signIns : Nat, incidents : Nat]
        /\ snap.block \in Blocks /\ snap.auth \in Credentials /\ snap.key \in Nat
    BY DEF TypeOK, Snapshots
  <1>2. ASSUME NEW g \in Gateways, Login(g) PROVE IInv'
    BY <1>1, <1>2, BeginKeepsIInv, ValuesTyped DEF Login, Flows, world
  <1>3. ASSUME NEW g \in Gateways, Sync(g) PROVE IInv'
    BY <1>1, <1>3, BeginKeepsIInv, ValuesTyped DEF Sync, Flows, world
  <1>4. ASSUME NEW g \in Gateways, DoctorFix(g) PROVE IInv'
    BY <1>1, <1>4, BeginKeepsIInv, ValuesTyped DEF DoctorFix, Flows, world
  <1>5. ASSUME NEW g \in Gateways, Route(g) PROVE IInv'
    BY <1>1, <1>5, BeginKeepsIInv, ValuesTyped DEF Route, Flows, world
  <1>6. CASE Logout
    BY <1>1, <1>6, BeginKeepsIInv, ValuesTyped DEF Logout, Flows, world
  <1>7. CASE SwitchToOfficial
    BY <1>1, <1>7, BeginKeepsIInv, ValuesTyped DEF SwitchToOfficial, Flows, world
  <1>8. CASE SwitchToRecodex
    BY <1>1, <1>8, BeginKeepsIInv, ValuesTyped DEF SwitchToRecodex, Flows, world
  <1>9. CASE Write
    BY <1>9, WriteTypes, WriteKeepsOwn, WriteKeepsLogout, WriteKeepsOfficial
  <1>10. CASE WriteFails
    BY <1>10, FailureKeepsIInv
  <1>11. CASE Dies
    BY <1>11, EndKeepsIInv
  <1>12. CASE UserSignsIn
    BY <1>12, SignInKeepsIInv
  <1>13. ASSUME NEW p \in Providers, UserChooses(p) PROVE IInv'
    BY <1>13, ChoiceKeepsIInv
  <1>14. CASE UNCHANGED vars
    <2>1. UNCHANGED <<cfg, auth, backup, managed, key, snap, run, session, count, own,
                    ownDflt, settled>>
      BY <1>14 DEF vars, files, world
    <2>2. TypeOK' /\ OnItsWay' /\ LogoutInv'
      BY <2>1 DEF TypeOK, OnItsWay, LogoutInv, Chosen, Back, Free
    <2>3. OwnInv' /\ OfficialInv'
      BY <2>1 DEF OwnInv, OfficialInv, Free, Back, Chosen, is_official_mode
    <2> QED BY <2>2, <2>3
  <1> QED BY <1>2, <1>3, <1>4, <1>5, <1>6, <1>7, <1>8, <1>9, <1>10, <1>11, <1>12, <1>13, <1>14
     DEF Next

(* The inductive invariant holds in every reachable state.                   *)
THEOREM IInvHolds == Spec => []IInv
  <1>1. Init => IInv
    <2> SUFFICES ASSUME Init PROVE IInv
      OBVIOUS
    <2>1. TypeOK /\ run.flow = "none" /\ run.at = "end" /\ run = Idle
      BY InitTypes DEF Init, Idle
    <2>2. OnItsWay /\ LogoutInv /\ OfficialInv
      BY <2>1, FieldsAfterWrites DEF Init, OnItsWay, LogoutInv, OfficialInv, is_official_mode
    <2>3. OwnInv
      BY <2>1 DEF Init, OwnInv, Free, Back, Chosen
    <2> QED BY <2>1, <2>2, <2>3 DEF IInv
  <1> QED BY <1>1, StepKeepsIInv, PTL DEF Spec

(* Whatever fails and wherever the program ends, the user's last sign-in to  *)
(* Codex with nothing of ReCodex's in place is in auth.json or in the backup, *)
(* and the default provider chosen last is the default or set aside in the   *)
(* block.                                                                    *)
THEOREM OwnIsKept == Spec => []UsersOwnIsKept
  <1>1. IInv => UsersOwnIsKept
    BY DEF IInv, OwnInv, UsersOwnIsKept, Free
  <1> QED BY <1>1, IInvHolds, PTL

(* Official mode entered without an incident stays the user's: the block     *)
(* does not lead and auth.json is the user's, if he had one, whatever is      *)
(* chosen and synchronised.                                                  *)
THEOREM OfficialModeIsTheUsers == Spec => []OfficialStaysOfficial
  <1>1. IInv => OfficialStaysOfficial
    BY DEF IInv, OfficialInv, OfficialStaysOfficial, Back, Free, Idle
  <1> QED BY <1>1, IInvHolds, PTL

(* A sign-out without an incident leaves no block, no key, no mark, no       *)
(* backup and no snapshot, and gives back the user's default and the sign-in *)
(* that ReCodex took the place of, whatever went wrong before.               *)
THEOREM SignOutIsComplete == Spec => SignOutRestores
  <1>1. ASSUME IInv, [Next]_vars, run.flow = "logout", run.clean, Completed
        PROVE  /\ ~is_official_mode'
               /\ cfg'.block = NoBlock /\ cfg'.dflt = ownDflt
               /\ key' = 0 /\ ~managed' /\ backup' = Nobody
               /\ own = Nobody \/ auth' = own
    <2>1. Write
      <3>1. run # Idle /\ run' # run /\ count' = count
        BY <1>1 DEF Completed
      <3>2. ~Incident
        BY <1>1, <3>1 DEF Incident, IInv, TypeOK
      <3> QED BY <1>1, <3>1, <3>2 DEF Next, Login, Sync, DoctorFix, Route, Logout, SwitchToOfficial,
             SwitchToRecodex, WriteFails, Dies, UserSignsIn, UserChooses, vars
    <2>2. run.at = "clear"
      BY <1>1, <2>1, WayOfWrite, IdleAndMoves DEF Follows, IInv, OnItsWay, Completed
    <2>3. snap' = NoSnapshot /\ UNCHANGED <<cfg, auth, backup, managed, key>>
      BY <2>1, <2>2, EffectOfWrite
    <2>4. /\ cfg.block = NoBlock /\ cfg.dflt = ownDflt
          /\ key = 0 /\ ~managed /\ backup = Nobody /\ Back
      BY <1>1, <2>2 DEF IInv, LogoutInv, OwnInv
    <2> QED BY <2>3, <2>4, <1>1, FieldsAfterWrites DEF is_official_mode, Back, Free, IInv
  <1>2. IInv /\ [Next]_vars => [SignOutStep]_vars
    BY <1>1 DEF SignOutStep
  <1> QED BY <1>2, IInvHolds, PTL DEF Spec, SignOutRestores, SignOutStep

(***************************************************************************)
(* Coming back from the official mode.                                     *)
(***************************************************************************)
(* Credentials and a block handed out with this session; a block that is      *)
(* not, takes the key that is there.                                          *)
OfSession(block, credentials, newKey) ==
    /\ credentials = Ours(session)
    /\ newKey \in {0, session}
    /\ block = Block(block.gw, newKey)

(* What the first writes of an installation have put down, when this one is   *)
(* next.                                                                      *)
Put(s, newKey) ==
    /\ s \in {"keep own", "mark", "write auth", "set key", "clear"} =>
          cfg.block = Block(want, IF newKey = 0 THEN key ELSE newKey)
    /\ s \in {"write auth", "set key", "clear"} => managed
    /\ s \in {"set key", "clear"} => auth = Ours(session)

(* A sign-in to ReCodex installs what belongs to the session, and leaves       *)
(* official mode, if nothing fails.                                           *)
InstallInv ==
    /\ run.flow = "login" =>
          /\ session # 0
          /\ OfSession(run.block, run.auth, run.key)
          /\ run.clean /\ run.at \notin {"discard", "clear"} =>
                ~is_official_mode /\ Put(run.at, run.key)
    /\ run.flow \in {"route", "stage"} => run.block = Block(run.block.gw, 0)

(* The whole installation: in place, or in the snapshot, from which a switch    *)
(* back puts it down again, write by write.                                   *)
InPlace    == cfg.block = Block(want, session) /\ auth = Ours(session) /\ managed
InSnapshot ==
    /\ snap.block \in {Block(want, session), Block(want, 0)}
    /\ snap.auth = Ours(session) /\ snap.key = session

WholeInv ==
    whole =>
        /\ session # 0 /\ key = session
        /\ run.flow \notin {"login", "logout"}
        /\ run.flow = "enable" => (run.at # "clear" /\ (run.at = "save" <=> ~is_official_mode))
        /\ run.flow = "disable" =>
              /\ is_official_mode
              /\ <<run.block, run.auth, run.key>> = <<snap.block, snap.auth, snap.key>>
              /\ Put(run.at, session)
        /\ IF is_official_mode THEN InSnapshot ELSE InPlace

(* The invariant, on top of the first one.                                    *)
RInv == whole \in BOOLEAN /\ InstallInv /\ WholeInv

(* The action of ReturnRestores.                                              *)
ReturnStep ==
    run.flow = "disable" /\ is_official_mode /\ ~is_official_mode' /\ whole =>
          /\ cfg'.block = Block(want, session)
          /\ auth' = Ours(session) /\ managed' /\ key' = session

(* A block handed out leads, so that it replaces what is there.               *)
LEMMA BlocksLead == \A g, k : Block(g, k) # NoBlock /\ Block(g, k).gw = g /\ Block(g, k).key = k
  <1>1. \A g, k : Block(g, k).leads # NoBlock.leads
    BY DEF Block, NoBlock
  <1> QED BY <1>1 DEF Block

(* A record of a block is its three fields.                                   *)
LEMMA BlockIsItsFields ==
    ASSUME NEW G, NEW b \in [gw : G, key : Nat, leads : BOOLEAN]
    PROVE  b = [gw |-> b.gw, key |-> b.key, leads |-> b.leads]
  OBVIOUS

(* What apply puts down: the block, with the key that is there if it came      *)
(* without one.                                                               *)
LEMMA AppliedBlock ==
    ASSUME key \in Nat, NEW g, NEW k \in Nat, NEW b, b = Block(g, k)
    PROVE  Applied(cfg, b).block = Block(g, IF k = 0 THEN key ELSE k)
  <1> DEFINE c == [b EXCEPT !.key = key]
  <1>1. b # NoBlock /\ b.key = k
    BY BlocksLead
  <1>2. b \in [gw : {g}, key : Nat, leads : BOOLEAN] /\ b.leads = TRUE /\ b.gw = g
    BY DEF Block
  <1>3. c \in [gw : {g}, key : Nat, leads : BOOLEAN]
    BY <1>2
  <1>4. c.gw = g /\ c.key = key /\ c.leads = TRUE
    BY <1>2
  <1>5. Applied(cfg, b).block = IF k = 0 THEN c ELSE b
    BY <1>1 DEF Applied
  <1> HIDE DEF c
  <1>6. c = [gw |-> c.gw, key |-> c.key, leads |-> c.leads]
    BY <1>3, BlockIsItsFields
  <1>7. c = Block(g, key)
    BY <1>4, <1>6 DEF Block
  <1> QED BY <1>5, <1>7

(* Every operation begins when none runs: one that installs brings what        *)
(* belongs to the session, the switch back what the snapshot holds.            *)
LEMMA BeginKeepsRInv ==
    ASSUME IInv, RInv, run = Idle,
           NEW flow \in Flows \ {"none"}, NEW block, NEW credentials, NEW newKey,
           Begins(flow, block, credentials, newKey),
           flow = "login" =>
               session' # 0 /\ credentials = Ours(session') /\ newKey \in {0, session'},
           flow \in {"login", "route", "stage"} =>
               \E g : block = Block(g, IF flow = "login" THEN newKey ELSE 0),
           flow = "disable" =>
               is_official_mode /\ <<block, credentials, newKey>> = <<snap.block, snap.auth, snap.key>>,
           flow = "enable" => ~is_official_mode,
           whole' \in BOOLEAN,
           whole' => whole /\ session' = session /\ flow \notin {"login", "logout"},
           UNCHANGED <<files, want>>
    PROVE  RInv'
  <1>1. /\ run'.flow = flow /\ run'.at = FirstStep(flow) /\ run'.clean = TRUE
        /\ run'.block = block /\ run'.auth = credentials /\ run'.key = newKey
    BY DEF Begins
  <1>2. UNCHANGED <<cfg, auth, managed, key, snap, want>>
    BY DEF files
  <1>3. flow \in {"login", "route", "stage"} =>
            block = Block(block.gw, IF flow = "login" THEN newKey ELSE 0)
    BY BlocksLead
  <1>4. InstallInv'
    BY <1>1, <1>3 DEF InstallInv, OfSession, FirstStep
  <1>5. WholeInv'
    <2> SUFFICES ASSUME whole'
                 PROVE  /\ session' # 0 /\ key' = session'
                        /\ run'.flow \notin {"login", "logout"}
                        /\ run'.flow = "enable" =>
                              run'.at # "clear" /\ (run'.at = "save" <=> ~is_official_mode')
                        /\ run'.flow = "disable" =>
                              /\ is_official_mode'
                              /\ <<run'.block, run'.auth, run'.key>>
                                    = <<snap'.block, snap'.auth, snap'.key>>
                              /\ Put(run.at, session)'
                        /\ IF is_official_mode' THEN InSnapshot' ELSE InPlace'
      BY DEF WholeInv, RInv
    <2>1. whole /\ session' = session /\ flow \notin {"login", "logout"}
      OBVIOUS
    <2>2. session # 0 /\ key = session /\ IF is_official_mode THEN InSnapshot ELSE InPlace
      BY <2>1 DEF RInv, WholeInv
    <2>3. IF is_official_mode' THEN InSnapshot' ELSE InPlace'
      BY <1>2, <2>1, <2>2 DEF is_official_mode, InSnapshot, InPlace
    <2>4. flow = "disable" => Put(run.at, session)'
      BY <1>1 DEF Put, FirstStep
    <2> QED BY <1>1, <1>2, <2>1, <2>2, <2>3, <2>4 DEF FirstStep, is_official_mode
  <1>6. whole' \in BOOLEAN
    OBVIOUS
  <1> QED BY <1>4, <1>5, <1>6 DEF RInv

(* A write of an installation puts down what the session was given.           *)
LEMMA WriteKeepsInstall == ASSUME IInv, InstallInv, Write PROVE InstallInv'
  <1> USE DEF IInv
  <1>1. \/ run' = Idle
        \/ /\ run'.flow = run.flow /\ run'.clean = run.clean /\ run'.block = run.block
           /\ run'.auth = run.auth /\ run'.key = run.key
    BY OperationGoesOn DEF Moves, TypeOK, Runs
  <1>2. session' = session
    BY DEF Write, world
  <1>3. CASE run' = Idle
    BY <1>3, IdleAndMoves DEF InstallInv
  <1>4. CASE run' # Idle /\ run.flow # "login"
    BY <1>1, <1>4 DEF InstallInv
  <1>5. CASE run' # Idle /\ run.flow = "login"
    <2>1. session # 0 /\ OfSession(run.block, run.auth, run.key)
      BY <1>5 DEF InstallInv
    <2>2. /\ run'.flow = "login" /\ run'.clean = run.clean
          /\ session' # 0 /\ OfSession(run.block, run.auth, run.key)'
      BY <1>1, <1>2, <1>5, <2>1 DEF OfSession
    <2>3. /\ run.auth # Nobody
          /\ run.block = Block(run.block.gw, run.key) /\ run.key \in Nat
          /\ run.key \in {0, session}
      BY <2>1 DEF OfSession, Ours, Nobody, TypeOK, Runs
    <2>4. ASSUME run.clean, run'.at \notin {"discard", "clear"}
          PROVE  ~is_official_mode' /\ Put(run.at, run.key)'
      <3>1. CASE run.at = "discard"
        BY <1>5, <2>4, <3>1, WayOfWrite, IdleAndMoves DEF Follows
      <3>2. CASE run.at = "clear"
        <4>1. run'.at = "apply"
          BY <1>5, <3>2, WayOfWrite, IdleAndMoves DEF Follows
        <4>2. snap' = NoSnapshot
          BY <3>2, EffectOfWrite
        <4> QED BY <4>1, <4>2, FieldsAfterWrites DEF Put, is_official_mode
      <3>3. CASE run.at \notin {"discard", "clear"}
        <4>1. ~is_official_mode /\ Put(run.at, run.key)
          BY <1>5, <2>4, <3>3 DEF InstallInv
        <4>2. run'.key = run.key
          BY <1>1, <1>5
        <4>3. CASE run.at = "apply"
          <5>1. run'.at = "keep own"
            BY <1>5, <4>3, WayOfWrite, IdleAndMoves DEF Follows
          <5>2. cfg' = Applied(cfg, run.block) /\ UNCHANGED <<auth, managed, key, snap>>
            BY <4>3, EffectOfWrite
          <5>3. want' = run.block.gw
            BY <1>5, <4>3 DEF Write
          <5>4. cfg'.block = Block(want', IF run.key = 0 THEN key' ELSE run.key)
            BY <2>3, <5>2, <5>3, AppliedBlock DEF TypeOK
          <5> QED BY <4>1, <4>2, <5>1, <5>2, <5>4 DEF Put, is_official_mode
        <4>4. CASE run.at = "keep own"
          <5>1. run'.at = "mark" /\ want' = want
            BY <1>5, <4>4, WayOfWrite, IdleAndMoves DEF Follows, Write
          <5>2. UNCHANGED <<cfg, auth, managed, key, snap>>
            BY <4>4, EffectOfWrite
          <5> QED BY <4>1, <4>2, <4>4, <5>1, <5>2 DEF Put, is_official_mode
        <4>5. CASE run.at = "mark"
          <5>1. run'.at = "write auth" /\ want' = want
            BY <1>5, <4>5, WayOfWrite, IdleAndMoves DEF Follows, Write
          <5>2. managed' = TRUE /\ UNCHANGED <<cfg, auth, key, snap>>
            BY <2>3, <4>5, EffectOfWrite
          <5> QED BY <4>1, <4>2, <4>5, <5>1, <5>2 DEF Put, is_official_mode
        <4>6. CASE run.at = "write auth"
          <5>1. run'.at = "set key" /\ want' = want
            BY <1>5, <4>6, WayOfWrite, IdleAndMoves DEF Follows, Write
          <5>2. auth' = Ours(session) /\ UNCHANGED <<cfg, managed, key, snap>>
            BY <2>1, <2>3, <4>6, EffectOfWrite DEF OfSession
          <5> QED BY <1>2, <4>1, <4>2, <4>6, <5>1, <5>2 DEF Put, is_official_mode, Ours
        <4>7. CASE run.at = "set key"
          BY <1>5, <4>7, WayOfWrite DEF Follows
        <4> QED BY <1>5, <3>3, <4>3, <4>4, <4>5, <4>6, <4>7 DEF OnItsWay
      <3> QED BY <3>1, <3>2, <3>3
    <2> QED BY <1>1, <1>5, <2>2, <2>4 DEF InstallInv
  <1> QED BY <1>3, <1>4, <1>5

(* The installation is whole with the last write of one that went well.        *)
LEMMA InstallationMakesWhole ==
    ASSUME IInv, InstallInv, Write, ~whole, whole'
    PROVE  session' # 0 /\ key' = session' /\ run' = Idle /\ ~is_official_mode' /\ InPlace'
  <1> USE DEF IInv
  <1>1. run.flow = "login" /\ run.clean /\ run' = Idle /\ key' = session
    BY DEF Write, Completed
  <1>2. run.at = "set key"
    BY <1>1, WayOfWrite, IdleAndMoves DEF Follows, OnItsWay
  <1>3. /\ session # 0 /\ run.key \in {0, session}
        /\ ~is_official_mode /\ managed /\ auth = Ours(session)
        /\ cfg.block = Block(want, IF run.key = 0 THEN key ELSE run.key)
    BY <1>1, <1>2 DEF InstallInv, OfSession, Put
  <1>4. key' = (IF run.key # 0 THEN run.key ELSE key) /\ UNCHANGED <<cfg, auth, managed, snap>>
    BY <1>2, EffectOfWrite
  <1>5. session' = session /\ want' = want
    BY <1>2 DEF Write, world
  <1> QED BY <1>1, <1>3, <1>4, <1>5 DEF InPlace, is_official_mode, Ours

(* A write while the installation is whole: what leaves the files is in the    *)
(* snapshot by then, and what leaves the snapshot is in the files.             *)
LEMMA WriteKeepsWhole == ASSUME IInv, RInv, Write PROVE WholeInv' /\ whole' \in BOOLEAN
  <1> USE DEF IInv, RInv
  <1>1. whole' \in BOOLEAN
    BY DEF Write
  <1>2. CASE ~whole'
    BY <1>1, <1>2 DEF WholeInv
  <1>3. CASE whole' /\ ~whole
    <2>1. session' # 0 /\ key' = session' /\ run' = Idle /\ ~is_official_mode' /\ InPlace'
      BY <1>3, InstallationMakesWhole
    <2> QED BY <1>1, <2>1, IdleAndMoves DEF WholeInv
  <1>4. CASE whole' /\ whole
    <2>1. /\ session # 0 /\ key = session /\ run.flow \notin {"login", "logout"}
          /\ run.flow = "enable" => run.at # "clear" /\ (run.at = "save" <=> ~is_official_mode)
          /\ run.flow = "disable" =>
                /\ is_official_mode
                /\ <<run.block, run.auth, run.key>> = <<snap.block, snap.auth, snap.key>>
                /\ Put(run.at, session)
          /\ IF is_official_mode THEN InSnapshot ELSE InPlace
      BY <1>4 DEF WholeInv
    <2>2. session' = session
      BY DEF Write, world
    <2>3. \/ run' = Idle
          \/ /\ run'.flow = run.flow /\ run'.block = run.block
             /\ run'.auth = run.auth /\ run'.key = run.key
      BY OperationGoesOn DEF Moves, TypeOK, Runs
    <2>4. CASE run.flow = "enable"
      <3>1. want' = want
        BY <2>4 DEF Write, OnItsWay
      <3>2. CASE run.at = "save"
        <4>1. run'.at = "demote" /\ run'.flow = "enable"
          BY <2>3, <2>4, <3>2, WayOfWrite, IdleAndMoves DEF Follows
        <4>2. snap' = current_snapshot /\ UNCHANGED <<cfg, auth, managed, key>>
          BY <3>2, EffectOfWrite
        <4>3. InPlace
          BY <2>1, <2>4, <3>2
        <4>4. snap'.taken /\ snap'.block = cfg.block /\ snap'.auth = auth /\ snap'.key = key
          BY <4>2, <4>3 DEF current_snapshot, InPlace
        <4>5. InSnapshot'
          BY <2>1, <2>2, <3>1, <4>3, <4>4 DEF InPlace, InSnapshot, Ours
        <4> QED BY <1>1, <2>1, <2>2, <4>1, <4>2, <4>4, <4>5 DEF WholeInv, is_official_mode
      <3>3. CASE run.at # "save"
        <4>1. snap' = snap /\ key' = key
          BY <2>1, <2>4, <3>3, EffectOfWrite DEF OnItsWay
        <4>2. is_official_mode' /\ InSnapshot'
          BY <2>1, <2>2, <2>4, <3>1, <3>3, <4>1 DEF is_official_mode, InSnapshot, Ours
        <4>3. run'.flow \in {"none", "enable"} /\ run'.at \notin {"save", "clear"}
          BY <2>1, <2>4, <3>3, WayOfWrite, OperationGoesOn, IdleAndMoves DEF Follows, OnItsWay
        <4> QED BY <1>1, <2>1, <2>2, <4>1, <4>2, <4>3 DEF WholeInv
      <3> QED BY <3>2, <3>3
    <2>5. CASE run.flow = "disable"
      <3>1. want' = want
        BY <2>5 DEF Write, OnItsWay
      <3>2. /\ InSnapshot /\ is_official_mode /\ Put(run.at, session)
            /\ run.block = Block(want, run.block.key) /\ run.block.key \in {0, session}
            /\ run.auth = Ours(session) /\ run.key = session /\ session \in Nat /\ run.auth # Nobody
        BY <2>1, <2>5, BlocksLead DEF InSnapshot, TypeOK, Ours, Nobody
      <3>3. key' = session
        <4>1. run.at = "set key" => key' = session
          BY <2>1, <3>2, EffectOfWrite
        <4>2. run.at # "set key" => key' = key
          BY <2>5, EffectOfWrite DEF OnItsWay
        <4> QED BY <2>1, <4>1, <4>2
      <3>4. CASE run.at = "clear"
        <4>1. run' = Idle
          BY <2>5, <3>4, WayOfWrite DEF Follows
        <4>2. snap' = NoSnapshot /\ UNCHANGED <<cfg, auth, managed>>
          BY <3>4, EffectOfWrite
        <4>3. ~is_official_mode' /\ InPlace'
          BY <2>1, <2>2, <3>1, <3>2, <3>4, <4>2, FieldsAfterWrites
             DEF is_official_mode, InPlace, Put, Ours
        <4> QED BY <1>1, <2>1, <2>2, <3>3, <4>1, <4>3, IdleAndMoves DEF WholeInv
      <3>5. CASE run.at # "clear"
        <4>1. snap' = snap
          BY <2>5, <3>5, EffectOfWrite DEF OnItsWay
        <4>2. run'.flow = "disable" /\ run' # Idle
          BY <2>3, <2>5, <3>5, WayOfWrite, IdleAndMoves DEF Follows, OnItsWay
        <4>3. /\ <<run'.block, run'.auth, run'.key>> = <<snap'.block, snap'.auth, snap'.key>>
              /\ is_official_mode' /\ InSnapshot'
          BY <2>1, <2>2, <2>3, <2>5, <3>1, <3>2, <4>1, <4>2 DEF is_official_mode, InSnapshot, Ours
        <4>4. Put(run.at, session)'
          <5>1. CASE run.at = "apply"
            <6>1. run'.at = "keep own"
              BY <2>5, <5>1, WayOfWrite, IdleAndMoves DEF Follows
            <6>2. cfg' = Applied(cfg, run.block)
              BY <5>1, EffectOfWrite
            <6>3. Applied(cfg, run.block).block
                      = Block(want, IF run.block.key = 0 THEN key ELSE run.block.key)
              <7> DEFINE k == run.block.key
              <7>1. k \in Nat /\ run.block = Block(want, k)
                BY <3>2
              <7> HIDE DEF k
              <7>2. Applied(cfg, run.block).block = Block(want, IF k = 0 THEN key ELSE k)
                BY <7>1, AppliedBlock DEF TypeOK
              <7> QED BY <7>2 DEF k
            <6> QED BY <2>1, <2>2, <3>1, <3>2, <6>1, <6>2, <6>3 DEF Put
          <5>2. CASE run.at = "keep own"
            <6>1. run'.at = "mark" /\ UNCHANGED cfg
              BY <2>5, <5>2, WayOfWrite, IdleAndMoves, EffectOfWrite DEF Follows
            <6> QED BY <2>1, <2>2, <3>1, <3>2, <5>2, <6>1 DEF Put
          <5>3. CASE run.at = "mark"
            <6>1. run'.at = "write auth" /\ managed' = TRUE /\ UNCHANGED cfg
              BY <2>5, <3>2, <5>3, WayOfWrite, IdleAndMoves, EffectOfWrite DEF Follows
            <6> QED BY <2>1, <2>2, <3>1, <3>2, <5>3, <6>1 DEF Put
          <5>4. CASE run.at = "write auth"
            <6>1. run'.at = "set key" /\ auth' = Ours(session) /\ UNCHANGED <<cfg, managed>>
              BY <2>5, <3>2, <5>4, WayOfWrite, IdleAndMoves, EffectOfWrite DEF Follows
            <6> QED BY <2>1, <2>2, <3>1, <3>2, <5>4, <6>1 DEF Put, Ours
          <5>5. CASE run.at = "set key"
            <6>1. run'.at = "clear" /\ UNCHANGED <<cfg, auth, managed>>
              BY <2>5, <5>5, WayOfWrite, IdleAndMoves, EffectOfWrite DEF Follows
            <6> QED BY <2>1, <2>2, <3>1, <3>2, <5>5, <6>1 DEF Put, Ours
          <5> QED BY <2>5, <3>5, <5>1, <5>2, <5>3, <5>4, <5>5 DEF OnItsWay
        <4> QED BY <1>1, <2>1, <2>2, <3>3, <4>2, <4>3, <4>4 DEF WholeInv
      <3> QED BY <3>4, <3>5
    <2>6. CASE run.flow = "route"
      <3>1. run.at = "apply" /\ run' = Idle /\ ~is_official_mode
        BY <2>6, WayOfWrite DEF Follows, OnItsWay, OfficialInv
      <3>2. cfg' = Applied(cfg, run.block) /\ UNCHANGED <<auth, managed, key, snap>>
        BY <3>1, EffectOfWrite
      <3>3. want' = run.block.gw
        BY <2>6, <3>1 DEF Write
      <3>4. cfg'.block = Block(want', key)
        BY <2>6, <3>2, <3>3, AppliedBlock DEF InstallInv, TypeOK
      <3>5. InPlace' /\ ~is_official_mode'
        BY <2>1, <2>2, <3>1, <3>2, <3>4 DEF InPlace, is_official_mode, Ours
      <3> QED BY <1>1, <2>1, <2>2, <3>1, <3>2, <3>5, IdleAndMoves DEF WholeInv
    <2>7. CASE run.flow = "stage"
      <3>1. run.at = "stage" /\ run' = Idle /\ is_official_mode
        BY <2>7, WayOfWrite DEF Follows, OnItsWay, OfficialInv
      <3>2. snap' = [snap EXCEPT !.block = run.block] /\ key' = key
        BY <3>1, EffectOfWrite
      <3>3. want' = run.block.gw
        BY <2>7, <3>1 DEF Write
      <3>4. snap'.taken = snap.taken /\ snap'.block = run.block /\ snap'.auth = snap.auth
            /\ snap'.key = snap.key
        BY <3>2 DEF TypeOK, Snapshots
      <3>5. is_official_mode' /\ InSnapshot'
        BY <2>1, <2>2, <2>7, <3>1, <3>3, <3>4 DEF InSnapshot, is_official_mode, Ours, InstallInv
      <3> QED BY <1>1, <2>1, <2>2, <3>1, <3>2, <3>5, IdleAndMoves DEF WholeInv
    <2> QED BY <2>1, <2>4, <2>5, <2>6, <2>7, WayOfWrite DEF Flows
  <1> QED BY <1>1, <1>2, <1>3, <1>4

(* A write that fails, and the end of the program: a sign-in is not clean any   *)
(* more, a switch to the official mode is given up, a switch back can be made  *)
(* again.                                                                     *)
LEMMA IncidentKeepsRInv == ASSUME IInv, RInv, WriteFails \/ Dies PROVE RInv'
  <1> USE DEF IInv, RInv
  <1>1. UNCHANGED <<cfg, auth, backup, managed, snap, session, want>>
    BY DEF WriteFails, Dies, files
  <1>2. \/ run' = Idle
        \/ /\ run'.flow = run.flow /\ run'.clean = FALSE /\ run'.block = run.block
           /\ run'.auth = run.auth /\ run'.key = run.key
           /\ run.flow \in {"login", "logout", "enable"}
    BY DEF WriteFails, Dies, GoesOn, AfterFailure, TypeOK, Runs
  <1>3. whole' \in BOOLEAN /\ (whole' => whole)
    <2>1. CASE WriteFails
      <3>1. whole' = (whole /\ run.flow # "enable")
        BY <2>1 DEF WriteFails
      <3> QED BY <3>1
    <2>2. CASE Dies
      <3>1. whole' = whole
        BY <2>2 DEF Dies
      <3> QED BY <3>1
    <2> QED BY <2>1, <2>2
  <1>4. whole' => (WriteFails => run.flow # "enable")
    BY DEF WriteFails
  <1>5. InstallInv'
    BY <1>1, <1>2, IdleAndMoves DEF InstallInv, OfSession, Ours
  <1>6. WholeInv'
    <2> SUFFICES ASSUME whole' PROVE WholeInv'
      BY <1>3 DEF WholeInv
    <2>1. run' = Idle
      BY <1>2, <1>3, <1>4 DEF WholeInv, Dies
    <2>2. key' = session
      <3>1. key = session /\ (run.flow = "disable" => run.key = session)
            /\ run.flow \notin {"login", "logout"}
        BY <1>3 DEF WholeInv, InSnapshot
      <3>2. Key(run.at, run) = session \/ Key(run.at, run) = key
        <4>1. run.at \notin {"set key", "unset key"} => Key(run.at, run) = key
          BY DEF Key
        <4>2. run.flow \in {"none", "enable", "disable", "route", "stage"}
          BY <3>1 DEF TypeOK, Runs, Flows
        <4>3. (run.at = "set key" => run.flow = "disable") /\ run.at # "unset key"
          BY <4>2, IdleAndMoves DEF OnItsWay
        <4> QED BY <3>1, <4>1, <4>3 DEF Key
      <3> QED BY <3>1, <3>2 DEF WriteFails, Dies, files
    <2>3. IF is_official_mode' THEN InSnapshot' ELSE InPlace'
      BY <1>1, <1>3 DEF WholeInv, is_official_mode, InSnapshot, InPlace, Ours
    <2>4. session # 0
      BY <1>3 DEF WholeInv
    <2> QED BY <1>1, <2>1, <2>2, <2>3, <2>4, IdleAndMoves DEF WholeInv
  <1> QED BY <1>3, <1>5, <1>6

(* What the user does in Codex leaves a whole installation alone: a provider is *)
(* chosen only where it does not lead, and a sign-in over the live one undoes  *)
(* it.  In the snapshot nobody reaches it.                                    *)
LEMMA UserKeepsRInv ==
    ASSUME IInv, RInv, UserSignsIn \/ \E p \in Providers : UserChooses(p)
    PROVE  RInv'
  <1> USE DEF IInv, RInv
  <1>1. /\ UNCHANGED <<backup, managed, key, snap, run, session, want>>
        /\ run = Idle /\ cfg'.block = cfg.block
    BY DEF UserSignsIn, UserChooses, TypeOK, Configs
  <1>2. InstallInv'
    BY <1>1, IdleAndMoves DEF InstallInv
  <1>3. whole' \in BOOLEAN /\ (whole' => whole)
    <2>1. CASE UserSignsIn
      <3>1. whole' = (whole /\ is_official_mode)
        BY <2>1 DEF UserSignsIn
      <3> QED BY <3>1
    <2>2. CASE \E p \in Providers : UserChooses(p)
      BY <2>2 DEF UserChooses
    <2> QED BY <2>1, <2>2
  <1>4. whole' => is_official_mode
    <2>1. CASE UserSignsIn
      BY <2>1 DEF UserSignsIn
    <2>2. CASE \E p \in Providers : UserChooses(p)
      <3>1. ~cfg.block.leads /\ whole' = whole
        BY <2>2 DEF UserChooses
      <3> QED BY <3>1 DEF WholeInv, InPlace, Block
    <2> QED BY <2>1, <2>2
  <1>5. WholeInv'
    BY <1>1, <1>3, <1>4, IdleAndMoves DEF WholeInv, InSnapshot, is_official_mode, Ours
  <1> QED BY <1>2, <1>3, <1>5

(* The invariant is inductive, given the first one.                           *)
LEMMA StepKeepsRInv == IInv /\ RInv /\ [Next]_vars => RInv'
  <1> SUFFICES ASSUME IInv, RInv, [Next]_vars PROVE RInv'
    OBVIOUS
  <1>1. session \in Nat /\ count.sessions \in Nat /\ whole \in BOOLEAN
    BY DEF IInv, TypeOK, RInv
  <1>2. ASSUME NEW g \in Gateways, Login(g) PROVE RInv'
    <2>1. /\ run = Idle /\ whole' = FALSE /\ UNCHANGED <<files, want>>
          /\ Begins("login", Block(g, session'), Ours(session'), session')
      BY <1>2 DEF Login
    <2>2. session' # 0
      BY <1>1, <1>2 DEF Login
    <2> QED BY <2>1, <2>2, BeginKeepsRInv DEF Flows
  <1>3. ASSUME NEW g \in Gateways, Sync(g) PROVE RInv'
    <2>1. CASE is_official_mode
      BY <1>1, <1>3, <2>1, BeginKeepsRInv DEF Sync, Flows, world
    <2>2. CASE ~is_official_mode
      BY <1>1, <1>3, <2>2, BeginKeepsRInv DEF Sync, Flows, world
    <2> QED BY <2>1, <2>2
  <1>4. ASSUME NEW g \in Gateways, DoctorFix(g) PROVE RInv'
    BY <1>1, <1>4, BeginKeepsRInv DEF DoctorFix, Flows, world
  <1>5. ASSUME NEW g \in Gateways, Route(g) PROVE RInv'
    BY <1>1, <1>5, BeginKeepsRInv DEF Route, Flows, world
  <1>6. CASE Logout
    BY <1>1, <1>6, BeginKeepsRInv DEF Logout, Flows
  <1>7. CASE SwitchToOfficial
    BY <1>1, <1>7, BeginKeepsRInv DEF SwitchToOfficial, Flows, world
  <1>8. CASE SwitchToRecodex
    BY <1>1, <1>8, BeginKeepsRInv DEF SwitchToRecodex, Flows, world
  <1>9. CASE Write
    BY <1>9, WriteKeepsInstall, WriteKeepsWhole DEF RInv
  <1>10. CASE WriteFails \/ Dies
    BY <1>10, IncidentKeepsRInv
  <1>11. CASE UserSignsIn \/ \E p \in Providers : UserChooses(p)
    BY <1>11, UserKeepsRInv
  <1>12. CASE UNCHANGED vars
    <2>1. UNCHANGED <<cfg, auth, managed, key, snap, run, session, want, whole>>
      BY <1>12 DEF vars, files, world
    <2> QED BY <2>1 DEF RInv, InstallInv, OfSession, Put, WholeInv, InPlace, InSnapshot,
           is_official_mode, Ours
  <1> QED BY <1>2, <1>3, <1>4, <1>5, <1>6, <1>7, <1>8, <1>9, <1>10, <1>11, <1>12 DEF Next

(* The second invariant holds in every reachable state.                       *)
THEOREM RInvHolds == Spec => []RInv
  <1>1. Init => RInv
    <2> SUFFICES ASSUME Init PROVE RInv
      OBVIOUS
    <2>1. whole = FALSE /\ run.flow = "none"
      BY DEF Init, Idle
    <2> QED BY <2>1 DEF RInv, InstallInv, WholeInv
  <1> QED BY <1>1, IInvHolds, StepKeepsRInv, PTL DEF Spec

(* Coming back from the official mode brings back the whole installation of    *)
(* the session, with the gateway chosen last, however often a switch was       *)
(* interrupted and whatever was chosen or synchronised meanwhile.              *)
THEOREM ReturnIsComplete == Spec => ReturnRestores
  <1>1. ASSUME IInv, RInv, [Next]_vars, run.flow = "disable",
               is_official_mode, ~is_official_mode', whole
        PROVE  /\ cfg'.block = Block(want, session)
               /\ auth' = Ours(session) /\ managed' /\ key' = session
    <2>1. snap' # snap /\ run # Idle
      BY <1>1 DEF is_official_mode, Idle
    <2>2. Write
      BY <1>1, <2>1 DEF Next, Login, Sync, DoctorFix, Route, Logout, SwitchToOfficial,
         SwitchToRecodex, WriteFails, Dies, UserSignsIn, UserChooses, vars, files
    <2>3. run.at = "clear"
      BY <1>1, <2>1, <2>2, EffectOfWrite DEF IInv, OnItsWay
    <2>4. UNCHANGED <<cfg, auth, managed, key>>
      BY <2>2, <2>3, EffectOfWrite
    <2>5. /\ cfg.block = Block(want, session)
          /\ auth = Ours(session) /\ managed /\ key = session /\ session # 0
      BY <1>1, <2>3 DEF RInv, WholeInv, Put
    <2> QED BY <2>4, <2>5
  <1>2. IInv /\ RInv /\ [Next]_vars => [ReturnStep]_vars
    BY <1>1 DEF ReturnStep
  <1> QED BY <1>2, IInvHolds, RInvHolds, PTL DEF Spec, ReturnRestores, ReturnStep
===============================================================================
