---------------------------- MODULE MCSessionStorage ----------------------------
(* SessionStorage for TLC, with three kinds of behaviours: a deletion by each   *)
(* process at once and an undo; deletions and undos one after the other across *)
(* a start of the launcher, with two incidents; two deletions and the sweep of *)
(* a launcher that starts meanwhile, with one incident.                        *)
EXTENDS SessionStorage

Bound(launcher, manager, undos, starts, incidents) ==
    [launcher |-> launcher, manager |-> manager, undos |-> undos, starts |-> starts, incidents |-> incidents]

MCBounds == {Bound(1, 1, 1, 0, 0), Bound(2, 0, 2, 1, 2), Bound(1, 1, 0, 1, 1)}
=============================================================================
