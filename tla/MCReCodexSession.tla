-------------------------- MODULE MCReCodexSession --------------------------
(* ReCodexSession for TLC: the handlers are interchangeable. *)
EXTENDS ReCodexSession, TLC

Symmetry == Permutations(Handlers)
=============================================================================
