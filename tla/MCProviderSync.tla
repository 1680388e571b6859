---- MODULE MCProviderSync ----
(* ProviderSync for TLC: three processes, so that two can judge the lock of *)
(* a third that died, and one session.                                      *)
EXTENDS ProviderSync, TLC

CONSTANTS p, q, o, x, y

Interchangeable == Permutations(Procs) \cup Permutations(Providers)
====
