-------------------------- MODULE MCDiagnosticsFlush --------------------------
(* Two writers, three entries of two kinds, one of them long and one not worth  *)
(* a report, and the note on a log that was cut.                              *)
EXTENDS DiagnosticsFlush, TLC

CONSTANTS a, b, e1, e2, e3, note

MCKind == (e1 :> "crash") @@ (e2 :> "plain") @@ (e3 :> "crash") @@ (note :> "cut")
MCBounds == {[cuts |-> 1, incidents |-> 0], [cuts |-> 0, incidents |-> 1]}
=============================================================================
