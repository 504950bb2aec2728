--------------------------- MODULE MCEventLedger ---------------------------
(* Two companies' ledgers with a few writers. *)
EXTENDS EventLedger, TLC

CONSTANTS w1, w2, p1, p2

TwoProcesses == (w1 :> p1) @@ (w2 :> p2)
=============================================================================
