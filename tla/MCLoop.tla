------------------------------- MODULE MCLoop -------------------------------
(* Two processes that call one loop step, for TLC. *)
EXTENDS LoopWorker
=============================================================================
