--------------------------- MODULE GovernedEffect ---------------------------
(***************************************************************************)
(* What governance promises of the effects of one task, with no runner, no *)
(* challenge and no ledger: every effect spends a grant of exactly its     *)
(* intent, an intent with a receipt is never performed again, and a gate   *)
(* is passed on a receipt of an intent of its own (docs/architecture.md,   *)
(* executor.py 3-7).  GovernedTask implements it for one call at a time.   *)
(***************************************************************************)
EXTENDS Naturals, FiniteSets

CONSTANTS
  Intent,     \* what may be done
  Round,      \* what a grant is given in
  Gate,       \* the gates of the task
  GateOf(_)   \* the gate an intent is proposed by

VARIABLES
  granted,    \* intent -> rounds that granted it
  performed,  \* intent -> times it was performed
  receipted,  \* intents known to have been performed
  passed      \* gates passed

effectVars == <<granted, performed, receipted, passed>>

EffectInit ==
  /\ granted = [i \in Intent |-> {}]
  /\ performed = [i \in Intent |-> 0]
  /\ receipted = {}
  /\ passed = {}

\* A round grants one intent, once.
Grant(i, c) ==
  /\ \A j \in Intent : c \notin granted[j]
  /\ granted' = [granted EXCEPT ![i] = @ \cup {c}]
  /\ UNCHANGED <<performed, receipted, passed>>

Perform(i) ==
  /\ i \notin receipted
  /\ performed[i] < Cardinality(granted[i])
  /\ performed' = [performed EXCEPT ![i] = @ + 1]
  /\ UNCHANGED <<granted, receipted, passed>>

WriteReceipt(i) ==
  /\ performed[i] > 0
  /\ receipted' = receipted \cup {i}
  /\ UNCHANGED <<granted, performed, passed>>

Pass(g) ==
  /\ \E i \in receipted : GateOf(i) = g
  /\ passed' = passed \cup {g}
  /\ UNCHANGED <<granted, performed, receipted>>

EffectNext ==
  \/ \E i \in Intent, c \in Round : Grant(i, c)
  \/ \E i \in Intent : Perform(i) \/ WriteReceipt(i)
  \/ \E g \in Gate : Pass(g)

EffectSpec == EffectInit /\ [][EffectNext]_effectVars
=============================================================================
