--------------------------- MODULE MCGovernedTask ---------------------------
(* Small governed tasks for TLC. *)
EXTENDS GovernedTask, TLC

CONSTANTS board, finance, s1, s2, r1, r2

MCPolicy ==
  [publish |-> [tool |-> "web", risk |-> "external_reversible", quorum |-> 1,
                eligible |-> {board}],
   spend   |-> [tool |-> "bank", risk |-> "consequential", quorum |-> 2,
                eligible |-> {board, finance} \cap Principals]]
MCActions == DOMAIN MCPolicy
MCBounds == [a \in MCActions |-> [max_amount |-> None, max_calls |-> None]]
OneHome == [s \in Sessions |-> r1]
TwoHomes == (s1 :> r1) @@ (s2 :> r2)

\* research -> approve (A2, quorum 1), as in examples/company
ShortOrder == <<"research", "approve">>
ShortNeeds == [research |-> {}, approve |-> {"research"}]
ShortKind == [research |-> "work", approve |-> "humanGate"]
PublishGate == [approve |-> "publish"]
SpendGate == [approve |-> "spend"]

\* research -> review -> approve (A2) -> digest, and -> pay (A3) on the first gate
LongOrder == <<"research", "review", "approve", "digest", "pay">>
LongNeeds == [research |-> {}, review |-> {"research"}, approve |-> {"research", "review"},
              digest |-> {"approve"}, pay |-> {"approve"}]
LongKind == [research |-> "work", review |-> "verify", approve |-> "humanGate",
             digest |-> "fanout", pay |-> "humanGate"]
TwoGates == [approve |-> "publish", pay |-> "spend"]

MCSteps == {Order[k] : k \in 1..Len(Order)}
MCIntents == UNION {{GateIntent(g, f) : f \in [Steps -> Recorded]} : g \in Gates}

\* The run ends when every challenge is drawn.
BoundReached == \A c \in Challenges : rounds[c] # Unissued
MCTaskNext == TaskNext \/ (BoundReached /\ UNCHANGED allVars)
MCTaskSpec == TaskInit /\ [][MCTaskNext]_allVars
MCTaskFairSpec == MCTaskSpec /\ TaskFairness
=============================================================================
