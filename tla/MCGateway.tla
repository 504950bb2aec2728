----------------------------- MODULE MCGateway -----------------------------
(* Instances of Gateway: one company's policies and a few calls at a time. *)
EXTENDS Gateway, TLC

CONSTANTS board, finance, other, s1, s2, r1, r2

MCPolicy ==
  [publish |-> [tool |-> "web", risk |-> "external_reversible", quorum |-> 1,
                eligible |-> {board, finance}],
   spend   |-> [tool |-> "bank", risk |-> "consequential", quorum |-> 2,
                eligible |-> {board, finance}],
   solo    |-> [tool |-> "bank", risk |-> "consequential", quorum |-> 1,
                eligible |-> {board, finance}],
   orphan  |-> [tool |-> "web", risk |-> "external_reversible", quorum |-> 1,
                eligible |-> {}],
   scrape  |-> [tool |-> "web", risk |-> "bounded_internal", quorum |-> 1,
                eligible |-> {board, finance}],
   look    |-> [tool |-> "web", risk |-> "observe", quorum |-> 1, eligible |-> {}],
   wipe    |-> [tool |-> "bank", risk |-> "prohibited", quorum |-> 1,
                eligible |-> {board, finance}]]

MCActions == DOMAIN MCPolicy
MCBounds == [a \in MCActions |-> [max_amount |-> IF a = "scrape" THEN 5 ELSE None,
                                  max_calls |-> IF a = "scrape" THEN 1 ELSE None]]

Intent(a, tool, amount) ==
  [action_id |-> a, tool |-> tool, amount |-> amount, args |-> "none"]

Publish == Intent("publish", "web", None)
Spend == Intent("spend", "bank", 3)
Refused == {Intent("solo", "bank", 3), Intent("orphan", "web", None),
            Intent("look", "web", None), Intent("wipe", "bank", None),
            Intent("nosuch", "web", None), Intent("scrape", "bank", 1)}
Scrape == Intent("scrape", "web", 1)

SpendOnly == {Spend}
AllIntents == {Publish, Spend, Scrape} \cup Refused

Approvers == {board, finance}
MCPrincipals == Approvers \cup {other}
OneHome == [s \in Sessions |-> r1]
TwoHomes == (s1 :> r1) @@ (s2 :> r2)

\* Challenges are random bytes; board and finance have the same part in every
\* policy; the two sessions run the same code in replicas of the same kind.
People == {c @@ p : c \in Permutations(Challenges), p \in Permutations(Approvers)}
Homes == {[x \in {s1, s2, r1, r2} |-> x], (s1 :> s2) @@ (s2 :> s1) @@ (r1 :> r2) @@ (r2 :> r1)}
ReplicaSymmetry == {p @@ h : p \in People, h \in Homes}

\* The run ends when every challenge is drawn or every automatic call is made.
BoundReached ==
  \/ \A c \in Challenges : rounds[c] # Unissued
  \/ \E a \in Actions : autos[a] = MaxAutos

MCNext == GatewayNext \/ (BoundReached /\ UNCHANGED gwVars)
MCSpec == GatewayInit /\ [][MCNext]_gwVars
=============================================================================
