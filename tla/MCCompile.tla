----------------------------- MODULE MCCompile -----------------------------
(* Small drafts of companies for TLC. *)
EXTENDS Compiler

CONSTANTS tool, other, agent, ghost, board, plain, mandate, invented, x, y

Artifact(l, n, ok) == [label |-> l, score |-> n, approve |-> ok]
MCOutcomes == {Empty, Artifact(x, 1, TRUE), Artifact(y, 2, FALSE), Artifact(x, 2, TRUE)}

Role == [tools |-> {tool}, write |-> FALSE, delegates |-> {}]
Company(actions, steps) ==
  [tools |-> {tool}, roles |-> [r \in {agent} |-> Role], actions |-> actions, steps |-> steps]

Publish == [id |-> plain, tool |-> tool, risk |-> "external_reversible", idempotent |-> TRUE,
            approval |-> [require |-> "passkey", roles |-> {board}]]

Work(n, needs, bound) ==
  [id |-> n, type |-> "work", runAs |-> agent, needs |-> needs, loopBound |-> bound,
   policy |-> Unset, width |-> Unset, aggregate |-> Unset, verifyQuorum |-> Unset]

\* Three steps, every list of needs without repetition, any of them bounded.
NeedLists == {p \in BoundedSeq(1..3, 3) : IsInjective(p)}
Graphs == {Company({Publish}, [k \in 1..3 |-> Work(k, f[k], IF k \in b THEN 2 ELSE Unset)]) :
             f \in [1..3 -> NeedLists], b \in SUBSET (1..3)}

\* One action of every shape, and a gate on it or on an action not there.
Approvals3 == {Unset} \cup [require : {"none", "passkey", "hardware_passkey"},
                            roles : {{}, {board}, {agent}, {board, ghost}}]
Actions3 == [id : {plain, mandate, invented}, tool : {tool, other}, risk : DOMAIN RISK_RANK,
             idempotent : BOOLEAN, approval : Approvals3]
Gated(id) == [Work(1, <<>>, Unset) EXCEPT !.type = "humanGate", !.policy = id, !.runAs = Unset]
Governed == {Company({a}, <<Gated(p)>>) : a \in Actions3, p \in {plain, mandate, Unset}}

\* One role of every shape.
Staffed == {[Company(as, <<>>) EXCEPT !.roles[agent] = r] :
              as \in {{}, {Publish}},
              r \in [tools : SUBSET {tool, other}, write : BOOLEAN,
                     delegates : SUBSET {agent, ghost}]}

\* A step and a fanout or verify step on it, of every width and quorum.
Pooled ==
  {Company({Publish}, <<Work(1, <<>>, Unset), [s EXCEPT !.id = 2, !.needs = ns, !.runAs = r]>>) :
     s \in {[Work(2, <<>>, Unset) EXCEPT !.type = "fanout", !.width = w, !.aggregate = h] :
              w \in {Unset, 0, 1, 2, 3, 33}, h \in {Unset, "majority", "best", "first"}}
        \cup {[Work(2, <<>>, Unset) EXCEPT !.type = "verify", !.width = w, !.verifyQuorum = q] :
              w \in {Unset, 0, 1, 2, 3, 33}, q \in {Unset, -1, 0, 1, 2, 4}},
     ns \in {<<>>, <<1>>, <<1, 3>>}, r \in {agent, ghost}}

MCDrafts == {Graphs, Governed, Staffed, Pooled}
=============================================================================
