------------------------------ MODULE Compiler ------------------------------
(***************************************************************************)
(* What a company's author may hand in, and what becomes of it:            *)
(*   - compile/compiler.py checks the draft (compile_company,              *)
(*     _check_cycles);                                                     *)
(*   - an accepted workflow is put in order (_in_dependency_order,         *)
(*     kernel/workflow.py) and each fanout or verify step of it runs its   *)
(*     agents in a pool (_run_fanout, _run_verify), whose answers          *)
(*     kernel/aggregate.py reduces to one artifact.                        *)
(*                                                                         *)
(* A draft has one workflow.  Messages, schemas, the version and the name  *)
(* of the company are left out.  Step ids are unique, as in every manifest *)
(* of the repository; the compiler does not check it.                      *)
(***************************************************************************)
EXTENDS Integers, FiniteSets, SequencesExt

CONSTANTS
  Drafts,      \* sets of companies as their authors hand them in
  Outcomes,    \* artifacts of one agent: [label, score, approve]
  NoLabel,     \* no label in an artifact
  Human,       \* approvers "human:.."
  Reserved,    \* action ids that start with "comcmd."
  Locked,      \* .. and among them the engine's own actions
  Raised,      \* the outcome of an agent that raises
  Unset        \* an optional field that is not given

\* A candidate that deferred or failed counts as {}: no label, score -inf.
Empty == [label |-> NoLabel, score |-> -1, approve |-> FALSE]

\* What the schema of a specification lets through (spec/models.py).
IsSeq(s) == s \in Seq(Range(s))
WellFormed(c) ==
  /\ IsSeq(c.steps)
  /\ \A s \in Range(c.steps) :
       /\ IsSeq(s.needs)
       /\ s.width \in Int \cup {Unset} /\ s.verifyQuorum \in Int \cup {Unset}
       /\ s.type = "fanout" => s.aggregate \in {"majority", "best", "first", Unset}

\* Scores are compared and nothing else: their ranks stand for them.
ASSUME CompilerAssumption ==
  /\ Locked \subseteq Reserved
  /\ Empty \in Outcomes /\ \A a \in Outcomes : a.score \in Nat \cup {-1}
  /\ Raised \notin Outcomes \cup {Unset}
  /\ Unset \notin Outcomes \cup Int \cup [verified : BOOLEAN, approvals : Nat]
  /\ \A family \in Drafts : \A c \in family : WellFormed(c)

VARIABLES
  draft,    \* the company in hand
  phase,    \* how far it got
  errors,   \* codes of the compile errors
  color,    \* of each step, in the search for cycles
  frames,   \* the calls of visit under way, innermost last: [id, next], next
            \* being the index of the need whose turn it is
  order,    \* the workflow's steps in dependency order, as far as known
  step,     \* the step whose agents run
  answers,  \* what each agent of the pool returned, by its index
  arrived,  \* indexes in the order in which the agents returned
  result    \* the artifact recorded for the step

searchVars == <<errors, color, frames, order>>
poolVars == <<step, answers, arrived, result>>
compVars == <<draft, phase, searchVars, poolVars>>

-----------------------------------------------------------------------------
(* compile_company: roles and actions *)

MAX_FANOUT == 32
MAX_VERIFIERS == 32
RISK_RANK == [observe |-> 0, bounded_internal |-> 1, external_reversible |-> 2,
              consequential |-> 3, prohibited |-> 4]
LOCKED_RISK == "prohibited"
SIDE_EFFECTING == {"external_reversible", "consequential"}
REQUIRED_APPROVAL == [external_reversible |-> {"passkey", "hardware_passkey"},
                      consequential |-> {"hardware_passkey"}]

RoleIds(c) == DOMAIN c.roles
Approvable(a) == a.approval # Unset

UnknownTool(c) ==
  \/ \E r \in RoleIds(c) : ~(c.roles[r].tools \subseteq c.tools)
  \/ \E a \in c.actions : a.tool \notin c.tools

MetaInvented(c) == \E a \in c.actions : a.id \in Reserved \ Locked

\* A variant: an engine action may not be given a higher tier.
TierLoweredFlipped(c) ==
  \E a \in c.actions : a.id \in Locked /\ RISK_RANK[a.risk] > RISK_RANK[LOCKED_RISK]

TierLowered(c) ==
  \E a \in c.actions : a.id \in Locked /\ RISK_RANK[a.risk] < RISK_RANK[LOCKED_RISK]

Unrepeatable(c) == \E a \in c.actions : a.risk \in SIDE_EFFECTING /\ ~a.idempotent

NoApprover(c) ==
  \E a \in c.actions : a.risk \in SIDE_EFFECTING /\ (~Approvable(a) \/ a.approval.roles = {})

UnknownApprover(c) ==
  \E a \in c.actions :
    /\ a.risk \in SIDE_EFFECTING /\ Approvable(a)
    /\ ~(a.approval.roles \subseteq Human \cup RoleIds(c))

TooWeak(c) ==
  \E a \in c.actions :
    \/ /\ a.risk \in SIDE_EFFECTING /\ Approvable(a) /\ a.approval.roles # {}
       /\ a.approval.require \notin REQUIRED_APPROVAL[a.risk]
    \/ a.risk = "prohibited" /\ Approvable(a)

Ungoverned(c) ==
  \E r \in RoleIds(c) :
    c.roles[r].write /\ \A a \in c.actions : a.tool \notin c.roles[r].tools

-----------------------------------------------------------------------------
(* compile_company: the workflow *)

StepIds(c) == {c.steps[k].id : k \in DOMAIN c.steps}
StepOf(c, n) == c.steps[CHOOSE k \in DOMAIN c.steps : c.steps[k].id = n]
StepsOf(c, kinds) == {s \in Range(c.steps) : s.type \in kinds}

UnknownRole(c) ==
  \/ \E r \in RoleIds(c) : ~(c.roles[r].delegates \subseteq RoleIds(c))
  \/ \E s \in StepsOf(c, {"work", "fanout", "verify"}) : s.runAs \notin RoleIds(c)
  \/ UnknownApprover(c)

\* A None or a 0 is falsy in the code: neither is a fanout.
BadFanout(c) ==
  \E s \in StepsOf(c, {"fanout"}) :
    s.width = Unset \/ s.width \notin 2..MAX_FANOUT \/ s.aggregate = Unset

QuorumGiven(s) == IF s.verifyQuorum = Unset THEN 1 ELSE s.verifyQuorum

\* A variant: the quorum's range is not checked.
BadVerifyQuorumFree(c) ==
  \E s \in StepsOf(c, {"verify"}) :
    s.width = Unset \/ s.width \notin 1..MAX_VERIFIERS \/ s.needs = <<>>

BadVerify(c) ==
  \E s \in StepsOf(c, {"verify"}) :
    \/ s.width = Unset \/ s.width \notin 1..MAX_VERIFIERS
    \/ s.needs = <<>>
    \/ s.width \notin {Unset, 0} /\ QuorumGiven(s) \notin 1..s.width

UnknownStep(c) ==
  \/ \E s \in StepsOf(c, {"humanGate"}) : s.policy \notin {a.id : a \in c.actions}
  \/ \E s \in Range(c.steps) : ~(Range(s.needs) \subseteq StepIds(c))

-----------------------------------------------------------------------------
(* Depth-first search: _check_cycles and _in_dependency_order *)

HasBound(c, n) == StepOf(c, n).loopBound \notin {Unset, 0}

\* A variant: a cycle must be bounded at every step.
UnboundedStrict(c, cyc) == \E n \in Range(cyc) : ~HasBound(c, n)
Unbounded(c, cyc) == \A n \in Range(cyc) : ~HasBound(c, n)

Stack == [k \in DOMAIN frames |-> frames[k].id]
Top == frames[Len(frames)]
NeedsLeft == frames # <<>> /\ Top.next <= Len(StepOf(draft, Top.id).needs)
Turn == StepOf(draft, Top.id).needs[Top.next]

\* stack[stack.index(dep):]
CycleTo(d) == SubSeq(Stack, CHOOSE k \in DOMAIN frames : frames[k].id = d, Len(frames))

\* visit goes on to its next need.
Onward == [frames EXCEPT ![Len(frames)].next = @ + 1]

\* The step whose turn it is: a need of the innermost call, or the first step left.
Next(n, left) ==
  \/ NeedsLeft /\ n = Turn
  \/ /\ frames = <<>>
     /\ \E k \in DOMAIN draft.steps : /\ draft.steps[k].id = n
                                     /\ \A j \in 1..(k - 1) : draft.steps[j].id \notin left

\* visit is called for a step.
Call(n) ==
  frames' = Append(IF frames = <<>> THEN <<>> ELSE Onward, [id |-> n, next |-> 1])

-----------------------------------------------------------------------------
(* compile_company: what is refused *)

Checks ==
  {"E-REF-TOOL", "E-REF-ROLE", "E-META-LOCKED", "E-TIER-LOWERED", "E-IDEMPOTENCY",
   "E-APPROVER", "E-CAP-DEFAULTALLOW", "E-AUTH-NOPOLICY", "E-FANOUT", "E-VERIFY",
   "E-REF-WORKFLOW"}

\* _check_cycles adds the last.
ErrorCodes == Checks \cup {"E-CYCLE-UNBOUNDED"}

Breaks(c, code) ==
  CASE code = "E-REF-TOOL"         -> UnknownTool(c)
    [] code = "E-REF-ROLE"         -> UnknownRole(c)
    [] code = "E-META-LOCKED"      -> MetaInvented(c)
    [] code = "E-TIER-LOWERED"     -> TierLowered(c)
    [] code = "E-IDEMPOTENCY"      -> Unrepeatable(c)
    [] code = "E-APPROVER"         -> NoApprover(c)
    [] code = "E-CAP-DEFAULTALLOW" -> TooWeak(c)
    [] code = "E-AUTH-NOPOLICY"    -> Ungoverned(c)
    [] code = "E-FANOUT"           -> BadFanout(c)
    [] code = "E-VERIFY"           -> BadVerify(c)
    [] code = "E-REF-WORKFLOW"     -> UnknownStep(c)

-----------------------------------------------------------------------------
(* aggregate, over the candidates in index order.  They are all dicts, an agent     *)
(* without an artifact giving an empty one, and a fanout that compiled has two or  *)
(* more of them: aggregate's filter drops none, and its early return for none at   *)
(* all is never taken.                                                             *)

Votes(cs, v) == Cardinality({k \in DOMAIN cs : cs[k].label = v})
Labels(cs) == {cs[k].label : k \in DOMAIN cs}
FirstSeen(cs, v) == CHOOSE k \in DOMAIN cs : cs[k].label = v /\ \A j \in 1..(k - 1) : cs[j].label # v

\* max(order, key=(votes, -index)): most votes, then seen first.
Modal(cs) ==
  CHOOSE v \in Labels(cs) : \A u \in Labels(cs) \ {v} :
    \/ Votes(cs, u) < Votes(cs, v)
    \/ Votes(cs, u) = Votes(cs, v) /\ FirstSeen(cs, v) < FirstSeen(cs, u)

aggregate(cs, how) ==
  CASE how = "first"    -> cs[1]
    [] how = "best"     -> cs[CHOOSE k \in DOMAIN cs : /\ \A j \in DOMAIN cs : cs[j].score <= cs[k].score
                                                       /\ \A j \in 1..(k - 1) : cs[j].score < cs[k].score]
    [] how = "majority" -> cs[FirstSeen(cs, Modal(cs))]

\* verifyQuorum or 1: here a 0 counts as not given.
QuorumAtRun(s) == IF s.verifyQuorum \in {Unset, 0} THEN 1 ELSE s.verifyQuorum
Approvals(cs) == Cardinality({k \in DOMAIN cs : cs[k].approve})

\* A variant: the pool's answers in the order of their arrival.
CandidatesAsArrived == [k \in DOMAIN arrived |-> answers[arrived[k]]]
\* pool.map keeps the order of the indexes, whoever answers first.
Candidates == [k \in 1..StepOf(draft, step).width |-> answers[k]]

-----------------------------------------------------------------------------
CompInit ==
  /\ \E family \in Drafts : draft \in family
  /\ phase = "draft" /\ errors = {} /\ color = <<>> /\ frames = <<>> /\ order = <<>>
  /\ step = Unset /\ answers = <<>> /\ arrived = <<>> /\ result = Unset

\* compile_company, up to its call of _check_cycles.
compile_company ==
  /\ phase = "draft" /\ phase' = "cycles"
  /\ errors' = {e \in Checks : Breaks(draft, e)}
  /\ color' = [n \in StepIds(draft) |-> "white"]
  /\ UNCHANGED <<draft, frames, order, poolVars>>

White == {n \in StepIds(draft) : color[n] = "white"}

Visit ==
  /\ phase = "cycles"
  /\ \E n \in White : Next(n, White) /\ Call(n) /\ color' = [color EXCEPT ![n] = "grey"]
  /\ UNCHANGED <<draft, phase, errors, order, poolVars>>

\* A grey step is on the stack: the needs lead back to it.
VisitGrey ==
  /\ phase = "cycles" /\ NeedsLeft /\ Turn \in StepIds(draft) /\ color[Turn] = "grey"
  /\ errors' = IF Unbounded(draft, CycleTo(Turn)) THEN errors \cup {"E-CYCLE-UNBOUNDED"}
               ELSE errors
  /\ frames' = Onward
  /\ UNCHANGED <<draft, phase, color, order, poolVars>>

VisitBlack ==
  /\ phase = "cycles" /\ NeedsLeft
  /\ Turn \in StepIds(draft) => color[Turn] = "black"
  /\ frames' = Onward
  /\ UNCHANGED <<draft, phase, errors, color, order, poolVars>>

VisitEnds ==
  /\ phase = "cycles" /\ frames # <<>> /\ ~NeedsLeft
  /\ color' = [color EXCEPT ![Top.id] = "black"]
  /\ frames' = Front(frames)
  /\ UNCHANGED <<draft, phase, errors, order, poolVars>>

\* compile_company, after _check_cycles.
CompileEnds ==
  /\ phase = "cycles" /\ frames = <<>> /\ White = {}
  /\ phase' = IF errors = {} THEN "compiled" ELSE "rejected"
  /\ UNCHANGED <<draft, searchVars, poolVars>>

\* _in_dependency_order: a step is placed after what it needs.
Unplaced == StepIds(draft) \ Range(order)

PlaceBegins ==
  /\ phase = "compiled"
  /\ \E n \in Unplaced \ Range(Stack) : Next(n, Unplaced) /\ Call(n)
  /\ UNCHANGED <<draft, phase, errors, color, order, poolVars>>

PlaceSeen ==
  /\ phase = "compiled" /\ NeedsLeft /\ Turn \in Range(order)
  /\ frames' = Onward
  /\ UNCHANGED <<draft, phase, errors, color, order, poolVars>>

\* A cycle, or a step that is not there.
PlaceRaises ==
  /\ phase = "compiled" /\ NeedsLeft
  /\ Turn \notin Range(order) /\ (Turn \in Range(Stack) \/ Turn \notin StepIds(draft))
  /\ phase' = "raised" /\ frames' = <<>> /\ order' = <<>>
  /\ UNCHANGED <<draft, errors, color, poolVars>>

\* A variant: a step is placed before what it needs.
PlaceAhead ==
  /\ phase = "compiled" /\ frames # <<>> /\ ~NeedsLeft
  /\ order' = <<Top.id>> \o order
  /\ frames' = Front(frames)
  /\ UNCHANGED <<draft, phase, errors, color, poolVars>>

Place ==
  /\ phase = "compiled" /\ frames # <<>> /\ ~NeedsLeft
  /\ order' = Append(order, Top.id)
  /\ frames' = Front(frames)
  /\ UNCHANGED <<draft, phase, errors, color, poolVars>>

OrderEnds ==
  /\ phase = "compiled" /\ frames = <<>> /\ Unplaced = {}
  /\ phase' = "ordered"
  /\ UNCHANGED <<draft, searchVars, poolVars>>

\* _drive reaches a fanout or a verify step: its agents start.
Launch(n) ==
  /\ phase = "ordered" /\ StepOf(draft, n).type \in {"fanout", "verify"}
  /\ phase' = "pool" /\ step' = n
  /\ answers' = [k \in 1..StepOf(draft, n).width |-> Unset]
  /\ UNCHANGED <<draft, searchVars, arrived, result>>

\* Agent k returns, or raises.
Answer(k, a) ==
  /\ phase = "pool" /\ answers[k] = Unset
  /\ answers' = [answers EXCEPT ![k] = a]
  /\ arrived' = Append(arrived, k)
  /\ UNCHANGED <<draft, phase, searchVars, step, result>>

\* A variant: an agent's exception records an empty artifact.
CollectRaising ==
  /\ phase = "pool" /\ Unset \notin Range(answers) /\ Raised \in Range(answers)
  /\ phase' = "raised" /\ result' = Empty
  /\ UNCHANGED <<draft, searchVars, step, answers, arrived>>

\* All agents returned: an exception of one of them ends the drive.
Collect ==
  /\ phase = "pool" /\ Unset \notin Range(answers)
  /\ LET s == StepOf(draft, step)
     IN  IF Raised \in Range(answers)
           THEN phase' = "raised" /\ result' = Unset
           ELSE /\ phase' = "done"
                /\ result' = IF s.type = "fanout" THEN aggregate(Candidates, s.aggregate)
                             ELSE [verified |-> Approvals(Candidates) >= QuorumAtRun(s),
                                   approvals |-> Approvals(Candidates)]
  /\ UNCHANGED <<draft, searchVars, step, answers, arrived>>

CompNext ==
  \/ compile_company
  \/ Visit \/ VisitGrey \/ VisitBlack \/ VisitEnds \/ CompileEnds
  \/ PlaceBegins \/ PlaceSeen \/ PlaceRaises \/ Place \/ OrderEnds
  \/ \E n \in Range(order) : Launch(n)
  \/ \E k \in DOMAIN answers, a \in Outcomes \cup {Raised} : Answer(k, a)
  \/ Collect

CompSpec == CompInit /\ [][CompNext]_compVars

-----------------------------------------------------------------------------
(* Properties *)

Phases == {"draft", "cycles", "rejected", "compiled", "ordered", "raised", "pool", "done"}
Accepted == phase \notin {"draft", "cycles", "rejected"}

\* The types of the compiler's state.
CompTypeOK ==
  /\ phase \in Phases
  /\ errors \subseteq ErrorCodes
  /\ phase # "draft" => color \in [StepIds(draft) -> {"white", "grey", "black"}]
  /\ frames \in Seq([id : StepIds(draft), next : Nat \ {0}])
  /\ order \in Seq(StepIds(draft))
  /\ step \in StepIds(draft) \cup {Unset}
  /\ Range(answers) \subseteq Outcomes \cup {Raised, Unset}
  /\ arrived \in Seq(DOMAIN answers)
  /\ result # Unset <=> phase = "done"

\* Cycles of the needs graph, each as a path without repetition back to its
\* first step.
Cycles(c) ==
  {p \in BoundedSeq(StepIds(c), Cardinality(StepIds(c))) :
     /\ p # <<>> /\ IsInjective(p)
     /\ \A k \in 1..(Len(p) - 1) : p[k + 1] \in Range(StepOf(c, p[k]).needs)
     /\ p[1] \in Range(StepOf(c, p[Len(p)]).needs)}

\* What GovernedTask assumes of Order and Needs: a compiled workflow without loop
\* bounds never raises when it is ordered, and its order has every step once,
\* after all the steps it needs (compiler.py 221-229, workflow.py 384-401).
OrderSound ==
  Accepted /\ (\A n \in StepIds(draft) : ~HasBound(draft, n)) =>
    /\ phase = "raised" => Raised \in Range(answers)
    /\ phase # "compiled" /\ order # <<>> =>
         /\ IsInjective(order) /\ Range(order) = StepIds(draft)
         /\ \A k \in DOMAIN order : Range(StepOf(draft, order[k]).needs) \subseteq
                                      {order[j] : j \in 1..(k - 1)}

\* The compiler refuses a workflow for a cycle only when it has a cycle with no
\* bound on it, whatever the order of its steps and needs (compiler.py 244-264).
CycleRefusalJust ==
  "E-CYCLE-UNBOUNDED" \in errors =>
    \E cyc \in Cycles(draft) : \A n \in Range(cyc) : ~HasBound(draft, n)

\* "Reject any dependency cycle that isn't made finite by an explicit bound"
\* (compiler.py 245): no accepted workflow has a cycle without a bound.
CyclesBounded ==
  Accepted => \A cyc \in Cycles(draft) : \E n \in Range(cyc) : HasBound(draft, n)

\* A verify step of an accepted company is passed by its verifiers: never without
\* an approval, always when all of them approve, and for a quorum it names only
\* with that many (compiler.py 199-211, workflow.py 249-270).
VerifyEarned ==
  phase = "done" /\ StepOf(draft, step).type = "verify" =>
    LET s == StepOf(draft, step)
        yes == {k \in 1..s.width : answers[k].approve}
    IN  /\ yes = {} => ~result.verified
        /\ yes = 1..s.width => result.verified
        /\ result.verified /\ s.verifyQuorum # Unset => Cardinality(yes) >= s.verifyQuorum

\* "Aggregated independent of completion order", ties to the lowest candidate
\* (aggregate.py 3-4): the artifact of a fanout is the answer of the first agent
\* that no other outdoes, in whatever order the agents returned.  An agent that
\* deferred or failed answers with an empty artifact like any other, and "first" is
\* agent 1's answer even then, not that of the "first successful candidate"
\* (spec/models.py 98).
AggregateStable ==
  phase = "done" /\ StepOf(draft, step).type = "fanout" =>
    LET how == StepOf(draft, step).aggregate
        backers(k) == {j \in DOMAIN answers : answers[j].label = answers[k].label}
        weight(k) == CASE how = "first" -> 0 [] how = "best" -> answers[k].score
                       [] how = "majority" -> Cardinality(backers(k))
        tops == {k \in DOMAIN answers : \A j \in DOMAIN answers : weight(j) <= weight(k)}
    IN  \E k \in tops : result = answers[k] /\ \A j \in tops : k <= j

\* Authority is closed: whatever an accepted company lets the gateway authorize
\* on signatures is no action of the engine, can be repeated, and has somebody
\* known to sign it with a key of the strength its risk demands; and every gate
\* of its workflow names such an action or one that is decided without a
\* signature (compiler.py 3-6, 109-155, 212-216).
AuthorityClosed ==
  Accepted =>
    /\ \A a \in draft.actions : a.risk \in SIDE_EFFECTING =>
         /\ a.id \notin Reserved /\ a.idempotent
         /\ a.approval.roles \cap (Human \cup RoleIds(draft)) # {}
         /\ a.risk = "consequential" => a.approval.require = "hardware_passkey"
    /\ \A s \in StepsOf(draft, {"humanGate"}) : \E a \in draft.actions : a.id = s.policy
=============================================================================
