---------------------------- MODULE GovernedTask ----------------------------
(***************************************************************************)
(* One governed task: kernel/workflow.py (WorkflowRunner) and              *)
(* kernel/executor.py (Executor) over the gateway of module Gateway.       *)
(*                                                                         *)
(* The runner keeps nothing: what it knows it reads from the ledger, here  *)
(* projected to the facts the code looks up (created, succeeded, executed, *)
(* the last recorded state).  A session runs one call of start, resume or  *)
(* approve_step, cut at every ledger access, worker run, gateway step and  *)
(* effect, so that calls of several threads and replicas interleave and a  *)
(* crash can fall between any two steps.                                   *)
(***************************************************************************)
EXTENDS Gateway, Sequences

CONSTANTS
  Steps,        \* step ids of the workflow
  Order,        \* _in_dependency_order(steps)
  Needs,        \* step -> the steps it needs
  Kind,         \* step -> "work", "fanout", "verify" or "humanGate"
  GatePolicy,   \* humanGate -> action id
  Artifacts,    \* what a step's agents may produce
  Handled,      \* tools the executor has a handler for
  Engine,       \* "inline", or "dbos" where work steps are memoized
  MaxCrashes,   \* bound: crashes of replicas
  NoArtifact    \* no artifact recorded

Gates == {g \in Steps : Kind[g] = "humanGate"}
Authorized == "authorized"
Recorded == Artifacts \cup {Authorized, NoArtifact}
Results == Artifacts \cup {"deferred", "error", "raised"}

\* _gate_intent: task, gate and the upstream artifacts the handle holds.
GateIntent(g, artifacts) ==
  [action_id |-> GatePolicy[g], tool |-> Policy[GatePolicy[g]].tool, amount |-> None,
   args |-> [gate |-> g, upstream |-> [n \in Needs[g] |-> artifacts[n]]]]

Before(m, n) ==
  \E j, k \in 1..Len(Order) : Order[j] = m /\ Order[k] = n /\ j < k

ASSUME TaskAssumption ==
  /\ Order \in Seq(Steps)
  /\ Len(Order) = Cardinality(Steps) /\ \A n \in Steps : \E k \in 1..Len(Order) : Order[k] = n
  /\ Needs \in [Steps -> SUBSET Steps]
  /\ \A n \in Steps : \A m \in Needs[n] : Before(m, n)
  /\ Kind \in [Steps -> {"work", "fanout", "verify", "humanGate"}]
  /\ GatePolicy \in [Gates -> Actions]
  /\ \A g \in Gates : \A f \in [Steps -> Recorded] : GateIntent(g, f) \in Intents
  /\ NoArtifact \notin Artifacts \cup {Authorized}
  /\ Engine \in {"inline", "dbos"} /\ MaxCrashes \in Nat /\ IsFiniteSet(Sessions)

VARIABLES
  created,    \* task_created events
  succeeded,  \* step -> artifact of its last step_succeeded event
  executed,   \* intents with an "executed" receipt
  state,      \* state of the last task_state_changed event
  memo,       \* step -> result DBOS keeps of it
  effects,    \* intent -> times its handler took effect in the world
  cut,        \* intent -> effects whose receipt a crash or error prevented
  run,        \* session -> the runner call it serves
  crashes     \* replicas crashed so far

taskVars == <<created, succeeded, executed, state, memo, effects, cut, run, crashes>>
ledgerVars == <<created, succeeded, executed, state>>
worldVars == <<memo, effects, cut, crashes>>
allVars == <<gwVars, taskVars>>

-----------------------------------------------------------------------------
Completed == {n \in Steps : succeeded[n] # NoArtifact}
NoArtifacts == [n \in Steps |-> NoArtifact]

RunPCs == {"idle", "create", "reload", "begin", "drive", "agents", "decide", "park",
           "submit", "approve", "execute", "effect", "receipt", "settle"}
States == {"READY", "WAITING_FOR_HUMAN", "FAILED_RETRYABLE", "SUCCEEDED"}

IdleRun ==
  [pc |-> "idle", op |-> "resume", gate |-> NoRound, by |-> NoOne, over |-> NoRound,
   artifacts |-> NoArtifacts, done |-> {}, pos |-> 1, intent |-> NoRound]

In(s, pc) == run[s].pc = pc
Move(s, pc) == run' = [run EXCEPT ![s].pc = pc]
Leave(s) == run' = [run EXCEPT ![s] = IdleRun]

\* _drive returned: approve_step goes on to submit, whatever state it returned.
DriveReturns(s) == IF run[s].op = "approve" THEN Move(s, "submit") ELSE Leave(s)

TaskInit ==
  /\ GatewayInit
  /\ created = 0
  /\ succeeded = NoArtifacts
  /\ executed = {}
  /\ state = "READY"
  /\ memo = NoArtifacts
  /\ effects = [i \in Intents |-> 0]
  /\ cut = [i \in Intents |-> 0]
  /\ run = [s \in Sessions |-> IdleRun]
  /\ crashes = 0

-----------------------------------------------------------------------------
(* start, resume and approve_step *)

Start(s) ==
  /\ In(s, "idle")
  /\ run' = [run EXCEPT ![s] =
       [IdleRun EXCEPT !.op = "start",
          !.pc = IF created = 0 /\ Completed = {} THEN "create" ELSE "begin"]]
  /\ UNCHANGED <<gwVars, ledgerVars, worldVars>>

Create(s) ==
  /\ In(s, "create")
  /\ created' = created + 1
  /\ Move(s, "begin")
  /\ UNCHANGED <<gwVars, succeeded, executed, state, worldVars>>

Resume(s) ==
  /\ In(s, "idle") /\ created > 0
  /\ run' = [run EXCEPT ![s] = [IdleRun EXCEPT !.pc = "reload"]]
  /\ UNCHANGED <<gwVars, ledgerVars, worldVars>>

\* p signs challenge c for gate g; approve_step resumes the task first.
Approve(s, g, p, c) ==
  /\ In(s, "idle") /\ created > 0
  /\ c # NoRound => rounds[c] # Unissued
  /\ run' = [run EXCEPT ![s] = [IdleRun EXCEPT !.pc = "reload", !.op = "approve",
                                  !.gate = g, !.by = p, !.over = c]]
  /\ UNCHANGED <<gwVars, ledgerVars, worldVars>>

\* resume rebuilds the handle's artifacts ..
Reload(s) ==
  /\ In(s, "reload")
  /\ run' = [run EXCEPT ![s].pc = "begin", ![s].artifacts = succeeded]
  /\ UNCHANGED <<gwVars, ledgerVars, worldVars>>

\* Variants: a task remembers nothing of what is done; a gate's approval
\* forgets that the gate was passed.
BeginBlank(s) ==
  /\ In(s, "begin")
  /\ run' = [run EXCEPT ![s].pc = "drive", ![s].done = {}, ![s].pos = 1]
  /\ UNCHANGED <<gwVars, ledgerVars, worldVars>>

BeginRedoesGate(s) ==
  /\ In(s, "begin")
  /\ run' = [run EXCEPT ![s].pc = "drive", ![s].done = Completed \ {run[s].gate},
                        ![s].pos = 1]
  /\ UNCHANGED <<gwVars, ledgerVars, worldVars>>

\* .. and _drive takes its snapshot of the completed steps.
Begin(s) ==
  /\ In(s, "begin")
  /\ run' = [run EXCEPT ![s].pc = "drive", ![s].done = Completed, ![s].pos = 1]
  /\ UNCHANGED <<gwVars, ledgerVars, worldVars>>

-----------------------------------------------------------------------------
(* _drive *)

Here(s) == Order[run[s].pos]
Driving(s) == In(s, "drive") /\ run[s].pos <= Len(Order)

\* A variant: the artifact recorded meanwhile is not taken over.
SkipDoneBare(s) ==
  /\ Driving(s) /\ Here(s) \in run[s].done
  /\ run' = [run EXCEPT ![s].pos = @ + 1]
  /\ UNCHANGED <<gwVars, ledgerVars, worldVars>>

\* A completed step lends its recorded artifact.
SkipDone(s) ==
  /\ Driving(s) /\ Here(s) \in run[s].done
  /\ LET n == Here(s)
     IN  run' = [run EXCEPT ![s].pos = @ + 1,
           ![s].artifacts[n] = IF @ = NoArtifact THEN succeeded[n] ELSE @]
  /\ UNCHANGED <<gwVars, ledgerVars, worldVars>>

\* work, fanout and verify steps: step_started, then the agents run.
BeginAgents(s) ==
  /\ Driving(s) /\ Here(s) \notin run[s].done /\ Here(s) \notin Gates
  /\ Move(s, "agents")
  /\ UNCHANGED <<gwVars, ledgerVars, worldVars>>

\* Which steps' results the engine keeps (the variant: it does without DBOS, too).
MemoizedAlways(s) == Kind[Here(s)] = "work"
Memoized(s) == Engine = "dbos" /\ Kind[Here(s)] = "work"

\* A variant: the thunk runs again, whatever is kept of it.
CheckpointAnew(s, r) ==
  /\ In(s, "agents") /\ Memoized(s)
  /\ memo' = [memo EXCEPT ![Here(s)] = r]
  /\ UNCHANGED <<gwVars, ledgerVars, run, effects, cut, crashes>>

\* run_step: the agents' result is kept under (task, step), whatever it is, and
\* the thunk never runs again.
Checkpoint(s, r) ==
  /\ In(s, "agents") /\ Memoized(s) /\ memo[Here(s)] = NoArtifact
  /\ memo' = [memo EXCEPT ![Here(s)] = r]
  /\ UNCHANGED <<gwVars, ledgerVars, run, effects, cut, crashes>>

\* What the step's agents return: with the engine, what it keeps of them.
Yields(s, r) == Memoized(s) => memo[Here(s)] = r

StepOk(s, a) ==
  /\ In(s, "agents") /\ Yields(s, a)
  /\ succeeded' = [succeeded EXCEPT ![Here(s)] = a]
  /\ run' = [run EXCEPT ![s].pc = "drive", ![s].artifacts[Here(s)] = a,
                        ![s].done = @ \cup {Here(s)}, ![s].pos = @ + 1]
  /\ UNCHANGED <<gwVars, created, executed, state, worldVars>>

\* A variant: the worker's status is recorded as the task's state.
StepDeferredRaw(s) ==
  /\ In(s, "agents") /\ Kind[Here(s)] = "work" /\ Yields(s, "deferred")
  /\ state' = "deferred"
  /\ DriveReturns(s)
  /\ UNCHANGED <<gwVars, created, succeeded, executed, worldVars>>

\* "deferred": the task is retryable and _drive returns.
StepDeferred(s) ==
  /\ In(s, "agents") /\ Kind[Here(s)] = "work" /\ Yields(s, "deferred")
  /\ state' = "FAILED_RETRYABLE"
  /\ DriveReturns(s)
  /\ UNCHANGED <<gwVars, created, succeeded, executed, worldVars>>

\* "error" or an unknown status: retryable, and the exception ends the call.
StepError(s) ==
  /\ In(s, "agents") /\ Kind[Here(s)] = "work" /\ Yields(s, "error")
  /\ state' = "FAILED_RETRYABLE"
  /\ Leave(s)
  /\ UNCHANGED <<gwVars, created, succeeded, executed, worldVars>>

\* Too few verifiers approve: the task waits for a human.
StepUnverified(s) ==
  /\ In(s, "agents") /\ Kind[Here(s)] = "verify"
  /\ state' = "WAITING_FOR_HUMAN"
  /\ DriveReturns(s)
  /\ UNCHANGED <<gwVars, created, succeeded, executed, worldVars>>

\* A humanGate asks the gateway to decide its intent ..
DecideGate(s) ==
  LET i == GateIntent(Here(s), run[s].artifacts)
  IN  /\ Driving(s) /\ Here(s) \in Gates \ run[s].done
      /\ Decide(s, i)
      /\ Move(s, IF sess'[s].pc = "idle" THEN "park" ELSE "decide")
      /\ UNCHANGED <<ledgerVars, worldVars>>

\* A variant: the task waits, but the steps after the gate run.
ParkContinues(s) ==
  /\ In(s, "park")
  /\ state' = "WAITING_FOR_HUMAN"
  /\ run' = [run EXCEPT ![s].pc = "drive", ![s].pos = @ + 1]
  /\ UNCHANGED <<gwVars, created, succeeded, executed, worldVars>>

\* .. and parks the task, whatever the gateway decided.
Park(s) ==
  /\ In(s, "park")
  /\ state' = "WAITING_FOR_HUMAN"
  /\ DriveReturns(s)
  /\ UNCHANGED <<gwVars, created, succeeded, executed, worldVars>>

Finish(s) ==
  /\ In(s, "drive") /\ run[s].pos > Len(Order)
  /\ state' = "SUCCEEDED"
  /\ DriveReturns(s)
  /\ UNCHANGED <<gwVars, created, succeeded, executed, worldVars>>

-----------------------------------------------------------------------------
(* The rest of approve_step *)

SubmitGate(s) ==
  LET i == GateIntent(run[s].gate, run[s].artifacts)
  IN  /\ In(s, "submit")
      /\ Submit(s, i, run[s].by, run[s].over)
      /\ run' = IF sess'[s].pc = "idle" THEN [run EXCEPT ![s] = IdleRun]
                ELSE [run EXCEPT ![s].pc = "approve", ![s].intent = i]
      /\ UNCHANGED <<ledgerVars, worldVars>>

\* A variant: whatever submit_approval answers, the effect is performed.
InGatewayUnchecked(s) ==
  /\ GatewayStep(s)
  /\ IF sess'[s].pc # "idle" THEN run' = run
     ELSE IF In(s, "decide") THEN Move(s, "park")
     ELSE Move(s, "execute")
  /\ UNCHANGED <<ledgerVars, worldVars>>

\* A step of the gateway call the session waits for; only Mint authorizes.
InGateway(s) ==
  /\ GatewayStep(s)
  /\ IF sess'[s].pc # "idle" THEN run' = run
     ELSE IF In(s, "decide") THEN Move(s, "park")
     ELSE IF At(s, "mint") THEN Move(s, "execute")
     ELSE Leave(s)
  /\ UNCHANGED <<ledgerVars, worldVars>>

\* Variants: the prior receipt is not looked for; a refusal counts as success.
ExecuteAlways(s) ==
  /\ In(s, "execute") /\ run[s].intent.tool \in Handled
  /\ Move(s, "effect")
  /\ UNCHANGED <<gwVars, ledgerVars, worldVars>>

ExecuteRefusedSettles(s) ==
  /\ In(s, "execute")
  /\ Move(s, IF run[s].intent \notin executed /\ run[s].intent.tool \in Handled
               THEN "effect" ELSE "settle")
  /\ UNCHANGED <<gwVars, ledgerVars, worldVars>>

\* A variant: a receipt is written with no effect behind it.
ExecuteUnperformed(s) ==
  /\ In(s, "execute")
  /\ Move(s, IF run[s].intent \in executed THEN "settle" ELSE "receipt")
  /\ UNCHANGED <<gwVars, ledgerVars, worldVars>>

\* Executor.execute: the prior receipt, then the handler.
Execute(s) ==
  LET i == run[s].intent
  IN  /\ In(s, "execute")
      /\ \/ i \in executed /\ Move(s, "settle") /\ UNCHANGED state
         \/ i \notin executed /\ i.tool \in Handled /\ Move(s, "effect") /\ UNCHANGED state
         \/ /\ i \notin executed /\ i.tool \notin Handled
            /\ state' = "FAILED_RETRYABLE"
            /\ Leave(s)
      /\ UNCHANGED <<gwVars, created, succeeded, executed, worldVars>>

Effect(s) ==
  /\ In(s, "effect")
  /\ effects' = [effects EXCEPT ![run[s].intent] = @ + 1]
  /\ Move(s, "receipt")
  /\ UNCHANGED <<gwVars, ledgerVars, memo, cut, crashes>>

\* The receipt (the variant: the crash-safe record is forgotten).
ReceiptLost(s) ==
  /\ In(s, "receipt")
  /\ Move(s, "settle")
  /\ UNCHANGED <<gwVars, ledgerVars, worldVars>>

Receipt(s) ==
  /\ In(s, "receipt")
  /\ executed' = executed \cup {run[s].intent}
  /\ Move(s, "settle")
  /\ UNCHANGED <<gwVars, created, succeeded, state, worldVars>>

\* step_succeeded for the gate, then resume once more.
Settle(s) ==
  /\ In(s, "settle")
  /\ succeeded' = [succeeded EXCEPT ![run[s].gate] = Authorized]
  /\ run' = [run EXCEPT ![s] = [IdleRun EXCEPT !.pc = "reload"]]
  /\ UNCHANGED <<gwVars, created, executed, state, worldVars>>

-----------------------------------------------------------------------------
(* Failures *)

\* The agents or the handler raise; a handler may raise after taking effect.
Raise(s) ==
  \/ /\ (In(s, "agents") /\ Yields(s, "raised")) \/ In(s, "effect")
     /\ Leave(s)
     /\ UNCHANGED <<gwVars, ledgerVars, worldVars>>
  \/ /\ In(s, "receipt")
     /\ cut' = [cut EXCEPT ![run[s].intent] = @ + 1]
     /\ Leave(s)
     /\ UNCHANGED <<gwVars, ledgerVars, memo, effects, crashes>>

Crash(r) ==
  /\ crashes < MaxCrashes
  /\ crashes' = crashes + 1
  /\ GatewayCrash(r)
  /\ run' = [s \in Sessions |-> IF Home[s] = r THEN IdleRun ELSE run[s]]
  /\ cut' = [i \in Intents |-> cut[i] +
       Cardinality({s \in Sessions : Home[s] = r /\ In(s, "receipt") /\ run[s].intent = i})]
  /\ UNCHANGED <<ledgerVars, memo, effects>>

RunStep(s) ==
  \/ Create(s) \/ Reload(s) \/ Begin(s)
  \/ SkipDone(s) \/ BeginAgents(s)
  \/ (\E r \in Results : Checkpoint(s, r)) \/ \E a \in Artifacts : StepOk(s, a)
  \/ DecideGate(s) \/ Park(s) \/ Finish(s)
  \/ SubmitGate(s) \/ InGateway(s)
  \/ Execute(s) \/ Effect(s) \/ Receipt(s) \/ Settle(s)

TaskNext ==
  \/ \E s \in Sessions : Start(s) \/ Resume(s)
  \/ \E s \in Sessions, g \in Gates, a \in Assertions : Approve(s, g, a[1], a[2])
  \/ \E s \in Sessions : RunStep(s)
  \/ \E s \in Sessions : StepDeferred(s) \/ StepError(s) \/ StepUnverified(s) \/ Raise(s)
  \/ \E c \in Challenges : Expire(c) /\ UNCHANGED taskVars
  \/ \E r \in Replicas : Crash(r)

TaskSpec == TaskInit /\ [][TaskNext]_allVars

-----------------------------------------------------------------------------
(* Properties *)

Run ==
  [pc : RunPCs, op : {"start", "resume", "approve"}, gate : Gates \cup {NoRound},
   by : Principals \cup {NoOne}, over : Challenges \cup {NoRound},
   artifacts : [Steps -> Recorded], done : SUBSET Steps, pos : 1..(Len(Order) + 1),
   intent : Intents \cup {NoRound}]

\* The types of the task's state.
TaskTypeOK ==
  /\ created \in Nat
  /\ succeeded \in [Steps -> Recorded]
  /\ executed \subseteq Intents
  /\ state \in States
  /\ memo \in [Steps -> Results \cup {NoArtifact}]
  /\ effects \in [Intents -> Nat]
  /\ cut \in [Intents -> Nat]
  /\ run \in [Sessions -> Run]
  /\ crashes \in Nat

GateOf(i) == i.args.gate
Granted(i) == {g \in grants : g.intent = i}
MintedFor(i) == {c \in Challenges : rounds[c].intent = i /\ mints[c] > 0}

\* The capabilities minted for an intent: the first, second .. of each of its rounds.
Capabilities(i) ==
  UNION {{c} \X (1..mints[c]) : c \in {d \in Challenges : rounds[d].intent = i}}

\* Every effect in the world spent a capability of its own, which the gateway granted
\* for exactly its intent: also where calls overlap so that one round mints twice, a
\* capability is used for one effect at most (executor.py 43-60, workflow.py 338-340).
EffectAuthorized ==
  \A i \in Intents :
    /\ effects[i] > 0 => Granted(i) # {}
    /\ effects[i] <= Cardinality(Capabilities(i))

\* A gate is recorded succeeded only after an effect it authorized was executed
\* and receipted (workflow.py 339-355).
GateMeansEffect ==
  \A g \in Gates : succeeded[g] # NoArtifact =>
    \E i \in executed : GateOf(i) = g /\ effects[i] > 0

\* The task is recorded SUCCEEDED only when every step of it succeeded.
SucceededMeansAll == state = "SUCCEEDED" => Completed = Steps

\* Agents are never started on a step before all the steps it needs succeeded
\* ("steps run in dependency order", workflow.py 7-12, 90).
AgentsInOrder ==
  [][\A s \in Sessions : BeginAgents(s) => Needs[Here(s)] \subseteq Completed]_allVars

\* A gate's effect takes place only after the steps the gate needs succeeded.
EffectInOrder ==
  [][\A s \in Sessions : Effect(s) => Needs[GateOf(run[s].intent)] \subseteq Completed]_allVars

\* An intent takes effect at most once, but for effects whose receipt a crash or an
\* exception prevented: with one call at a time, a retried or repeated approval
\* re-runs nothing (executor.py 3-7).
EffectOncePerReceipt ==
  \A i \in Intents : effects[i] <= 1 + cut[i]

\* With one call at a time the runner, the gateway and the executor together do no
\* more than GovernedEffect says: an effect spends a capability minted for exactly
\* its intent, nothing with a receipt is performed again, and a gate is passed only
\* on a receipt of its own (executor.py 1-12, workflow.py 307-357).
Governed ==
  INSTANCE GovernedEffect WITH
    Intent <- Intents, Round <- Challenges, Gate <- Gates, GateOf <- GateOf,
    granted <- [i \in Intents |-> MintedFor(i)], performed <- effects,
    receipted <- executed, passed <- {g \in Gates : succeeded[g] # NoArtifact}
ImplementsEffect == Governed!EffectSpec

\* "Must be identical at park time and approve time" (workflow.py 293): once a
\* gate's needs have succeeded, every intent a call brings to the gateway for
\* the gate is the one the ledger yields.
DigestStable ==
  \A s \in Sessions : sess[s].pc # "idle" =>
    LET g == GateOf(sess[s].intent)
    IN  Needs[g] \subseteq Completed => sess[s].intent = GateIntent(g, succeeded)

\* With the durable engine "the audit trail and the durable execution state stay
\* consistent" (dbos_engine.py 10-12): the ledger and every call in progress have the
\* artifact of a work step from the one run that DBOS keeps, whatever crashes and
\* whoever drives the task at the same time.
MemoMatchesLedger ==
  Engine = "dbos" => \A n \in Steps : Kind[n] = "work" =>
    /\ succeeded[n] \in {NoArtifact, memo[n]}
    /\ \A s \in Sessions : run[s].artifacts[n] \in {NoArtifact, succeeded[n]}

\* A task that succeeded stays so, whatever is resumed or approved again.
SucceededIsFinal ==
  [][state = "SUCCEEDED" => state' = "SUCCEEDED"]_allVars

\* What the engine has kept of a step's run is handed back.
HandBack(s) ==
  /\ In(s, "agents") /\ Memoized(s)
  /\ (\E a \in Artifacts : StepOk(s, a)) \/ StepDeferred(s) \/ StepError(s) \/ Raise(s)

\* The scheduler runs every call; a task that stopped is resumed again and again;
\* agents and verifiers that run again and again do not fail for ever; eligible
\* approvers keep signing the open challenge of the gate.
TaskFairness ==
  /\ \A s \in Sessions : WF_allVars(RunStep(s)) /\ SF_allVars(Start(s))
  /\ \A s \in Sessions : WF_allVars(HandBack(s))
  /\ \A s \in Sessions : SF_allVars(\E a \in Artifacts : StepOk(s, a))
  /\ \A g \in Gates, p \in Principals :
       SF_allVars(\E s \in Sessions, c \in Challenges :
         /\ Live(c) /\ rounds[c].intent = GateIntent(g, succeeded)
         /\ Current(s, rounds[c].intent) = c
         /\ Approve(s, g, p, c))

\* A gate's round that has its quorum while no call is about to mint it: its
\* approvers signed already, and are refused as duplicates when they sign again.
Stranded(c) ==
  /\ Live(c) /\ \E g \in Gates : rounds[c].intent = GateIntent(g, succeeded)
  /\ Cardinality(rounds[c].approvers) >= QuorumOf(rounds[c].intent)
  /\ \A s \in Sessions : sess[s].ref = c => ~At(s, "tally") /\ ~At(s, "retire")

\* Approvals outlive a process, so that one opened on one node "can be completed
\* on another" (stores_pg.py 3-4): no round stays stranded.
QuorumCompletes == \A c \in Challenges : []<>~Stranded(c)

\* The bound of the model is reached: a call is about to open a round, and no challenge
\* is left for it to draw.
OutOfRounds == (\E s \in Sessions : At(s, "opening")) /\ \A c \in Challenges : rounds[c] # Unissued

\* A task that is parked as FAILED_RETRYABLE and driven again and again does not stay
\* so for ever ("allowing an interrupted Loop run to resume", README.md 107-110; "Steps
\* are retried on transient failure", dbos_engine.py 44).
RetryableRetried == []<>(state # "FAILED_RETRYABLE" \/ OutOfRounds)

\* Under those conditions the task runs to its end in spite of crashes, failed steps,
\* handlers that raise and approvals that expire, also where a gate has to be approved
\* again in another round. Excepted are a round left stranded for ever, and behaviours
\* the model cuts off where a round should open (workflow.py 85-169, 316-357).
TaskSucceeds == QuorumCompletes => <>(state = "SUCCEEDED" \/ OutOfRounds)

=============================================================================
