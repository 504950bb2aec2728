------------------------- MODULE GovernedTaskProofs -------------------------
(***************************************************************************)
(* Proofs about GovernedTask, for any workflow, any number of sessions and *)
(* replicas, either store and either engine, with crashes, expiries and    *)
(* failures.                                                               *)
(*                                                                         *)
(* A runner's step is a step of the gateway or leaves it alone             *)
(* (RunnerUsesGateway), so what GatewayProofs shows of the gateway holds   *)
(* of it inside the runner.  What the runner itself promises rests on what *)
(* each call carries from step to step, which CallInv records.             *)
(***************************************************************************)
EXTENDS GovernedTask, GatewayProofs

Approving == {"submit", "approve", "execute", "effect", "receipt", "settle"}
Asking == {"decide", "approve"}

\* What a call of the runner carries.
RunOK(s) ==
  /\ run[s].op = "approve" =>
       run[s].gate \in Gates /\ <<run[s].by, run[s].over>> \in Assertions
  /\ run[s].pc \in Approving => run[s].op = "approve"
  /\ run[s].pc \in Approving \ {"submit"} =>
       run[s].intent \in Intents /\ GateOf(run[s].intent) = run[s].gate
  /\ run[s].pc \in {"agents", "decide", "park"} => run[s].pos <= Len(Order)
  /\ In(s, "agents") => Here(s) \notin Gates

\* The gateway serves a session just while the runner waits for it.
AskOK(s) ==
  /\ sess[s].pc # "idle" <=> run[s].pc \in Asking
  /\ In(s, "decide") => sess[s].op = "decide"
  /\ In(s, "approve") => sess[s].op = "submit" /\ sess[s].intent = run[s].intent

CallInv ==
  /\ IInv
  /\ TaskTypeOK
  /\ \A s \in Sessions : RunOK(s) /\ AskOK(s)

\* TaskTypeOK but for the calls.
RecordTypes ==
  /\ created \in Nat
  /\ succeeded \in [Steps -> Recorded]
  /\ executed \subseteq Intents
  /\ state \in States
  /\ memo \in [Steps -> Results \cup {NoArtifact}]
  /\ effects \in [Intents -> Nat]
  /\ cut \in [Intents -> Nat]
  /\ crashes \in Nat

-----------------------------------------------------------------------------

LEMMA OrderType ==
  /\ Len(Order) \in Nat
  /\ \A k \in 1..Len(Order) : Order[k] \in Steps
BY TaskAssumption

LEMMA GateIntentType ==
  ASSUME NEW g \in Gates, NEW f \in [Steps -> Recorded]
  PROVE  GateIntent(g, f) \in Intents /\ GateOf(GateIntent(g, f)) = g
BY TaskAssumption DEF GateIntent, GateOf

LEMMA IdleRunType == IdleRun \in Run
<1>1. NoArtifacts \in [Steps -> Recorded]
  BY DEF NoArtifacts, Recorded
<1> QED BY <1>1, OrderType DEF IdleRun, Run, RunPCs

LEMMA IdleRunOK ==
  ASSUME NEW s, run'[s] = IdleRun
  PROVE  RunOK(s)'
BY DEF RunOK, IdleRun, Approving, In

LEMMA TaskTypes == TaskTypeOK <=> RecordTypes /\ run \in [Sessions -> Run]
BY DEF TaskTypeOK, RecordTypes

LEMMA CallInit == TaskInit => CallInv
<1> SUFFICES ASSUME TaskInit PROVE CallInv
  OBVIOUS
<1>1. IInv
  BY InitIInv DEF TaskInit
<1>2. RecordTypes
  BY DEF TaskInit, RecordTypes, NoArtifacts, Recorded, States
<1>3. run \in [Sessions -> Run]
  BY IdleRunType DEF TaskInit
<1>4. \A s \in Sessions : RunOK(s) /\ AskOK(s)
  BY DEF TaskInit, GatewayInit, RunOK, AskOK, IdleRun, IdleSession, Approving, Asking, In
<1> QED BY <1>1, <1>2, <1>3, <1>4, TaskTypes DEF CallInv

\* A step of one call that leaves the gateway alone.
LEMMA RunnerStep ==
  ASSUME CallInv, NEW s \in Sessions, UNCHANGED gwVars, RecordTypes',
         run' = [run EXCEPT ![s] = run'[s]], run'[s] \in Run, RunOK(s)',
         run[s].pc \notin Asking, run'[s].pc \notin Asking
  PROVE  CallInv'
<1>1. IInv'
  BY NextIInv DEF CallInv
<1>2. run' \in [Sessions -> Run]
  BY TaskTypes DEF CallInv
<1>3. \A t \in Sessions : t # s => run'[t] = run[t]
  BY TaskTypes DEF CallInv
<1>4. \A t \in Sessions : RunOK(t)' /\ AskOK(t)'
  <2> SUFFICES ASSUME NEW t \in Sessions PROVE RunOK(t)' /\ AskOK(t)'
    OBVIOUS
  <2>0. RunOK(t) /\ AskOK(t) /\ AskOK(s) /\ sess' = sess
    BY DEF CallInv, gwVars
  <2>1. CASE t = s
    <3>1. ~ In(t, "decide")' /\ ~ In(t, "approve")'
      BY <2>1 DEF In, Asking
    <3> QED BY <2>0, <2>1, <3>1 DEF AskOK
  <2>2. CASE t # s
    BY <2>0, <2>2, <1>3 DEF AskOK, RunOK, In, Here
  <2> QED BY <2>1, <2>2
<1>5. TaskTypeOK'
  BY <1>2 DEF TaskTypeOK, RecordTypes
<1> QED BY <1>1, <1>4, <1>5 DEF CallInv

-----------------------------------------------------------------------------
(* Calls begin, and the drive *)

LEMMA BeginStep ==
  ASSUME CallInv, NEW s \in Sessions,
         Start(s) \/ Create(s) \/ Resume(s) \/ Reload(s) \/ Begin(s)
  PROVE  CallInv'
<1> USE DEF In, Move
<1>t. /\ TaskTypeOK /\ RunOK(s) /\ run[s] \in Run /\ run \in [Sessions -> Run]
      /\ RecordTypes
  BY TaskTypes DEF CallInv
<1>1. UNCHANGED gwVars /\ UNCHANGED <<succeeded, executed, state, worldVars>>
      /\ created' \in {created, created + 1}
  BY DEF Start, Create, Resume, Reload, Begin, ledgerVars
<1>2. RecordTypes'
  BY <1>1, <1>t DEF RecordTypes, worldVars
<1>3. PICK R \in Run :
        /\ run' = [run EXCEPT ![s] = R]
        /\ R.op = "approve" => R.gate = run[s].gate /\ R.by = run[s].by /\ R.over = run[s].over
                               /\ run[s].op = "approve"
        /\ R.pc \in {"create", "begin", "reload", "drive"}
  <2>1. CASE Start(s)
    <3> DEFINE R == [IdleRun EXCEPT !.op = "start",
                       !.pc = IF created = 0 /\ Completed = {} THEN "create" ELSE "begin"]
    <3>1. R \in Run /\ R.op = "start" /\ R.pc \in {"create", "begin"}
      BY IdleRunType DEF Run, RunPCs, IdleRun
    <3> QED BY <2>1, <3>1 DEF Start
  <2>2. CASE Resume(s)
    <3> DEFINE R == [IdleRun EXCEPT !.pc = "reload"]
    <3>1. R \in Run /\ R.op = "resume" /\ R.pc = "reload"
      BY IdleRunType DEF Run, RunPCs, IdleRun
    <3> QED BY <2>2, <3>1 DEF Resume
  <2>3. CASE Create(s)
    <3> DEFINE R == [run[s] EXCEPT !.pc = "begin"]
    <3>1. R \in Run
      BY <1>t DEF Run, RunPCs
    <3> QED BY <2>3, <3>1, <1>t DEF Create, Run
  <2>4. CASE Reload(s)
    <3> DEFINE R == [run[s] EXCEPT !.pc = "begin", !.artifacts = succeeded]
    <3>1. R \in Run
      BY <1>t DEF Run, RunPCs, RecordTypes
    <3> QED BY <2>4, <3>1, <1>t DEF Reload, Run
  <2>5. CASE Begin(s)
    <3> DEFINE R == [run[s] EXCEPT !.pc = "drive", !.done = Completed, !.pos = 1]
    <3>0. Completed \in SUBSET Steps /\ 1 \in 1..(Len(Order) + 1)
      BY OrderType DEF Completed
    <3>1. R \in Run
      BY <1>t, <3>0 DEF Run, RunPCs
    <3> QED BY <2>5, <3>1, <1>t DEF Begin, Run
  <2> QED BY <2>1, <2>2, <2>3, <2>4, <2>5
<1>4. run'[s] = R /\ run' = [run EXCEPT ![s] = run'[s]]
  BY <1>3, <1>t
<1>5. RunOK(s)'
  BY <1>3, <1>4, <1>t DEF RunOK, Approving
<1>6. run[s].pc \notin Asking
  BY DEF Start, Create, Resume, Reload, Begin, Asking
<1>7. R.pc \notin Asking
  BY <1>3 DEF Asking
<1> QED BY <1>1, <1>2, <1>3, <1>4, <1>5, <1>6, <1>7, RunnerStep

LEMMA ApproveStep ==
  ASSUME CallInv, NEW s \in Sessions, NEW g \in Gates, NEW a \in Assertions,
         Approve(s, g, a[1], a[2])
  PROVE  CallInv'
<1>t. run \in [Sessions -> Run] /\ RecordTypes
  BY TaskTypes DEF CallInv
<1> DEFINE R == [IdleRun EXCEPT !.pc = "reload", !.op = "approve", !.gate = g,
                   !.by = a[1], !.over = a[2]]
<1>1. /\ run' = [run EXCEPT ![s] = R] /\ UNCHANGED <<gwVars, ledgerVars, worldVars>>
      /\ run[s].pc = "idle"
  BY DEF Approve, In
<1>2. a[1] \in Principals \cup {NoOne} /\ a[2] \in Challenges \cup {NoRound} /\ <<a[1], a[2]>> = a
  BY DEF Assertions
<1>3. /\ R \in Run /\ R.op = "approve" /\ R.gate = g /\ R.by = a[1] /\ R.over = a[2]
      /\ R.pc = "reload"
  BY <1>2, IdleRunType DEF Run, RunPCs
<1>4. run'[s] = R /\ run' = [run EXCEPT ![s] = run'[s]]
  BY <1>1, <1>t
<1> HIDE DEF R
<1>5. RunOK(s)'
  BY <1>2, <1>3, <1>4 DEF RunOK, Approving, In
<1>6. RecordTypes'
  BY <1>1, <1>t DEF RecordTypes, ledgerVars, worldVars
<1> QED BY <1>1, <1>3, <1>4, <1>5, <1>6, RunnerStep DEF Asking

\* Where the drive returns to.
LEMMA DriveReturnsTo ==
  ASSUME CallInv, NEW s \in Sessions, DriveReturns(s) \/ Leave(s)
  PROVE  /\ run' = [run EXCEPT ![s] = run'[s]] /\ run'[s] \in Run /\ RunOK(s)'
         /\ run'[s].pc \in {"idle", "submit"}
<1>t. run \in [Sessions -> Run] /\ RunOK(s)
  BY TaskTypes DEF CallInv
<1>1. CASE run' = [run EXCEPT ![s] = IdleRun]
  BY <1>1, <1>t, IdleRunType, IdleRunOK DEF IdleRun
<1>2. CASE run[s].op = "approve" /\ run' = [run EXCEPT ![s].pc = "submit"]
  <2>1. run'[s] = [run[s] EXCEPT !.pc = "submit"] /\ run' = [run EXCEPT ![s] = run'[s]]
    BY <1>2, <1>t
  <2>2. /\ run'[s] \in Run /\ run'[s].pc = "submit" /\ run'[s].op = "approve"
        /\ run'[s].gate = run[s].gate /\ run'[s].by = run[s].by /\ run'[s].over = run[s].over
    <3>1. "submit" \in RunPCs
      BY DEF RunPCs
    <3> QED BY <1>2, <1>t, <2>1, <3>1 DEF Run
  <2> QED BY <1>2, <1>t, <2>1, <2>2 DEF RunOK, Approving, In
<1> QED BY <1>1, <1>2 DEF DriveReturns, Leave, Move

LEMMA MoveType ==
  ASSUME NEW r \in Run, NEW pc \in RunPCs
  PROVE  /\ [r EXCEPT !.pc = pc] \in Run
         /\ [r EXCEPT !.pc = pc].pc = pc
         /\ [r EXCEPT !.pc = pc].op = r.op
         /\ [r EXCEPT !.pc = pc].gate = r.gate
         /\ [r EXCEPT !.pc = pc].by = r.by
         /\ [r EXCEPT !.pc = pc].over = r.over
         /\ [r EXCEPT !.pc = pc].pos = r.pos
         /\ [r EXCEPT !.pc = pc].done = r.done
         /\ [r EXCEPT !.pc = pc].artifacts = r.artifacts
         /\ [r EXCEPT !.pc = pc].intent = r.intent
BY DEF Run

\* A step that only takes the call to another place.
LEMMA MoveStep ==
  ASSUME CallInv, NEW s \in Sessions, NEW pc \in RunPCs \ Asking, Move(s, pc),
         run[s].pc \notin Asking, UNCHANGED gwVars, RecordTypes',
         pc \in Approving => run[s].pc \in Approving \ {"submit"},
         pc \in {"agents", "park"} => run[s].pos <= Len(Order),
         pc = "agents" => Here(s) \notin Gates
  PROVE  CallInv'
<1>t. run \in [Sessions -> Run] /\ RunOK(s)
  BY TaskTypes DEF CallInv
<1>1. run'[s] = [run[s] EXCEPT !.pc = pc] /\ run' = [run EXCEPT ![s] = run'[s]]
  BY <1>t DEF Move
<1>2. /\ run'[s] \in Run /\ run'[s].pc = pc /\ run'[s].op = run[s].op
      /\ run'[s].gate = run[s].gate /\ run'[s].by = run[s].by /\ run'[s].over = run[s].over
      /\ run'[s].pos = run[s].pos /\ run'[s].intent = run[s].intent
  BY <1>1, <1>t, MoveType
<1>3. RunOK(s)'
  BY <1>2, <1>t DEF RunOK, Approving, In, Here, Asking
<1> QED BY <1>1, <1>2, <1>3, RunnerStep

\* The step a drive is at.
LEMMA HereType ==
  ASSUME CallInv, NEW s \in Sessions, run[s].pos <= Len(Order)
  PROVE  Here(s) \in Steps /\ run[s].pos \in 1..Len(Order) /\ run[s].pos + 1 \in 1..(Len(Order) + 1)
<1>1. run[s].pos \in 1..(Len(Order) + 1)
  BY TaskTypes DEF CallInv, Run
<1>2. run[s].pos \in 1..Len(Order)
  BY <1>1, OrderType
<1> QED BY <1>1, <1>2, OrderType DEF Here

LEMMA SkipDoneStep ==
  ASSUME CallInv, NEW s \in Sessions, SkipDone(s)
  PROVE  CallInv'
<1> DEFINE n == Here(s)
           old == run[s].artifacts[n]
           new == IF old = NoArtifact THEN succeeded[n] ELSE old
           R == [run[s] EXCEPT !.pos = @ + 1,
                   !.artifacts = [run[s].artifacts EXCEPT ![n] = new]]
<1>t. run \in [Sessions -> Run] /\ RunOK(s) /\ RecordTypes
  BY TaskTypes DEF CallInv
<1>0. /\ run[s].pc = "drive" /\ run[s].pos <= Len(Order)
      /\ run' = [run EXCEPT ![s] = R]
      /\ UNCHANGED <<gwVars, ledgerVars, worldVars>>
  BY <1>t DEF SkipDone, Driving, In
<1>1. n \in Steps /\ run[s].pos + 1 \in 1..(Len(Order) + 1)
  BY <1>0, HereType
<1>2. new \in Recorded /\ run[s].artifacts \in [Steps -> Recorded]
  BY <1>1, <1>t DEF RecordTypes, Run
<1>3. [run[s].artifacts EXCEPT ![n] = new] \in [Steps -> Recorded]
  BY <1>1, <1>2
<1> HIDE DEF n, old, new
<1>4. /\ R \in Run /\ R.pc = run[s].pc /\ R.op = run[s].op /\ R.gate = run[s].gate
      /\ R.by = run[s].by /\ R.over = run[s].over
  BY <1>1, <1>3, <1>t DEF Run
<1>5. run'[s] = R /\ run' = [run EXCEPT ![s] = run'[s]]
  BY <1>0, <1>t
<1> HIDE DEF R
<1>6. RunOK(s)'
  BY <1>0, <1>4, <1>5, <1>t DEF RunOK, Approving, In
<1>7. RecordTypes'
  BY <1>0, <1>t DEF RecordTypes, ledgerVars, worldVars
<1> QED BY <1>0, <1>4, <1>5, <1>6, <1>7, RunnerStep DEF Asking

LEMMA BeginAgentsStep ==
  ASSUME CallInv, NEW s \in Sessions, BeginAgents(s)
  PROVE  CallInv'
<1>1. RecordTypes'
  BY TaskTypes DEF CallInv, BeginAgents, RecordTypes, ledgerVars, worldVars
<1>2. "agents" \in RunPCs \ Asking /\ "agents" \notin Approving /\ run[s].pc \notin Asking
  BY DEF BeginAgents, Driving, In, RunPCs, Asking, Approving
<1> QED BY <1>1, <1>2, MoveStep DEF BeginAgents, Driving

LEMMA CheckpointStep ==
  ASSUME CallInv, NEW s \in Sessions, NEW r \in Results, Checkpoint(s, r)
  PROVE  CallInv'
<1>t. run \in [Sessions -> Run] /\ RunOK(s) /\ RecordTypes
  BY TaskTypes DEF CallInv
<1>1. RecordTypes'
  BY <1>t DEF Checkpoint, RecordTypes, ledgerVars
<1>2. RunOK(s)' /\ run' = [run EXCEPT ![s] = run'[s]] /\ run'[s] \in Run /\ run'[s].pc = "agents"
  BY <1>t DEF Checkpoint, RunOK, In, Here
<1> QED BY <1>1, <1>2, RunnerStep DEF Checkpoint, Asking, In

LEMMA StepOkStep ==
  ASSUME CallInv, NEW s \in Sessions, NEW a \in Artifacts, StepOk(s, a)
  PROVE  CallInv'
<1> DEFINE n == Here(s)
           arts == [run[s].artifacts EXCEPT ![n] = a]
           dn == run[s].done \cup {n}
           pos == run[s].pos + 1
           R == [run[s] EXCEPT !.pc = "drive", !.artifacts = arts, !.done = dn, !.pos = pos]
<1>t. run \in [Sessions -> Run] /\ RunOK(s) /\ RecordTypes
  BY TaskTypes DEF CallInv
<1>0. /\ run[s].pc = "agents" /\ run[s].pos <= Len(Order)
      /\ run' = [run EXCEPT ![s] = R]
      /\ succeeded' = [succeeded EXCEPT ![n] = a]
      /\ UNCHANGED <<gwVars, created, executed, state, worldVars>>
  BY <1>t DEF StepOk, In, RunOK
<1>1. n \in Steps /\ pos \in 1..(Len(Order) + 1)
  BY <1>0, HereType
<1>2. a \in Recorded
  BY DEF Recorded
<1>3. arts \in [Steps -> Recorded] /\ dn \in SUBSET Steps
  <2>1. run[s].artifacts \in [Steps -> Recorded] /\ run[s].done \in SUBSET Steps
    BY <1>t DEF Run
  <2> QED BY <1>1, <1>2, <2>1
<1> HIDE DEF n, arts, dn, pos
<1>4. /\ R \in Run /\ R.pc = "drive" /\ R.op = run[s].op /\ R.gate = run[s].gate
      /\ R.by = run[s].by /\ R.over = run[s].over
  <2>1. run[s] \in Run
    BY <1>t
  <2> HIDE DEF R
  <2>2. R = [run[s] EXCEPT !.pc = "drive", !.artifacts = arts, !.done = dn, !.pos = pos]
    BY DEF R
  <2> DEFINE r == run[s]
  <2> HIDE DEF r
  <2>3. r \in Run /\ R = [r EXCEPT !.pc = "drive", !.artifacts = arts, !.done = dn, !.pos = pos]
    BY <2>1, <2>2 DEF r
  <2>4. /\ R \in Run /\ R.pc = "drive" /\ R.op = r.op /\ R.gate = r.gate
        /\ R.by = r.by /\ R.over = r.over
    BY <1>1, <1>3, <2>3 DEF Run, RunPCs
  <2> QED BY <2>4 DEF r
<1>5. run'[s] = R /\ run' = [run EXCEPT ![s] = run'[s]]
  BY <1>0, <1>t
<1> HIDE DEF R
<1>6. RunOK(s)'
  BY <1>0, <1>4, <1>5, <1>t DEF RunOK, Approving, In
<1>7. RecordTypes'
  BY <1>0, <1>1, <1>2, <1>t DEF RecordTypes, worldVars
<1> QED BY <1>0, <1>4, <1>5, <1>6, <1>7, RunnerStep DEF Asking

\* Steps after which the drive, or the whole call, returns.
LEMMA ReturnStep ==
  ASSUME CallInv, NEW s \in Sessions,
         StepDeferred(s) \/ StepError(s) \/ StepUnverified(s) \/ Park(s) \/ Finish(s)
  PROVE  CallInv'
<1>t. RecordTypes
  BY TaskTypes DEF CallInv
<1>1. /\ run[s].pc \in {"agents", "park", "drive"}
      /\ DriveReturns(s) \/ Leave(s)
      /\ state' \in States /\ UNCHANGED <<gwVars, created, succeeded, executed, worldVars>>
  BY DEF StepDeferred, StepError, StepUnverified, Park, Finish, In, States
<1>2. RecordTypes'
  BY <1>1, <1>t DEF RecordTypes, worldVars
<1>3. /\ run' = [run EXCEPT ![s] = run'[s]] /\ run'[s] \in Run /\ RunOK(s)'
      /\ run'[s].pc \notin Asking /\ run[s].pc \notin Asking
  BY <1>1, DriveReturnsTo DEF Asking
<1> QED BY <1>1, <1>2, <1>3, RunnerStep

-----------------------------------------------------------------------------
(* The executor, the settlement and failures *)

LEMMA ExecutorStep ==
  ASSUME CallInv, NEW s \in Sessions, Execute(s) \/ Effect(s) \/ Receipt(s)
  PROVE  CallInv'
<1>t. RunOK(s) /\ RecordTypes
  BY TaskTypes DEF CallInv
<1>1. run[s].intent \in Intents /\ run[s].pc \in {"execute", "effect", "receipt"}
      /\ UNCHANGED gwVars
  BY <1>t DEF Execute, Effect, Receipt, In, RunOK, Approving
<1>2. RecordTypes'
  BY <1>t, <1>1 DEF Execute, Effect, Receipt, RecordTypes, worldVars, ledgerVars, States
<1>3. CASE Leave(s)
  BY <1>1, <1>2, <1>3, DriveReturnsTo, RunnerStep DEF Asking
<1>4. CASE \E pc \in {"settle", "effect", "receipt"} : Move(s, pc)
  <2>1. PICK pc \in {"settle", "effect", "receipt"} : Move(s, pc)
    BY <1>4
  <2>2. pc \in RunPCs \ Asking /\ run[s].pc \notin Asking /\ run[s].pc \in Approving \ {"submit"}
    BY <1>1 DEF RunPCs, Asking, Approving
  <2> QED BY <1>1, <1>2, <2>1, <2>2, MoveStep
<1> QED BY <1>3, <1>4 DEF Execute, Effect, Receipt

LEMMA SettleStep ==
  ASSUME CallInv, NEW s \in Sessions, Settle(s)
  PROVE  CallInv'
<1> DEFINE R == [IdleRun EXCEPT !.pc = "reload"]
<1>t. run \in [Sessions -> Run] /\ RunOK(s) /\ RecordTypes
  BY TaskTypes DEF CallInv
<1>1. /\ run' = [run EXCEPT ![s] = R] /\ run[s].pc = "settle" /\ run[s].gate \in Steps
      /\ UNCHANGED <<gwVars, created, executed, state, worldVars>>
      /\ succeeded' = [succeeded EXCEPT ![run[s].gate] = Authorized]
  BY <1>t DEF Settle, In, RunOK, Approving, Gates
<1>2. R \in Run /\ R.pc = "reload" /\ R.op = "resume"
  BY IdleRunType DEF Run, RunPCs, IdleRun
<1> HIDE DEF R
<1>3. run'[s] = R /\ run' = [run EXCEPT ![s] = run'[s]]
  BY <1>1, <1>t
<1>4. RunOK(s)'
  BY <1>2, <1>3 DEF RunOK, Approving, In
<1>5. RecordTypes'
  BY <1>1, <1>t DEF RecordTypes, worldVars, Recorded
<1> QED BY <1>1, <1>2, <1>3, <1>4, <1>5, RunnerStep DEF Asking

LEMMA RaiseStep ==
  ASSUME CallInv, NEW s \in Sessions, Raise(s)
  PROVE  CallInv'
<1>t. RunOK(s) /\ RecordTypes
  BY TaskTypes DEF CallInv
<1>1. /\ Leave(s) /\ run[s].pc \in {"agents", "effect", "receipt"}
      /\ UNCHANGED <<gwVars, ledgerVars, memo, effects, crashes>>
      /\ \/ UNCHANGED cut
         \/ run[s].pc = "receipt" /\ cut' = [cut EXCEPT ![run[s].intent] = @ + 1]
  BY DEF Raise, In, worldVars
<1>2. run[s].pc = "receipt" => run[s].intent \in Intents
  BY <1>t DEF RunOK, Approving
<1>3. RecordTypes'
  BY <1>1, <1>2, <1>t DEF RecordTypes, ledgerVars
<1> QED BY <1>1, <1>3, DriveReturnsTo, RunnerStep DEF Asking

-----------------------------------------------------------------------------
(* Steps of the gateway *)

LEMMA GatewayRunnerStep ==
  ASSUME CallInv, NEW s \in Sessions, [GatewayNext]_gwVars, Alone(s), RecordTypes',
         run' = [run EXCEPT ![s] = run'[s]], run'[s] \in Run, RunOK(s)', AskOK(s)'
  PROVE  CallInv'
<1>1. IInv'
  BY NextIInv DEF CallInv
<1>2. run' \in [Sessions -> Run]
  BY TaskTypes DEF CallInv
<1>3. \A t \in Sessions : t # s => run'[t] = run[t] /\ sess'[t] = sess[t]
  BY TaskTypes DEF CallInv, IInv, TypeOK, Alone
<1>4. \A t \in Sessions : RunOK(t)' /\ AskOK(t)'
  <2> SUFFICES ASSUME NEW t \in Sessions, t # s PROVE RunOK(t)' /\ AskOK(t)'
    OBVIOUS
  <2> QED BY <1>3 DEF CallInv, AskOK, RunOK, In, Here
<1>5. TaskTypeOK'
  BY <1>2 DEF TaskTypeOK, RecordTypes
<1> QED BY <1>1, <1>4, <1>5 DEF CallInv

LEMMA RecordsUnchanged ==
  ASSUME RecordTypes, UNCHANGED <<ledgerVars, worldVars>>
  PROVE  RecordTypes'
BY DEF RecordTypes, ledgerVars, worldVars

\* What a runner's call becomes when it only moves.
LEMMA Moved ==
  ASSUME CallInv, NEW s \in Sessions, NEW pc \in RunPCs, Move(s, pc)
  PROVE  /\ run' = [run EXCEPT ![s] = run'[s]] /\ run'[s] \in Run /\ run'[s].pc = pc
         /\ run'[s].op = run[s].op /\ run'[s].gate = run[s].gate /\ run'[s].by = run[s].by
         /\ run'[s].over = run[s].over /\ run'[s].pos = run[s].pos
         /\ run'[s].intent = run[s].intent /\ run'[s].done = run[s].done
         /\ run'[s].artifacts = run[s].artifacts
<1>t. run \in [Sessions -> Run]
  BY TaskTypes DEF CallInv
<1>1. run'[s] = [run[s] EXCEPT !.pc = pc] /\ run' = [run EXCEPT ![s] = run'[s]]
  BY <1>t DEF Move
<1> QED BY <1>1, <1>t, MoveType

LEMMA DecideGateStep ==
  ASSUME CallInv, NEW s \in Sessions, DecideGate(s)
  PROVE  CallInv' /\ [GatewayNext]_gwVars
<1> DEFINE i == GateIntent(Here(s), run[s].artifacts)
           pc == IF sess'[s].pc = "idle" THEN "park" ELSE "decide"
<1>t. run \in [Sessions -> Run] /\ RunOK(s) /\ RecordTypes /\ TypeOK /\ SessionOK(s)
  BY TaskTypes DEF CallInv, IInv
<1>1. /\ Decide(s, i) /\ Move(s, pc) /\ Here(s) \in Gates /\ run[s].pc = "drive"
      /\ run[s].pos <= Len(Order) /\ UNCHANGED <<ledgerVars, worldVars>>
  BY DEF DecideGate, Driving, In
<1>2. run[s].artifacts \in [Steps -> Recorded]
  BY <1>t DEF Run
<1>3. i \in Intents
  BY <1>1, <1>2, GateIntentType
<1> HIDE DEF i
<1>4. GatewayNext
  BY <1>1, <1>3 DEF GatewayNext
<1>5. Alone(s) /\ sess'[s].op = "decide"
  <2>1. PICK S : sess' = [sess EXCEPT ![s] = S] /\ S.op = "decide"
    <3>1. IdleSession.op = "decide"
      BY DEF IdleSession
    <3>2. \A c : [IdleSession EXCEPT !.intent = i, !.pc = c].op = "decide"
      BY DEF IdleSession
    <3> QED BY <1>1, <3>1, <3>2 DEF Decide, Return
  <2> QED BY <2>1, <1>t DEF Alone, TypeOK
<1>6. pc \in RunPCs
  BY DEF RunPCs
<1>7. /\ run' = [run EXCEPT ![s] = run'[s]] /\ run'[s] \in Run /\ run'[s].pc = pc
      /\ run'[s].op = run[s].op /\ run'[s].gate = run[s].gate /\ run'[s].by = run[s].by
      /\ run'[s].over = run[s].over /\ run'[s].pos = run[s].pos
  BY <1>1, <1>6, Moved
<1>8. RunOK(s)'
  BY <1>1, <1>7, <1>t DEF RunOK, Approving, In
<1>9. AskOK(s)'
  BY <1>5, <1>7 DEF AskOK, Asking, In
<1> QED BY <1>1, <1>4, <1>5, <1>7, <1>8, <1>9, <1>t, RecordsUnchanged, GatewayRunnerStep

LEMMA SubmitGateStep ==
  ASSUME CallInv, NEW s \in Sessions, SubmitGate(s)
  PROVE  CallInv' /\ [GatewayNext]_gwVars
<1> DEFINE g == run[s].gate
           i == GateIntent(g, run[s].artifacts)
           a == <<run[s].by, run[s].over>>
           R == [run[s] EXCEPT !.pc = "approve", !.intent = i]
<1>t. run \in [Sessions -> Run] /\ RunOK(s) /\ RecordTypes /\ TypeOK /\ SessionOK(s)
  BY TaskTypes DEF CallInv, IInv
<1>1. /\ Submit(s, i, a[1], a[2]) /\ run[s].pc = "submit" /\ UNCHANGED <<ledgerVars, worldVars>>
      /\ run' = [run EXCEPT ![s] = IF sess'[s].pc = "idle" THEN IdleRun ELSE R]
  BY <1>t DEF SubmitGate, In
<1>2. run[s].artifacts \in [Steps -> Recorded] /\ run[s] \in Run
  BY <1>t DEF Run
<1>3. g \in Gates /\ a \in Assertions /\ run[s].op = "approve"
  BY <1>1, <1>t DEF RunOK, Approving
<1>4. i \in Intents /\ GateOf(i) = g
  BY <1>2, <1>3, GateIntentType
<1>5. /\ R \in Run /\ R.pc = "approve" /\ R.op = run[s].op /\ R.gate = run[s].gate
      /\ R.by = run[s].by /\ R.over = run[s].over /\ R.intent = i
  <2> DEFINE r == run[s]
  <2> HIDE DEF i, r
  <2>1. r \in Run /\ R = [r EXCEPT !.pc = "approve", !.intent = i]
    BY <1>2 DEF r
  <2> HIDE DEF R
  <2>2. /\ R \in Run /\ R.pc = "approve" /\ R.op = r.op /\ R.gate = r.gate
        /\ R.by = r.by /\ R.over = r.over /\ R.intent = i
    BY <1>4, <2>1 DEF Run, RunPCs
  <2> QED BY <2>2 DEF r
<1> HIDE DEF i, R
<1>6. GatewayNext
  BY <1>1, <1>3, <1>4 DEF GatewayNext
<1>7. /\ Alone(s)
      /\ \/ sess'[s].pc = "idle"
         \/ sess'[s].pc = "get" /\ sess'[s].op = "submit" /\ sess'[s].intent = i
  <2> DEFINE S == [IdleSession EXCEPT !.pc = "get", !.op = "submit",
                     !.intent = i, !.by = a[1], !.over = a[2]]
  <2>1. S.pc = "get" /\ S.op = "submit" /\ S.intent = i /\ IdleSession.pc = "idle"
    BY DEF IdleSession
  <2>2. sess' = [sess EXCEPT ![s] = S] \/ sess' = [sess EXCEPT ![s] = IdleSession]
    BY <1>1 DEF Submit, Return
  <2> HIDE DEF S
  <2> QED BY <1>t, <2>1, <2>2 DEF Alone, TypeOK
<1>8. CASE sess'[s].pc = "idle"
  <2>1. run'[s] = IdleRun /\ run' = [run EXCEPT ![s] = run'[s]]
    BY <1>1, <1>8, <1>t
  <2>2. AskOK(s)'
    BY <1>8, <2>1 DEF AskOK, Asking, In, IdleRun
  <2> QED BY <1>1, <1>6, <1>7, <1>t, <2>1, <2>2, IdleRunType, IdleRunOK, RecordsUnchanged,
             GatewayRunnerStep
<1>9. CASE sess'[s].pc = "get" /\ sess'[s].op = "submit" /\ sess'[s].intent = i
  <2>1. run'[s] = R /\ run' = [run EXCEPT ![s] = run'[s]]
    BY <1>1, <1>9, <1>t
  <2>2. RunOK(s)'
    BY <1>3, <1>4, <1>5, <2>1 DEF RunOK, Approving, In
  <2>3. AskOK(s)'
    BY <1>5, <1>9, <2>1 DEF AskOK, Asking, In
  <2> QED BY <1>1, <1>5, <1>6, <1>7, <1>t, <2>1, <2>2, <2>3, RecordsUnchanged, GatewayRunnerStep
<1> QED BY <1>7, <1>8, <1>9

\* A call under way keeps its operation and its intent until it returns.
LEMMA GatewayStepKeeps ==
  ASSUME TypeOK, NEW s \in Sessions, SessionOK(s), GatewayStep(s)
  PROVE  /\ Alone(s) /\ sess[s].pc # "idle"
         /\ sess'[s].pc # "idle" =>
              sess'[s].op = sess[s].op /\ sess'[s].intent = sess[s].intent
<1> USE DEF At
<1>1. sess[s].pc # "idle"
  BY DEF GatewayStep, CountCalls, BumpCalls, OpenRead, OpenWrite, Lookup, Check, Drop,
     AddApprover, Tally, RetireRound, Mint
<1>2. CASE Check(s)
  <2>1. sess[s].op = "submit"
    BY <1>2 DEF Check, SessionOK, SubmitPCs
  <2>2. \/ \E pc : Goto(s, pc)
        \/ Return(s)
        \/ sess' = [sess EXCEPT ![s] = [IdleSession EXCEPT !.pc = "add", !.op = "submit",
                                          !.intent = sess[s].intent, !.by = sess[s].by]]
    BY <1>2 DEF Check
  <2> DEFINE S == [IdleSession EXCEPT !.pc = "add", !.op = "submit",
                     !.intent = sess[s].intent, !.by = sess[s].by]
  <2>3. S.op = "submit" /\ S.intent = sess[s].intent /\ IdleSession.pc = "idle"
    BY DEF IdleSession
  <2>4. \/ \E pc : sess' = [sess EXCEPT ![s].pc = pc]
        \/ sess' = [sess EXCEPT ![s] = IdleSession]
        \/ sess' = [sess EXCEPT ![s] = S]
    BY <2>2 DEF Goto, Return
  <2> HIDE DEF S
  <2> QED BY <1>1, <2>1, <2>3, <2>4 DEF TypeOK, Session, Alone
<1>3. CASE ~Check(s)
  <2>0. IdleSession.pc = "idle" /\ sess[s] \in Session /\ sess \in [Sessions -> Session]
    BY DEF IdleSession, TypeOK
  <2>1. CASE Return(s)
    BY <1>1, <2>0, <2>1 DEF Return, Alone
  <2>2. CASE \E pc : Goto(s, pc)
    BY <1>1, <2>0, <2>2 DEF Goto, Alone, Session
  <2>3. CASE CountCalls(s)
    BY <1>1, <2>0, <2>3 DEF CountCalls, Alone, Session
  <2>4. CASE Lookup(s)
    BY <1>1, <2>0, <2>2, <2>4 DEF Lookup, Alone, Session
  <2>5. CASE AddApprover(s)
    BY <1>1, <2>0, <2>5 DEF AddApprover, Alone, Session
  <2>6. CASE Tally(s)
    BY <1>1, <2>0, <2>1, <2>6 DEF Tally, Alone, Session
  <2>7. CASE OpenRead(s) \/ OpenWrite(s)
    BY <2>1, <2>2, <2>7 DEF OpenRead, OpenWrite, Opened
  <2>8. CASE BumpCalls(s) \/ Drop(s) \/ RetireRound(s) \/ Mint(s)
    BY <2>1, <2>2, <2>8 DEF BumpCalls, Drop, RetireRound, Mint
  <2> QED BY <1>3, <2>3, <2>4, <2>5, <2>6, <2>7, <2>8 DEF GatewayStep
<1> QED BY <1>2, <1>3

LEMMA InGatewayStep ==
  ASSUME CallInv, NEW s \in Sessions, InGateway(s)
  PROVE  CallInv' /\ [GatewayNext]_gwVars
<1>t. /\ run \in [Sessions -> Run] /\ RunOK(s) /\ AskOK(s) /\ RecordTypes
      /\ TypeOK /\ SessionOK(s)
  BY TaskTypes DEF CallInv, IInv
<1>1. GatewayNext /\ UNCHANGED <<ledgerVars, worldVars>>
  BY DEF InGateway, GatewayNext
<1>2. /\ Alone(s) /\ run[s].pc \in Asking
      /\ sess'[s].pc # "idle" => sess'[s].op = sess[s].op /\ sess'[s].intent = sess[s].intent
  BY <1>t, GatewayStepKeeps DEF InGateway, AskOK
<1>3. RecordTypes'
  BY <1>1, <1>t, RecordsUnchanged
<1>4. CASE sess'[s].pc # "idle"
  <2>1. run' = run
    BY <1>4 DEF InGateway
  <2>2. run'[s] = run[s] /\ run' = [run EXCEPT ![s] = run'[s]]
    BY <1>t, <2>1
  <2>3. RunOK(s)' /\ AskOK(s)'
    BY <1>2, <1>4, <1>t, <2>2 DEF RunOK, AskOK, In, Here
  <2> QED BY <1>1, <1>2, <1>3, <1>t, <2>2, <2>3, GatewayRunnerStep
<1>5. CASE sess'[s].pc = "idle" /\ In(s, "decide")
  <2>1. Move(s, "park") /\ "park" \in RunPCs
    BY <1>5 DEF InGateway, RunPCs
  <2>2. /\ run' = [run EXCEPT ![s] = run'[s]] /\ run'[s] \in Run /\ run'[s].pc = "park"
        /\ run'[s].op = run[s].op /\ run'[s].gate = run[s].gate /\ run'[s].by = run[s].by
        /\ run'[s].over = run[s].over /\ run'[s].pos = run[s].pos
    BY <2>1, Moved
  <2>3. RunOK(s)'
    BY <1>5, <1>t, <2>2 DEF RunOK, Approving, In
  <2>4. AskOK(s)'
    BY <1>5, <2>2 DEF AskOK, Asking, In
  <2> QED BY <1>1, <1>2, <1>3, <1>t, <2>2, <2>3, <2>4, GatewayRunnerStep
<1>6. CASE sess'[s].pc = "idle" /\ ~In(s, "decide") /\ At(s, "mint")
  <2>1. Move(s, "execute") /\ "execute" \in RunPCs /\ run[s].pc = "approve"
    BY <1>2, <1>6 DEF InGateway, RunPCs, In, Asking
  <2>2. /\ run' = [run EXCEPT ![s] = run'[s]] /\ run'[s] \in Run /\ run'[s].pc = "execute"
        /\ run'[s].op = run[s].op /\ run'[s].gate = run[s].gate /\ run'[s].by = run[s].by
        /\ run'[s].over = run[s].over /\ run'[s].intent = run[s].intent
    BY <2>1, Moved
  <2>3. RunOK(s)'
    BY <1>t, <2>1, <2>2 DEF RunOK, Approving, In
  <2>4. AskOK(s)'
    BY <1>6, <2>2 DEF AskOK, Asking, In
  <2> QED BY <1>1, <1>2, <1>3, <1>t, <2>2, <2>3, <2>4, GatewayRunnerStep
<1>7. CASE sess'[s].pc = "idle" /\ ~In(s, "decide") /\ ~At(s, "mint")
  <2>1. Leave(s)
    BY <1>7 DEF InGateway
  <2>2. run'[s] = IdleRun /\ run' = [run EXCEPT ![s] = run'[s]]
    BY <1>t, <2>1 DEF Leave
  <2>3. AskOK(s)'
    BY <1>7, <2>2 DEF AskOK, Asking, In, IdleRun
  <2> QED BY <1>1, <1>2, <1>3, <1>t, <2>2, <2>3, IdleRunType, IdleRunOK, GatewayRunnerStep
<1> QED BY <1>4, <1>5, <1>6, <1>7

LEMMA TaskExpireStep ==
  ASSUME CallInv, NEW c \in Challenges, Expire(c), UNCHANGED taskVars
  PROVE  CallInv' /\ [GatewayNext]_gwVars
<1>1. GatewayNext
  BY DEF GatewayNext
<1>2. IInv'
  BY <1>1, NextIInv DEF CallInv
<1>3. TaskTypeOK'
  BY DEF CallInv, TaskTypeOK, taskVars
<1>4. \A s \in Sessions : RunOK(s)' /\ AskOK(s)'
  BY DEF CallInv, taskVars, Expire, RunOK, AskOK, In, Here
<1> QED BY <1>1, <1>2, <1>3, <1>4 DEF CallInv

\* The sessions in a set are finitely many.
LEMMA SessionsCount ==
  ASSUME NEW S \in SUBSET Sessions
  PROVE  IsFiniteSet(S) /\ Cardinality(S) \in Nat
BY FS_Subset, FS_CardinalityType, TaskAssumption

LEMMA TaskCrashStep ==
  ASSUME CallInv, NEW r \in Replicas, Crash(r)
  PROVE  CallInv' /\ [GatewayNext]_gwVars
<1>t. run \in [Sessions -> Run] /\ RecordTypes /\ TypeOK
  BY TaskTypes DEF CallInv, IInv
<1>1. GatewayNext
  BY DEF Crash, GatewayNext
<1>2. IInv'
  BY <1>1, NextIInv DEF CallInv
<1>3. /\ run' = [s \in Sessions |-> IF Home[s] = r THEN IdleRun ELSE run[s]]
      /\ sess' = [s \in Sessions |-> IF Home[s] = r THEN IdleSession ELSE sess[s]]
      /\ UNCHANGED <<ledgerVars, memo, effects>> /\ crashes' = crashes + 1
  BY DEF Crash, GatewayCrash
<1>4. cut' \in [Intents -> Nat]
  <2> DEFINE C(i) == {s \in Sessions : Home[s] = r /\ In(s, "receipt") /\ run[s].intent = i}
  <2>1. \A i \in Intents : Cardinality(C(i)) \in Nat
    BY SessionsCount
  <2>2. cut' = [i \in Intents |-> cut[i] + Cardinality(C(i))]
    BY DEF Crash
  <2> HIDE DEF C
  <2> QED BY <1>t, <2>1, <2>2 DEF RecordTypes
<1>5. TaskTypeOK'
  BY <1>t, <1>3, <1>4, IdleRunType DEF TaskTypeOK, RecordTypes, ledgerVars
<1>6. ASSUME NEW s \in Sessions PROVE RunOK(s)' /\ AskOK(s)'
  <2>1. CASE Home[s] = r
    <3>1. run'[s] = IdleRun /\ sess'[s] = IdleSession
      BY <1>3, <2>1
    <3> QED BY <3>1, IdleRunOK DEF AskOK, IdleRun, IdleSession, In, Asking
  <2>2. CASE Home[s] # r
    <3>1. run'[s] = run[s] /\ sess'[s] = sess[s]
      BY <1>3, <2>2
    <3> QED BY <3>1 DEF CallInv, RunOK, AskOK, In, Here
  <2> QED BY <2>1, <2>2
<1> QED BY <1>1, <1>2, <1>5, <1>6 DEF CallInv

-----------------------------------------------------------------------------
(* Every step *)

LEMMA CallStep ==
  ASSUME CallInv, TaskNext
  PROVE  CallInv' /\ [GatewayNext]_gwVars
<1>1. ASSUME NEW s \in Sessions, Start(s) \/ Resume(s) PROVE CallInv' /\ [GatewayNext]_gwVars
  BY <1>1, BeginStep DEF Start, Resume
<1>2. ASSUME NEW s \in Sessions, NEW g \in Gates, NEW a \in Assertions, Approve(s, g, a[1], a[2])
      PROVE  CallInv' /\ [GatewayNext]_gwVars
  BY <1>2, ApproveStep DEF Approve
<1>3. ASSUME NEW s \in Sessions, RunStep(s) PROVE CallInv' /\ [GatewayNext]_gwVars
  <2>1. CASE DecideGate(s) \/ SubmitGate(s) \/ InGateway(s)
    BY <2>1, DecideGateStep, SubmitGateStep, InGatewayStep
  <2>2. CASE Create(s) \/ Reload(s) \/ Begin(s)
    BY <2>2, BeginStep DEF Create, Reload, Begin
  <2>3. CASE SkipDone(s) \/ BeginAgents(s)
    BY <2>3, SkipDoneStep, BeginAgentsStep DEF SkipDone, BeginAgents
  <2>4. CASE (\E r \in Results : Checkpoint(s, r)) \/ \E a \in Artifacts : StepOk(s, a)
    BY <2>4, CheckpointStep, StepOkStep DEF Checkpoint, StepOk
  <2>5. CASE Park(s) \/ Finish(s)
    BY <2>5, ReturnStep DEF Park, Finish
  <2>6. CASE Execute(s) \/ Effect(s) \/ Receipt(s)
    BY <2>6, ExecutorStep DEF Execute, Effect, Receipt
  <2>7. CASE Settle(s)
    BY <2>7, SettleStep DEF Settle
  <2> QED BY <1>3, <2>1, <2>2, <2>3, <2>4, <2>5, <2>6, <2>7 DEF RunStep
<1>4. ASSUME NEW s \in Sessions, StepDeferred(s) \/ StepError(s) \/ StepUnverified(s) \/ Raise(s)
      PROVE  CallInv' /\ [GatewayNext]_gwVars
  BY <1>4, ReturnStep, RaiseStep DEF StepDeferred, StepError, StepUnverified, Raise
<1>5. ASSUME NEW c \in Challenges, Expire(c), UNCHANGED taskVars
      PROVE  CallInv' /\ [GatewayNext]_gwVars
  BY <1>5, TaskExpireStep
<1>6. ASSUME NEW r \in Replicas, Crash(r) PROVE CallInv' /\ [GatewayNext]_gwVars
  BY <1>6, TaskCrashStep
<1> QED BY <1>1, <1>2, <1>3, <1>4, <1>5, <1>6 DEF TaskNext

LEMMA CallStutter ==
  ASSUME CallInv, UNCHANGED allVars
  PROVE  CallInv'
<1> USE DEF allVars, taskVars
<1>1. IInv'
  BY NextIInv DEF CallInv
<1>2. TaskTypeOK'
  BY DEF CallInv, TaskTypeOK
<1>3. \A s \in Sessions : RunOK(s)' /\ AskOK(s)'
  BY DEF CallInv, RunOK, AskOK, In, Here, gwVars
<1> QED BY <1>1, <1>2, <1>3 DEF CallInv

LEMMA CallNext == CallInv /\ [TaskNext]_allVars => CallInv'
BY CallStep, CallStutter

LEMMA CallAlways == TaskSpec => []CallInv
BY CallInit, CallNext, PTL DEF TaskSpec

\* The task's state keeps its types.
THEOREM TaskTypeCorrect == TaskSpec => []TaskTypeOK
BY CallAlways, PTL DEF CallInv

\* A runner uses the gateway only as the gateway allows: what module Gateway says of
\* a gateway whose callers do as they please holds of the one inside the runner.
THEOREM RunnerUsesGateway == TaskSpec => GatewaySpec
<1>1. TaskInit => GatewayInit
  BY DEF TaskInit
<1>2. CallInv /\ [TaskNext]_allVars => [GatewayNext]_gwVars
  BY CallStep DEF allVars
<1> QED BY <1>1, <1>2, CallAlways, PTL DEF TaskSpec, GatewaySpec

\* So no gate is authorized short of its policy's quorum of distinct, eligible,
\* verified approvers, whatever calls of the runner are going on.
THEOREM TaskQuorumSafety == TaskSpec => []GrantedByQuorum
BY RunnerUsesGateway, QuorumSafety, PTL

-----------------------------------------------------------------------------
(* The drive: what a call has passed, and what succeeded *)

\* No step is listed twice.
LEMMA OrderInjective ==
  ASSUME NEW j \in 1..Len(Order), NEW k \in 1..Len(Order), Order[j] = Order[k]
  PROVE  j = k
<1> DEFINE f == [x \in 1..Len(Order) |-> Order[x]]
<1>1. f \in [1..Len(Order) -> Steps]
  BY OrderType
<1>2. f \in Surjection(1..Len(Order), Steps)
  BY <1>1, TaskAssumption DEF Surjection
<1>3. IsFiniteSet(1..Len(Order)) /\ Cardinality(1..Len(Order)) = Len(Order)
  <2>1. \A n \in Nat : Cardinality(1..n) = IF 1 > n THEN 0 ELSE n - 1 + 1
    BY FS_Interval
  <2>2. \A n \in Nat : (IF 1 > n THEN 0 ELSE n - 1 + 1) = n
    OBVIOUS
  <2>3. IsFiniteSet(1..Len(Order))
    BY OrderType, FS_Interval
  <2> QED BY <2>1, <2>2, <2>3, OrderType
<1>4. f \in Injection(1..Len(Order), Steps)
  BY <1>2, <1>3, TaskAssumption, FS_SurjSameCardinalityImpliesInj
<1> HIDE DEF f
<1>5. \A x, y \in 1..Len(Order) : f[x] = f[y] => x = y
  BY <1>1, <1>4 DEF Injection, IsInjective
<1>6. f[j] = f[k]
  BY DEF f
<1> QED BY <1>5, <1>6

\* Every step a call has passed was completed when it passed it.
DriveOK(s) ==
  /\ run[s].done \subseteq Completed
  /\ \A k \in 1..(run[s].pos - 1) : Order[k] \in run[s].done

DriveInv == SucceededMeansAll /\ \A s \in Sessions : DriveOK(s)

\* A call keeps its place in the order, or starts afresh; it keeps its artifacts, forgets
\* them or takes the ledger's.
PlaceKept(s) ==
  /\ \/ run'[s].done = run[s].done /\ run'[s].pos = run[s].pos
     \/ run'[s].done = {} /\ run'[s].pos = 1
  /\ run'[s].artifacts \in {run[s].artifacts, NoArtifacts, succeeded}

LEMMA PlaceKeptOK ==
  ASSUME NEW s \in Sessions, DriveOK(s), PlaceKept(s), Completed \subseteq Completed'
  PROVE  DriveOK(s)'
BY DEF DriveOK, PlaceKept

\* Only Begin, SkipDone and StepOk take a call on, and only StepOk and Settle record
\* a step, each its own call's.
DriveMoves(s) == Begin(s) \/ SkipDone(s) \/ \E a \in Artifacts : StepOk(s, a)

LEMMA RunTypeOf == ASSUME CallInv PROVE run \in [Sessions -> Run]
BY TaskTypes DEF CallInv

LEMMA AlonePlace ==
  ASSUME CallInv, NEW s \in Sessions, PlaceKept(s),
         \A t \in Sessions : t # s => run'[t] = run[t]
  PROVE  \A t \in Sessions : PlaceKept(t)
BY DEF PlaceKept

LEMMA IdlePlace == IdleRun.done = {} /\ IdleRun.pos = 1 /\ IdleRun.artifacts = NoArtifacts
BY DEF IdleRun

LEMMA MovesPlace ==
  ASSUME CallInv, NEW s \in Sessions,
         \/ Leave(s)
         \/ \E pc \in RunPCs : Move(s, pc)
         \/ DriveReturns(s)
         \/ run' = run
  PROVE  \A t \in Sessions : PlaceKept(t)
<1>t. run \in [Sessions -> Run]
  BY RunTypeOf
<1>1. CASE Leave(s)
  BY <1>1, <1>t, IdlePlace DEF Leave, PlaceKept
<1>2. ASSUME NEW pc \in RunPCs, Move(s, pc) PROVE \A t \in Sessions : PlaceKept(t)
  <2>1. \A t \in Sessions : t # s => run'[t] = run[t]
    BY <1>2, <1>t DEF Move
  <2>2. PlaceKept(s)
    BY <1>2, Moved DEF PlaceKept
  <2> QED BY <2>1, <2>2, AlonePlace
<1>3. "submit" \in RunPCs
  BY DEF RunPCs
<1>4. CASE run' = run
  BY <1>4 DEF PlaceKept
<1>5. DriveReturns(s) => Leave(s) \/ Move(s, "submit")
  BY DEF DriveReturns
<1> QED BY <1>1, <1>2, <1>3, <1>4, <1>5

LEMMA PlaceStep ==
  ASSUME CallInv, TaskNext
  PROVE  (\E s \in Sessions : DriveMoves(s)) \/ \A t \in Sessions : PlaceKept(t)
<1> DEFINE Kept1 == \A t \in Sessions : PlaceKept(t)
<1>t. run \in [Sessions -> Run]
  BY RunTypeOf
<1>1. ASSUME NEW s \in Sessions, Start(s) \/ Resume(s) PROVE Kept1
  BY <1>1, <1>t DEF Start, Resume, PlaceKept, IdleRun
<1>2. ASSUME NEW s \in Sessions, NEW g \in Gates, NEW a \in Assertions, Approve(s, g, a[1], a[2])
      PROVE  Kept1
  BY <1>2, <1>t DEF Approve, PlaceKept, IdleRun
<1>3. ASSUME NEW s \in Sessions, RunStep(s), ~DriveMoves(s) PROVE Kept1
  <2> USE <1>3
  <2>1. CASE Create(s) \/ BeginAgents(s) \/ DecideGate(s) \/ Effect(s) \/ Receipt(s)
    <3>1. \E pc \in RunPCs : Move(s, pc)
      BY <2>1 DEF Create, BeginAgents, DecideGate, Effect, Receipt, RunPCs
    <3> QED BY <3>1, MovesPlace
  <2>2. CASE Reload(s)
    BY <2>2, <1>t DEF Reload, PlaceKept, Run
  <2>3. CASE \E r \in Results : Checkpoint(s, r)
    BY <2>3, MovesPlace DEF Checkpoint
  <2>4. CASE Park(s) \/ Finish(s)
    BY <2>4, MovesPlace DEF Park, Finish
  <2>5. CASE Execute(s)
    <3>1. Leave(s) \/ \E pc \in RunPCs : Move(s, pc)
      BY <2>5 DEF Execute, RunPCs
    <3> QED BY <3>1, MovesPlace
  <2>6. CASE SubmitGate(s)
    BY <2>6, <1>t, IdlePlace DEF SubmitGate, PlaceKept, Run
  <2>7. CASE InGateway(s)
    <3>1. Leave(s) \/ run' = run \/ \E pc \in RunPCs : Move(s, pc)
      BY <2>7 DEF InGateway, RunPCs
    <3> QED BY <3>1, MovesPlace
  <2>8. CASE Settle(s)
    BY <2>8, <1>t DEF Settle, PlaceKept, IdleRun
  <2> QED BY <2>1, <2>2, <2>3, <2>4, <2>5, <2>6, <2>7, <2>8 DEF RunStep, DriveMoves
<1>4. ASSUME NEW s \in Sessions, StepDeferred(s) \/ StepError(s) \/ StepUnverified(s) \/ Raise(s)
      PROVE  Kept1
  BY <1>4, MovesPlace DEF StepDeferred, StepError, StepUnverified, Raise
<1>5. ASSUME NEW c \in Challenges, Expire(c), UNCHANGED taskVars PROVE Kept1
  BY <1>5 DEF taskVars, PlaceKept
<1>6. ASSUME NEW r \in Replicas, Crash(r) PROVE Kept1
  BY <1>6, IdlePlace DEF Crash, PlaceKept
<1> QED BY <1>1, <1>2, <1>3, <1>4, <1>5, <1>6 DEF TaskNext

\* Which steps write which record.
LEMMA LedgerKinds ==
  ASSUME TaskNext
  PROVE  /\ \/ succeeded' = succeeded
            \/ \E s \in Sessions : Settle(s) \/ \E a \in Artifacts : StepOk(s, a)
         /\ executed' = executed \/ \E s \in Sessions : Receipt(s)
         /\ effects' = effects \/ \E s \in Sessions : Effect(s)
         /\ memo' = memo \/ \E s \in Sessions, r \in Results : Checkpoint(s, r)
         /\ state' = "SUCCEEDED" => state = "SUCCEEDED" \/ \E s \in Sessions : Finish(s)
<1> USE DEF ledgerVars, worldVars
<1>1. ASSUME NEW s \in Sessions, Start(s) \/ Resume(s)
      PROVE  UNCHANGED <<succeeded, executed, effects, memo, state>>
  BY <1>1 DEF Start, Resume
<1>2. ASSUME NEW s \in Sessions, NEW g \in Gates, NEW a \in Assertions, Approve(s, g, a[1], a[2])
      PROVE  UNCHANGED <<succeeded, executed, effects, memo, state>>
  BY <1>2 DEF Approve
<1>3. ASSUME NEW s \in Sessions,
             StepDeferred(s) \/ StepError(s) \/ StepUnverified(s) \/ Raise(s)
             \/ Park(s) \/ Execute(s)
      PROVE  UNCHANGED <<succeeded, executed, effects, memo>>
             /\ state' \in {state, "FAILED_RETRYABLE", "WAITING_FOR_HUMAN"}
  BY <1>3 DEF StepDeferred, StepError, StepUnverified, Raise, Park, Execute
<1>4. ASSUME NEW s \in Sessions,
             Create(s) \/ Reload(s) \/ Begin(s) \/ SkipDone(s) \/ BeginAgents(s)
             \/ DecideGate(s) \/ SubmitGate(s) \/ InGateway(s)
      PROVE  UNCHANGED <<succeeded, executed, effects, memo, state>>
  BY <1>4 DEF Create, Reload, Begin, SkipDone, BeginAgents, DecideGate, SubmitGate, InGateway
<1>5. ASSUME NEW s \in Sessions, Finish(s) PROVE UNCHANGED <<succeeded, executed, effects, memo>>
  BY <1>5 DEF Finish
<1>6. ASSUME NEW s \in Sessions,
             Settle(s) \/ \E a \in Artifacts : StepOk(s, a)
      PROVE  UNCHANGED <<executed, effects, memo, state>>
  BY <1>6 DEF Settle, StepOk
<1>7. ASSUME NEW s \in Sessions, Receipt(s) PROVE UNCHANGED <<succeeded, effects, memo, state>>
  BY <1>7 DEF Receipt
<1>8. ASSUME NEW s \in Sessions, Effect(s) PROVE UNCHANGED <<succeeded, executed, memo, state>>
  BY <1>8 DEF Effect
<1>9. ASSUME NEW s \in Sessions, NEW r \in Results, Checkpoint(s, r)
      PROVE  UNCHANGED <<succeeded, executed, effects, state>>
  BY <1>9 DEF Checkpoint
<1>10. ASSUME NEW c \in Challenges, Expire(c), UNCHANGED taskVars
       PROVE  UNCHANGED <<succeeded, executed, effects, memo, state>>
  BY <1>10 DEF taskVars
<1>11. ASSUME NEW r \in Replicas, Crash(r)
       PROVE  UNCHANGED <<succeeded, executed, effects, memo, state>>
  BY <1>11 DEF Crash
<1> QED BY <1>1, <1>2, <1>3, <1>4, <1>5, <1>6, <1>7, <1>8, <1>9, <1>10, <1>11
        DEF TaskNext, RunStep

\* A step once completed stays so.
LEMMA CompletedKept ==
  ASSUME CallInv, TaskNext
  PROVE  Completed \subseteq Completed'
<1>t. RecordTypes /\ NoArtifact \notin Artifacts \cup {Authorized}
  BY TaskTypes, TaskAssumption DEF CallInv
<1>1. CASE succeeded' = succeeded
  BY <1>1 DEF Completed
<1>2. CASE \E s \in Sessions : Settle(s) \/ \E a \in Artifacts : StepOk(s, a)
  BY <1>2, <1>t DEF Settle, StepOk, Completed, RecordTypes
<1> QED BY <1>1, <1>2, LedgerKinds

LEMMA DriveStep ==
  ASSUME CallInv, DriveInv, TaskNext
  PROVE  DriveInv'
<1>t. run \in [Sessions -> Run] /\ RecordTypes
  BY TaskTypes DEF CallInv
<1>c. Completed \subseteq Completed'
  BY CompletedKept
<1>1. ASSUME NEW s \in Sessions, Begin(s) PROVE \A t \in Sessions : DriveOK(t)'
  <2>1. run'[s].done = Completed /\ run'[s].pos = 1 /\ \A t \in Sessions : t # s => run'[t] = run[t]
    BY <1>1, <1>t DEF Begin, Run
  <2>2. DriveOK(s)'
    BY <2>1, <1>c DEF DriveOK
  <2> QED BY <2>1, <2>2, <1>c DEF DriveInv, DriveOK
<1>2. ASSUME NEW s \in Sessions, SkipDone(s) PROVE \A t \in Sessions : DriveOK(t)'
  <2>1. /\ run'[s].done = run[s].done /\ run'[s].pos = run[s].pos + 1
        /\ \A t \in Sessions : t # s => run'[t] = run[t]
        /\ Order[run[s].pos] \in run[s].done
    BY <1>2, <1>t DEF SkipDone, Run, Here
  <2>2. run[s].pos \in 1..(Len(Order) + 1)
    BY <1>t DEF Run
  <2>3. DriveOK(s)'
    BY <2>1, <2>2, <1>c, OrderType DEF DriveOK, DriveInv
  <2> QED BY <2>1, <2>3, <1>c DEF DriveInv, DriveOK
<1>3. ASSUME NEW s \in Sessions, NEW a \in Artifacts, StepOk(s, a)
      PROVE  \A t \in Sessions : DriveOK(t)'
  <2>1. /\ run'[s].done = run[s].done \cup {Here(s)} /\ run'[s].pos = run[s].pos + 1
        /\ \A t \in Sessions : t # s => run'[t] = run[t]
        /\ run[s].pos <= Len(Order)
    BY <1>3, <1>t DEF StepOk, Run, CallInv, RunOK, In
  <2>2. run[s].pos \in 1..(Len(Order) + 1)
    BY <1>t DEF Run
  <2>3. Here(s) \in Steps /\ Here(s) = Order[run[s].pos]
    BY <2>1, HereType DEF Here
  <2>4. Here(s) \in Completed'
    BY <1>3, <1>t, <2>3, TaskAssumption DEF StepOk, Completed, RecordTypes
  <2>5. DriveOK(s)'
    BY <2>1, <2>2, <2>3, <2>4, <1>c, OrderType DEF DriveOK, DriveInv
  <2> QED BY <2>1, <2>5, <1>c DEF DriveInv, DriveOK
<1>4. ASSUME \A t \in Sessions : PlaceKept(t) PROVE \A t \in Sessions : DriveOK(t)'
  BY <1>4, <1>c, PlaceKeptOK DEF DriveInv
<1>5. \A t \in Sessions : DriveOK(t)'
  BY <1>1, <1>2, <1>3, <1>4, PlaceStep DEF DriveMoves
<1>6. SucceededMeansAll'
  <2>1. ASSUME NEW s \in Sessions, Finish(s) PROVE Completed = Steps
    <3>1. run[s].pos > Len(Order) /\ run[s].pos \in 1..(Len(Order) + 1) /\ DriveOK(s)
      BY <2>1, <1>t DEF Finish, Run, DriveInv
    <3>2. \A k \in 1..Len(Order) : Order[k] \in Completed
      BY <3>1, OrderType DEF DriveOK
    <3> QED BY <3>2, TaskAssumption DEF Completed
  <2>2. state' = "SUCCEEDED" => Completed = Steps
    BY <2>1, LedgerKinds DEF DriveInv, SucceededMeansAll
  <2> QED BY <2>2, <1>c DEF SucceededMeansAll, Completed
<1> QED BY <1>5, <1>6 DEF DriveInv

LEMMA DriveInit == TaskInit => DriveInv
BY OrderType DEF TaskInit, DriveInv, DriveOK, SucceededMeansAll, IdleRun

LEMMA DriveStutter ==
  ASSUME DriveInv, UNCHANGED allVars
  PROVE  DriveInv'
BY DEF allVars, taskVars, DriveInv, DriveOK, SucceededMeansAll, Completed

LEMMA DriveAlways == TaskSpec => []DriveInv
<1>1. CallInv /\ DriveInv /\ [TaskNext]_allVars => DriveInv'
  BY DriveStep, DriveStutter
<1> QED BY <1>1, DriveInit, CallAlways, PTL DEF TaskSpec

\* A task is recorded SUCCEEDED only when every step of it succeeded, whoever drives it
\* at the same time and whatever crashes.
THEOREM SucceededSound == TaskSpec => []SucceededMeansAll
BY DriveAlways, PTL DEF DriveInv

\* Agents start on a step only when all the steps it needs have succeeded, in every
\* workflow whose order is topological.
THEOREM AgentsKeepOrder == TaskSpec => AgentsInOrder
<1>1. ASSUME CallInv, DriveInv, NEW s \in Sessions, BeginAgents(s)
      PROVE  Needs[Here(s)] \subseteq Completed
  <2>1. run[s].pos <= Len(Order) /\ DriveOK(s)
    BY <1>1 DEF BeginAgents, Driving, DriveInv
  <2>2. Here(s) \in Steps /\ run[s].pos \in 1..Len(Order) /\ Here(s) = Order[run[s].pos]
    BY <1>1, <2>1, HereType DEF Here
  <2> SUFFICES ASSUME NEW m \in Needs[Here(s)] PROVE m \in Completed
    OBVIOUS
  <2>3. PICK j, k \in 1..Len(Order) : Order[j] = m /\ Order[k] = Here(s) /\ j < k
    BY <2>2, TaskAssumption DEF Before
  <2>4. k = run[s].pos
    BY <2>2, <2>3, OrderInjective
  <2>5. j \in 1..(run[s].pos - 1)
    BY <2>2, <2>3, <2>4, OrderType
  <2> QED BY <2>1, <2>3, <2>5 DEF DriveOK
<1>2. CallInv /\ DriveInv /\ [TaskNext]_allVars =>
        [\A s \in Sessions : BeginAgents(s) => Needs[Here(s)] \subseteq Completed]_allVars
  BY <1>1
<1> QED BY <1>2, CallAlways, DriveAlways, PTL DEF TaskSpec, AgentsInOrder

-----------------------------------------------------------------------------
(* Capabilities, effects and receipts *)

Executing == {"execute", "effect", "receipt", "settle"}

\* A capability was minted for s, and goes with it to the executor.
Authorizes(s) ==
  /\ Mint(s) /\ run[s].pc = "approve" /\ run'[s].pc = "execute"
  /\ run'[s].intent = sess[s].intent /\ sess[s].intent \in Intents
  /\ \A t \in Sessions : t # s => run'[t] = run[t]
  /\ UNCHANGED <<ledgerVars, worldVars>>

\* Nothing is minted, performed, receipted or passed, and no call comes to the executor.
Uneventful ==
  /\ UNCHANGED <<executed, effects, grants, mints>>
  /\ \A g \in Gates : succeeded'[g] = succeeded[g]
  /\ \A t \in Sessions : run'[t] = run[t] \/ run'[t].pc \notin Executing

\* The executor finds a receipt, or none.
Finds(s) ==
  /\ run[s].pc = "execute"
  /\ \/ run[s].intent \in executed /\ run'[s].pc = "settle"
     \/ run[s].intent \notin executed /\ run'[s].pc = "effect"
  /\ run'[s].intent = run[s].intent
  /\ \A t \in Sessions : t # s => run'[t] = run[t]
  /\ UNCHANGED <<gwVars, succeeded, executed, effects>>

Performs(s) ==
  /\ run[s].pc = "effect" /\ run'[s].pc = "receipt" /\ run'[s].intent = run[s].intent
  /\ \A t \in Sessions : t # s => run'[t] = run[t]
  /\ effects' = [effects EXCEPT ![run[s].intent] = @ + 1]
  /\ UNCHANGED <<gwVars, succeeded, executed>>

Receipts(s) ==
  /\ run[s].pc = "receipt" /\ run'[s].pc = "settle" /\ run'[s].intent = run[s].intent
  /\ \A t \in Sessions : t # s => run'[t] = run[t]
  /\ executed' = executed \cup {run[s].intent}
  /\ UNCHANGED <<gwVars, succeeded, effects>>

Settles(s) ==
  /\ run[s].pc = "settle" /\ run'[s].pc \notin Executing
  /\ \A t \in Sessions : t # s => run'[t] = run[t]
  /\ succeeded' = [succeeded EXCEPT ![run[s].gate] = Authorized]
  /\ UNCHANGED <<gwVars, executed, effects>>

LEMMA OthersRun ==
  ASSUME CallInv, NEW s \in Sessions,
         Leave(s) \/ DriveReturns(s) \/ \E pc \in RunPCs : Move(s, pc)
  PROVE  /\ \A t \in Sessions : t # s => run'[t] = run[t]
         /\ Leave(s) => run'[s].pc = "idle"
         /\ DriveReturns(s) => run'[s].pc \in {"idle", "submit"}
<1>t. run \in [Sessions -> Run]
  BY RunTypeOf
<1> QED BY <1>t DEF Leave, DriveReturns, Move, IdleRun, Run

LEMMA UneventfulRunner ==
  ASSUME CallInv, NEW s \in Sessions, UNCHANGED gwVars, UNCHANGED <<executed, effects>>,
         \A g \in Gates : succeeded'[g] = succeeded[g],
         \A t \in Sessions : t # s => run'[t] = run[t], run'[s].pc \notin Executing
  PROVE  Uneventful
BY DEF Uneventful, gwVars

LEMMA InGatewayKinds ==
  ASSUME CallInv, NEW s \in Sessions, InGateway(s)
  PROVE  Uneventful \/ Authorizes(s)
<1>t. /\ run \in [Sessions -> Run] /\ RunOK(s) /\ AskOK(s)
      /\ TypeOK /\ SessionOK(s)
  BY TaskTypes DEF CallInv, IInv
<1>1. UNCHANGED <<ledgerVars, worldVars>> /\ GatewayStep(s) /\ run[s].pc \in Asking
  BY <1>t, GatewayStepKeeps DEF InGateway, AskOK
<1>2. \A t \in Sessions : t # s => run'[t] = run[t]
  <2>1. Leave(s) \/ run' = run \/ \E pc \in RunPCs : Move(s, pc)
    BY DEF InGateway, RunPCs
  <2> QED BY <2>1, OthersRun
<1>3. CASE Mint(s)
  <2>1. sess[s].pc = "mint" /\ sess'[s] = IdleSession /\ IdleSession.pc = "idle"
    BY <1>3, <1>t DEF Mint, At, Return, TypeOK, IdleSession
  <2>2. ~In(s, "decide") /\ In(s, "approve") /\ sess[s].intent = run[s].intent
        /\ sess[s].intent \in Intents
    BY <1>1, <1>t, <2>1 DEF AskOK, SessionOK, SubmitPCs, In, Asking, At
  <2>3. Move(s, "execute") /\ "execute" \in RunPCs
    BY <2>1, <2>2 DEF InGateway, At, RunPCs
  <2>4. run'[s].pc = "execute" /\ run'[s].intent = run[s].intent
    BY <2>3, Moved
  <2> QED BY <1>1, <1>2, <1>3, <2>2, <2>4 DEF Authorizes, In
<1>4. CASE ~Mint(s)
  <2>1. UNCHANGED <<grants, mints>>
    BY <1>1, <1>4 DEF GatewayStep, CountCalls, BumpCalls, OpenRead, OpenWrite, Lookup, Check,
       Drop, AddApprover, Tally, RetireRound
  <2>2. sess[s].pc = "mint" => FALSE
    BY <1>1, <1>4 DEF GatewayStep, At, CountCalls, BumpCalls, OpenRead, OpenWrite, Lookup,
       Check, Drop, AddApprover, Tally, RetireRound
  <2>3. Leave(s) \/ run' = run \/ Move(s, "park")
    BY <2>2 DEF InGateway, At
  <2>4. run'[s] = run[s] \/ run'[s].pc \in {"idle", "park"}
    BY <2>3, <1>t, OthersRun, Moved DEF RunPCs
  <2> QED BY <1>1, <1>2, <2>1, <2>4 DEF Uneventful, ledgerVars, worldVars, Executing
<1> QED BY <1>3, <1>4

LEMMA EffectKinds ==
  ASSUME CallInv, TaskNext
  PROVE  \/ Uneventful
         \/ \E s \in Sessions :
              Authorizes(s) \/ Finds(s) \/ Performs(s) \/ Receipts(s) \/ Settles(s)
<1> USE DEF ledgerVars, worldVars, In
<1>t. /\ run \in [Sessions -> Run] /\ RecordTypes
      /\ \A s \in Sessions : run[s] \in Run /\ RunOK(s)
  BY TaskTypes DEF CallInv
<1>1. ASSUME NEW s \in Sessions,
             \/ Start(s) \/ Resume(s) \/ Create(s) \/ Reload(s) \/ Begin(s) \/ SkipDone(s)
             \/ \E g \in Gates, a \in Assertions : Approve(s, g, a[1], a[2])
      PROVE  Uneventful
  <2>1. \A t \in Sessions : t # s => run'[t] = run[t]
    <3>1. CASE Start(s) \/ Resume(s)
      BY <3>1, <1>t DEF Start, Resume
    <3>2. CASE Create(s) \/ Reload(s)
      BY <3>2, <1>t DEF Create, Reload, Move
    <3>3. CASE Begin(s)
      BY <3>3, <1>t DEF Begin
    <3>4. CASE SkipDone(s)
      BY <3>4, <1>t DEF SkipDone
    <3>5. CASE \E g \in Gates, a \in Assertions : Approve(s, g, a[1], a[2])
      BY <3>5, <1>t DEF Approve
    <3> QED BY <1>1, <3>1, <3>2, <3>3, <3>4, <3>5
  <2>2. run'[s].pc \notin Executing
    <3>1. CASE Start(s) \/ Resume(s)
      <4>1. run'[s].pc \in {"create", "begin", "reload"}
        <5>1. CASE Start(s)
          BY <5>1, <1>t DEF Start, IdleRun
        <5>2. CASE Resume(s)
          BY <5>2, <1>t DEF Resume, IdleRun
        <5> QED BY <3>1, <5>1, <5>2
      <4> QED BY <4>1 DEF Executing
    <3>2. CASE Create(s)
      BY <3>2, <1>t, Moved DEF Create, RunPCs, Executing
    <3>3. CASE Reload(s) \/ Begin(s)
      BY <3>3, <1>t DEF Reload, Begin, Run, Executing
    <3>4. CASE SkipDone(s)
      BY <3>4, <1>t DEF SkipDone, Driving, Run, Executing
    <3>5. ASSUME NEW g \in Gates, NEW a \in Assertions, Approve(s, g, a[1], a[2])
          PROVE  run'[s].pc \notin Executing
      BY <3>5, <1>t DEF Approve, IdleRun, Executing
    <3> QED BY <1>1, <3>1, <3>2, <3>3, <3>4, <3>5
  <2>3. UNCHANGED gwVars /\ UNCHANGED <<executed, effects, succeeded>>
    BY <1>1 DEF Start, Resume, Create, Reload, Begin, SkipDone, Approve
  <2> QED BY <2>1, <2>2, <2>3, UneventfulRunner
<1>2. ASSUME NEW s \in Sessions,
             \/ StepDeferred(s) \/ StepError(s) \/ StepUnverified(s) \/ Raise(s)
             \/ Park(s) \/ Finish(s) \/ BeginAgents(s)
      PROVE  Uneventful
  <2>1. Leave(s) \/ DriveReturns(s) \/ Move(s, "agents")
    BY <1>2 DEF StepDeferred, StepError, StepUnverified, Raise, Park, Finish, BeginAgents
  <2>2. (\A t \in Sessions : t # s => run'[t] = run[t]) /\ run'[s].pc \notin Executing
    BY <2>1, OthersRun, Moved DEF Executing, RunPCs
  <2>3. UNCHANGED gwVars /\ UNCHANGED <<executed, effects, succeeded>>
    BY <1>2 DEF StepDeferred, StepError, StepUnverified, Raise, Park, Finish, BeginAgents
  <2> QED BY <2>2, <2>3, UneventfulRunner
<1>3. ASSUME NEW s \in Sessions, NEW r \in Results, Checkpoint(s, r) PROVE Uneventful
  BY <1>3 DEF Checkpoint, Uneventful, gwVars
<1>4. ASSUME NEW s \in Sessions, NEW a \in Artifacts, StepOk(s, a) PROVE Uneventful
  <2>1. run[s].pc = "agents" /\ run[s].pos <= Len(Order) /\ Here(s) \notin Gates
    BY <1>4, <1>t DEF StepOk, RunOK
  <2>2. succeeded' = [succeeded EXCEPT ![Here(s)] = a] /\ UNCHANGED <<gwVars, executed, effects>>
    BY <1>4 DEF StepOk
  <2>3. \A g \in Gates : succeeded'[g] = succeeded[g]
    BY <2>1, <2>2, <1>t DEF RecordTypes, Gates
  <2>4. (\A t \in Sessions : t # s => run'[t] = run[t]) /\ run'[s].pc = "drive"
    BY <1>4, <1>t DEF StepOk, Run
  <2> QED BY <2>2, <2>3, <2>4, UneventfulRunner DEF Executing
<1>5. ASSUME NEW s \in Sessions, DecideGate(s) PROVE Uneventful
  <2>1. PICK pc \in {"park", "decide"} : Move(s, pc)
    BY <1>5 DEF DecideGate
  <2>2. (\A t \in Sessions : t # s => run'[t] = run[t]) /\ run'[s].pc = pc
    BY <2>1, OthersRun, Moved DEF RunPCs
  <2> QED BY <1>5, <2>2 DEF DecideGate, Decide, Uneventful, Executing
<1>6. ASSUME NEW s \in Sessions, SubmitGate(s) PROVE Uneventful
  <2>1. (\A t \in Sessions : t # s => run'[t] = run[t]) /\ run'[s].pc \in {"idle", "approve"}
    BY <1>6, <1>t DEF SubmitGate, Run, IdleRun
  <2> QED BY <1>6, <2>1 DEF SubmitGate, Submit, Uneventful, Executing
<1>7. ASSUME NEW s \in Sessions, InGateway(s) PROVE Uneventful \/ Authorizes(s)
  BY <1>7, InGatewayKinds
<1>8. ASSUME NEW s \in Sessions, Execute(s) PROVE Uneventful \/ Finds(s)
  <2>1. CASE Leave(s)
    BY <1>8, <2>1, OthersRun, UneventfulRunner DEF Execute, Executing
  <2>2. CASE run[s].intent \in executed /\ Move(s, "settle") /\ UNCHANGED state
    BY <1>8, <2>2, OthersRun, Moved DEF Execute, Finds, RunPCs
  <2>3. CASE run[s].intent \notin executed /\ Move(s, "effect") /\ UNCHANGED state
    BY <1>8, <2>3, OthersRun, Moved DEF Execute, Finds, RunPCs
  <2> QED BY <1>8, <2>1, <2>2, <2>3 DEF Execute
<1>9. ASSUME NEW s \in Sessions, Effect(s) PROVE Performs(s)
  BY <1>9, OthersRun, Moved DEF Effect, Performs, RunPCs
<1>10. ASSUME NEW s \in Sessions, Receipt(s) PROVE Receipts(s)
  BY <1>10, OthersRun, Moved DEF Receipt, Receipts, RunPCs
<1>11. ASSUME NEW s \in Sessions, Settle(s) PROVE Settles(s)
  BY <1>11, <1>t DEF Settle, Settles, IdleRun, Executing
<1>12. ASSUME NEW c \in Challenges, Expire(c), UNCHANGED taskVars PROVE Uneventful
  BY <1>12 DEF Expire, taskVars, Uneventful
<1>13. ASSUME NEW r \in Replicas, Crash(r) PROVE Uneventful
  BY <1>13 DEF Crash, GatewayCrash, Uneventful, IdleRun, Executing
<1>14. ASSUME NEW s \in Sessions, RunStep(s)
       PROVE  Uneventful \/ Authorizes(s) \/ Finds(s) \/ Performs(s) \/ Receipts(s) \/ Settles(s)
  BY <1>14, <1>1, <1>2, <1>3, <1>4, <1>5, <1>6, <1>7, <1>8, <1>9, <1>10, <1>11 DEF RunStep
<1> QED BY <1>1, <1>2, <1>12, <1>13, <1>14 DEF TaskNext

\* A receipt stands for an effect, and a call settles its gate on a receipt.
GateInv ==
  /\ GateMeansEffect
  /\ \A i \in executed : effects[i] > 0
  /\ \A s \in Sessions : In(s, "receipt") => effects[run[s].intent] > 0
  /\ \A s \in Sessions : In(s, "settle") => run[s].intent \in executed

\* What has taken effect and what has a receipt stays so.
RecordsGrow ==
  /\ executed \subseteq executed'
  /\ \A i \in Intents : effects[i] > 0 => effects'[i] > 0

LEMMA GrowStep ==
  ASSUME CallInv, TaskNext
  PROVE  RecordsGrow
<1>t. RecordTypes
  BY TaskTypes DEF CallInv
<1>1. executed \subseteq executed'
  BY LedgerKinds DEF Receipt
<1>2. ASSUME NEW s \in Sessions, Effect(s)
      PROVE  \A i \in Intents : effects[i] > 0 => effects'[i] > 0
  BY <1>2, <1>t DEF Effect, RecordTypes
<1> QED BY <1>1, <1>2, LedgerKinds DEF RecordsGrow

LEMMA GateStep ==
  ASSUME CallInv, GateInv, TaskNext
  PROVE  GateInv'
<1>t. /\ run \in [Sessions -> Run] /\ RecordTypes
      /\ \A s \in Sessions : RunOK(s)
  BY TaskTypes DEF CallInv
<1>i. \A s \in Sessions : run[s].pc \in Executing =>
        run[s].intent \in Intents /\ GateOf(run[s].intent) = run[s].gate /\ run[s].gate \in Gates
  BY <1>t DEF RunOK, Approving, Executing
<1>g. RecordsGrow
  BY GrowStep
<1>k. ASSUME \A g \in Gates : succeeded'[g] = succeeded[g]
      PROVE  GateMeansEffect'
  <2> SUFFICES ASSUME NEW g \in Gates, succeeded'[g] # NoArtifact
               PROVE  \E i \in executed' : GateOf(i) = g /\ effects'[i] > 0
    BY DEF GateMeansEffect, Gates, GateOf
  <2>1. PICK i \in executed : GateOf(i) = g /\ effects[i] > 0
    BY <1>k DEF GateInv, GateMeansEffect
  <2> QED BY <1>g, <1>t, <2>1 DEF RecordsGrow, RecordTypes
<1>1. CASE Uneventful
  <2>1. \A t \in Sessions : run'[t].pc \in {"receipt", "settle"} => run'[t] = run[t]
    BY <1>1 DEF Uneventful, Executing
  <2> QED BY <1>1, <1>k, <2>1 DEF Uneventful, GateInv, In
<1>2. ASSUME NEW s \in Sessions, Authorizes(s) PROVE GateInv'
  <2>1. \A t \in Sessions : run'[t].pc \in {"receipt", "settle"} => run'[t] = run[t]
    BY <1>2 DEF Authorizes
  <2>2. \A g \in Gates : succeeded'[g] = succeeded[g]
    BY <1>2 DEF Authorizes, ledgerVars
  <2> QED BY <1>2, <1>k, <2>1, <2>2 DEF Authorizes, GateInv, In, ledgerVars, worldVars
<1>3. ASSUME NEW s \in Sessions, Finds(s) PROVE GateInv'
  <2>1. \A t \in Sessions : run'[t].pc = "receipt" => run'[t] = run[t]
    BY <1>3 DEF Finds
  <2>2. \A t \in Sessions : run'[t].pc = "settle" =>
          run'[t] = run[t] \/ run'[t].intent \in executed
    BY <1>3 DEF Finds
  <2>3. (\A g \in Gates : succeeded'[g] = succeeded[g]) /\ UNCHANGED <<executed, effects>>
    BY <1>3 DEF Finds
  <2> QED BY <1>k, <2>1, <2>2, <2>3 DEF GateInv, In
<1>4. ASSUME NEW s \in Sessions, Performs(s) PROVE GateInv'
  <2>1. \A t \in Sessions : run'[t].pc = "settle" => run'[t] = run[t]
    BY <1>4 DEF Performs
  <2>2. \A t \in Sessions : run'[t].pc = "receipt" => t = s \/ run'[t] = run[t]
    BY <1>4 DEF Performs
  <2>3. /\ \A g \in Gates : succeeded'[g] = succeeded[g]
        /\ executed' = executed
        /\ effects' = [effects EXCEPT ![run[s].intent] = @ + 1]
        /\ run'[s].intent = run[s].intent /\ run[s].intent \in Intents
    BY <1>4, <1>i DEF Performs, Executing
  <2>4. effects'[run'[s].intent] > 0
    BY <2>3, <1>t DEF RecordTypes
  <2>5. \A i \in executed' : effects'[i] > 0
    BY <2>3, <1>g, <1>t DEF GateInv, RecordsGrow, RecordTypes
  <2>6. ASSUME NEW t \in Sessions, run'[t].pc = "receipt" PROVE effects'[run'[t].intent] > 0
    <3>1. CASE t = s
      BY <2>4, <3>1
    <3>2. CASE t # s
      <4>1. run'[t] = run[t] /\ effects[run[t].intent] > 0 /\ run[t].intent \in Intents
        BY <3>2, <2>2, <2>6, <1>i DEF GateInv, In, Executing
      <4> QED BY <4>1, <1>g DEF RecordsGrow
    <3> QED BY <3>1, <3>2
  <2> QED BY <1>k, <2>1, <2>3, <2>5, <2>6 DEF GateInv, In
<1>5. ASSUME NEW s \in Sessions, Receipts(s) PROVE GateInv'
  <2>1. effects[run[s].intent] > 0 /\ run[s].pc = "receipt"
    BY <1>5 DEF Receipts, GateInv, In
  <2>2. (\A g \in Gates : succeeded'[g] = succeeded[g]) /\ effects' = effects
        /\ executed' = executed \cup {run[s].intent}
    BY <1>5 DEF Receipts
  <2>3. \A t \in Sessions : run'[t].pc = "receipt" => run'[t] = run[t]
    BY <1>5 DEF Receipts
  <2>4. \A t \in Sessions : run'[t].pc = "settle" => run'[t].intent \in executed'
    BY <1>5, <2>2 DEF Receipts, GateInv, In
  <2> QED BY <1>k, <2>1, <2>2, <2>3, <2>4 DEF GateInv, In
<1>6. ASSUME NEW s \in Sessions, Settles(s) PROVE GateInv'
  <2>1. run[s].intent \in executed /\ GateOf(run[s].intent) = run[s].gate /\ run[s].gate \in Gates
    BY <1>6, <1>i DEF Settles, GateInv, In, Executing
  <2>2. UNCHANGED <<executed, effects>> /\ effects[run[s].intent] > 0
    BY <1>6, <2>1 DEF Settles, GateInv
  <2>3. \A g \in Gates : g = run[s].gate \/ succeeded'[g] = succeeded[g]
    BY <1>6, <1>t DEF Settles, RecordTypes, Gates
  <2>4. GateMeansEffect'
    BY <2>1, <2>2, <2>3 DEF GateInv, GateMeansEffect, Gates, GateOf
  <2>5. \A t \in Sessions : run'[t].pc \in Executing => run'[t] = run[t]
    BY <1>6 DEF Settles
  <2> QED BY <2>2, <2>4, <2>5 DEF GateInv, In, Executing
<1> QED BY <1>1, <1>2, <1>3, <1>4, <1>5, <1>6, EffectKinds

LEMMA GateInit == TaskInit => GateInv
BY DEF TaskInit, GateInv, GateMeansEffect, NoArtifacts, IdleRun, In, Gates

LEMMA GateStutter ==
  ASSUME GateInv, UNCHANGED allVars
  PROVE  GateInv'
BY DEF allVars, taskVars, GateInv, GateMeansEffect, In, Gates, GateOf

LEMMA GateAlways == TaskSpec => []GateInv
<1>1. CallInv /\ GateInv /\ [TaskNext]_allVars => GateInv'
  BY GateStep, GateStutter
<1> QED BY <1>1, GateInit, CallAlways, PTL DEF TaskSpec

\* A gate is recorded succeeded only after an effect it authorized was performed and
\* receipted, whatever calls interleave and whatever crashes or raises.
THEOREM GateEarned == TaskSpec => []GateMeansEffect
BY GateAlways, PTL DEF GateInv

-----------------------------------------------------------------------------
(* Effects and the capabilities they spend *)

MintedRounds == {c \in Challenges : mints[c] > 0}
AllCapabilities == UNION {{c} \X (1..mints[c]) : c \in Challenges}

\* The calls that bring a capability for i to the executor and have not spent it.
InHand(i) == {s \in Sessions : run[s].pc \in {"execute", "effect"} /\ run[s].intent = i}

\* The effects of an intent and the capabilities under way to the executor are covered
\* by the capabilities minted for it.
AuthorityInv ==
  /\ IsFiniteSet(MintedRounds) /\ IsFiniteSet(AllCapabilities)
  /\ \A i \in Intents :
       /\ effects[i] > 0 \/ InHand(i) # {} => Granted(i) # {}
       /\ effects[i] + Cardinality(InHand(i)) <= Cardinality(Capabilities(i))

\* A round belongs to its intent for ever.
LEMMA RoundKeepsIntent ==
  ASSUME IInv, [GatewayNext]_gwVars, NEW c \in Challenges, rounds[c].intent # NoRound
  PROVE  rounds'[c].intent = rounds[c].intent
<1>t. rounds \in [Challenges -> Round] /\ \A s \in Sessions : SessionOK(s)
  BY DEF IInv, TypeOK
<1>1. ASSUME NEW s \in Sessions, OpenWrite(s) PROVE rounds'[c].intent = rounds[c].intent
  BY <1>1, <1>t DEF OpenWrite, Unissued
<1>2. ASSUME NEW s \in Sessions, Drop(s) \/ RetireRound(s)
      PROVE  rounds'[c].intent = rounds[c].intent
  <2>1. sess[s].intent \in Intents /\ rounds' = Retired(s, sess[s].intent)
    BY <1>2, <1>t DEF Drop, RetireRound, SessionOK, At
  <2> QED BY <2>1, RetiredFlag
<1>3. ASSUME NEW s \in Sessions, AddApprover(s) PROVE rounds'[c].intent = rounds[c].intent
  BY <1>3, <1>t DEF AddApprover, Round
<1>4. ASSUME NEW d \in Challenges, Expire(d) PROVE rounds'[c].intent = rounds[c].intent
  BY <1>4, <1>t DEF Expire, Round
<1>5. ASSUME NEW s \in Sessions,
             CountCalls(s) \/ BumpCalls(s) \/ OpenRead(s) \/ Lookup(s) \/ Check(s)
             \/ Tally(s) \/ Mint(s)
      PROVE  rounds' = rounds
  BY <1>5 DEF CountCalls, BumpCalls, OpenRead, Lookup, Check, Tally, Mint
<1>6. ASSUME NEW s \in Sessions, NEW i \in Intents, Decide(s, i) PROVE rounds' = rounds
  BY <1>6 DEF Decide
<1>7. ASSUME NEW s \in Sessions, NEW i \in Intents, NEW a \in Assertions, Submit(s, i, a[1], a[2])
      PROVE  rounds' = rounds
  BY <1>7 DEF Submit
<1>8. ASSUME NEW r \in Replicas, GatewayCrash(r) PROVE rounds' = rounds
  BY <1>8 DEF GatewayCrash
<1>9. UNCHANGED gwVars => rounds' = rounds
  BY DEF gwVars
<1> QED BY <1>1, <1>2, <1>3, <1>4, <1>5, <1>6, <1>7, <1>8, <1>9 DEF GatewayNext, GatewayStep

LEMMA MintedForFinite ==
  ASSUME IsFiniteSet(MintedRounds), NEW i
  PROVE  IsFiniteSet(MintedFor(i)) /\ Cardinality(MintedFor(i)) \in Nat
BY FS_Subset, FS_CardinalityType DEF MintedFor, MintedRounds

LEMMA InHandCount ==
  ASSUME NEW i
  PROVE  /\ IsFiniteSet(InHand(i)) /\ Cardinality(InHand(i)) \in Nat
         /\ IsFiniteSet(InHand(i)') /\ Cardinality(InHand(i)') \in Nat
<1>1. InHand(i) \in SUBSET Sessions /\ InHand(i)' \in SUBSET Sessions
  BY DEF InHand
<1> QED BY <1>1, SessionsCount

LEMMA CapabilitiesAre ==
  ASSUME NEW i
  PROVE  /\ \A x : x \in AllCapabilities <=>
              \E c \in Challenges : \E n \in 1..mints[c] : x = <<c, n>>
         /\ \A x : x \in AllCapabilities' <=>
              \E c \in Challenges : \E n \in 1..mints'[c] : x = <<c, n>>
         /\ \A x : x \in Capabilities(i) <=>
              \E c \in Challenges : \E n \in 1..mints[c] : rounds[c].intent = i /\ x = <<c, n>>
         /\ \A x : x \in Capabilities(i)' <=>
              \E c \in Challenges : \E n \in 1..mints'[c] : rounds'[c].intent = i /\ x = <<c, n>>
BY DEF Capabilities, AllCapabilities

LEMMA CapabilitiesFinite ==
  ASSUME IsFiniteSet(AllCapabilities), NEW i
  PROVE  IsFiniteSet(Capabilities(i)) /\ Cardinality(Capabilities(i)) \in Nat
<1>1. Capabilities(i) \subseteq AllCapabilities
  BY CapabilitiesAre
<1> QED BY <1>1, FS_Subset, FS_CardinalityType

\* A capability more of the round c0.
LEMMA OneMore ==
  ASSUME NEW c0 \in Challenges, mints \in [Challenges -> Nat],
         mints' = [mints EXCEPT ![c0] = @ + 1], rounds' = rounds, NEW i
  PROVE  /\ <<c0, mints[c0] + 1>> \notin Capabilities(i)
         /\ AllCapabilities' = AllCapabilities \cup {<<c0, mints[c0] + 1>>}
         /\ rounds[c0].intent = i =>
              Capabilities(i)' = Capabilities(i) \cup {<<c0, mints[c0] + 1>>}
         /\ rounds[c0].intent # i => Capabilities(i)' = Capabilities(i)
<1>1. /\ mints[c0] \in Nat /\ mints'[c0] = mints[c0] + 1
      /\ \A c \in Challenges : c # c0 => mints'[c] = mints[c]
  OBVIOUS
<1>2. 1..mints'[c0] = 1..mints[c0] \cup {mints[c0] + 1} /\ mints[c0] + 1 \notin 1..mints[c0]
  BY <1>1
<1>3. <<c0, mints[c0] + 1>> \notin Capabilities(i)
  BY <1>2, CapabilitiesAre
<1>4. ASSUME rounds[c0].intent = i
      PROVE  Capabilities(i)' = Capabilities(i) \cup {<<c0, mints[c0] + 1>>}
  <2>1. ASSUME NEW x \in Capabilities(i)'
        PROVE  x \in Capabilities(i) \cup {<<c0, mints[c0] + 1>>}
    BY <1>1, <1>2, <2>1, CapabilitiesAre
  <2>2. ASSUME NEW x \in Capabilities(i) PROVE x \in Capabilities(i)'
    BY <1>1, <1>2, <2>2, CapabilitiesAre
  <2>3. <<c0, mints[c0] + 1>> \in Capabilities(i)'
    BY <1>2, <1>4, CapabilitiesAre
  <2> QED BY <2>1, <2>2, <2>3
<1>5. ASSUME rounds[c0].intent # i PROVE Capabilities(i)' = Capabilities(i)
  <2>1. ASSUME NEW x PROVE x \in Capabilities(i)' <=> x \in Capabilities(i)
    BY <1>1, <1>5, CapabilitiesAre
  <2> QED BY <2>1
<1>6. AllCapabilities' = AllCapabilities \cup {<<c0, mints[c0] + 1>>}
  <2>1. ASSUME NEW x \in AllCapabilities'
        PROVE  x \in AllCapabilities \cup {<<c0, mints[c0] + 1>>}
    BY <1>1, <1>2, <2>1, CapabilitiesAre
  <2>2. ASSUME NEW x \in AllCapabilities PROVE x \in AllCapabilities'
    BY <1>1, <1>2, <2>2, CapabilitiesAre
  <2>3. <<c0, mints[c0] + 1>> \in AllCapabilities'
    BY <1>2, CapabilitiesAre
  <2> QED BY <2>1, <2>2, <2>3
<1> QED BY <1>3, <1>4, <1>5, <1>6

\* No more effects and no more calls in hand: what was covered is covered.
LEMMA StillCovered ==
  ASSUME CallInv, AuthorityInv, TaskNext, UNCHANGED <<mints, effects>>, grants \subseteq grants',
         \A i \in Intents : InHand(i)' \subseteq InHand(i)
  PROVE  AuthorityInv'
<1>t. RecordTypes /\ mints \in [Challenges -> Nat] /\ IInv
  BY TaskTypes DEF CallInv, IInv, TypeOK
<1>1. IsFiniteSet(MintedRounds') /\ IsFiniteSet(AllCapabilities')
  BY DEF AuthorityInv, MintedRounds, AllCapabilities
<1>2. ASSUME NEW i \in Intents, effects'[i] > 0 \/ InHand(i)' # {} PROVE Granted(i)' # {}
  BY <1>2 DEF AuthorityInv, Granted
<1>3. ASSUME NEW i \in Intents
      PROVE  effects'[i] + Cardinality(InHand(i)') <= Cardinality(Capabilities(i)')
  <2>1. effects[i] + Cardinality(InHand(i)) <= Cardinality(Capabilities(i))
        /\ IsFiniteSet(AllCapabilities)
    BY DEF AuthorityInv
  <2>2. Capabilities(i) \subseteq Capabilities(i)' /\ Capabilities(i)' \subseteq AllCapabilities'
    <3>1. \A c \in Challenges : rounds[c].intent = i => rounds'[c].intent = i
      BY <1>t, CallStep, RoundKeepsIntent, GatewayAssumption
    <3> QED BY <3>1, CapabilitiesAre
  <2>3. Cardinality(Capabilities(i)) \in Nat /\ Cardinality(Capabilities(i)') \in Nat
        /\ Cardinality(Capabilities(i)) <= Cardinality(Capabilities(i)')
    BY <1>1, <2>1, <2>2, CapabilitiesFinite, FS_Subset, FS_CardinalityType
  <2>4. Cardinality(InHand(i)') <= Cardinality(InHand(i))
    BY InHandCount, FS_Subset
  <2>5. effects[i] \in Nat /\ effects'[i] = effects[i]
    BY <1>t DEF RecordTypes
  <2> QED BY <2>1, <2>3, <2>4, <2>5, InHandCount
<1> QED BY <1>1, <1>2, <1>3 DEF AuthorityInv

LEMMA AuthorizesCovered ==
  ASSUME CallInv, AuthorityInv, NEW s \in Sessions, Authorizes(s)
  PROVE  AuthorityInv'
<1> DEFINE i0 == sess[s].intent
           c0 == sess[s].ref
<1>t. /\ run \in [Sessions -> Run] /\ RecordTypes /\ mints \in [Challenges -> Nat]
      /\ sess[s] \in Session /\ SessionOK(s)
  BY TaskTypes DEF CallInv, IInv, TypeOK
<1>1. /\ i0 \in Intents /\ c0 \in Challenges /\ rounds[c0].intent = i0
      /\ mints' = [mints EXCEPT ![c0] = @ + 1]
      /\ \E g \in grants' : g.intent = i0
      /\ grants \subseteq grants' /\ rounds' = rounds /\ effects' = effects
  <2>1. sess[s].pc = "mint" /\ i0 \in Intents /\ effects' = effects /\ rounds' = rounds
        /\ mints' = [mints EXCEPT ![c0] = @ + 1]
    BY DEF Authorizes, Mint, At, worldVars
  <2>2. c0 \in Challenges /\ rounds[c0].intent = i0
    BY <1>t, <2>1 DEF SessionOK, Session
  <2> DEFINE g == [intent |-> i0, round |-> c0, approvers |-> sess[s].view.approvers]
  <2>3. grants' = grants \cup {g}
    BY DEF Authorizes, Mint
  <2>4. g.intent = i0
    OBVIOUS
  <2> HIDE DEF g
  <2> QED BY <2>1, <2>2, <2>3, <2>4
<1>2. /\ run[s].pc = "approve" /\ run'[s].pc = "execute" /\ run'[s].intent = i0
      /\ \A t \in Sessions : t # s => run'[t] = run[t]
  BY DEF Authorizes
<1> HIDE DEF i0, c0
<1>3. \A i \in Intents : InHand(i)' = IF i = i0 THEN InHand(i) \cup {s} ELSE InHand(i)
  BY <1>2 DEF InHand
<1>4. s \notin InHand(i0)
  BY <1>2 DEF InHand
<1>5. MintedRounds' = MintedRounds \cup {c0} /\ mints'[c0] = mints[c0] + 1
      /\ \A c \in Challenges : mints[c] \in Nat /\ (c # c0 => mints'[c] = mints[c])
  BY <1>1, <1>t DEF MintedRounds
<1>6. IsFiniteSet(MintedRounds')
  BY <1>5, FS_AddElement DEF AuthorityInv
<1>7. ASSUME NEW i \in Intents
      PROVE  /\ <<c0, mints[c0] + 1>> \notin Capabilities(i)
             /\ AllCapabilities' = AllCapabilities \cup {<<c0, mints[c0] + 1>>}
             /\ i = i0 => Capabilities(i)' = Capabilities(i) \cup {<<c0, mints[c0] + 1>>}
             /\ i # i0 => Capabilities(i)' = Capabilities(i)
  <2>1. /\ c0 \in Challenges /\ mints \in [Challenges -> Nat]
        /\ mints' = [mints EXCEPT ![c0] = @ + 1] /\ rounds' = rounds
    BY <1>1, <1>t
  <2>2. /\ <<c0, mints[c0] + 1>> \notin Capabilities(i)
        /\ AllCapabilities' = AllCapabilities \cup {<<c0, mints[c0] + 1>>}
        /\ rounds[c0].intent = i =>
             Capabilities(i)' = Capabilities(i) \cup {<<c0, mints[c0] + 1>>}
        /\ rounds[c0].intent # i => Capabilities(i)' = Capabilities(i)
    BY <2>1, OneMore
  <2>3. i = i0 <=> rounds[c0].intent = i
    BY <1>1
  <2> QED BY <2>2, <2>3
<1>8. IsFiniteSet(AllCapabilities')
  <2>1. AllCapabilities' = AllCapabilities \cup {<<c0, mints[c0] + 1>>}
    BY <1>1, <1>7
  <2>2. IsFiniteSet(AllCapabilities)
    BY DEF AuthorityInv
  <2> QED BY <2>1, <2>2, FS_AddElement
<1>9. ASSUME NEW i \in Intents, effects'[i] > 0 \/ InHand(i)' # {} PROVE Granted(i)' # {}
  BY <1>1, <1>3, <1>9 DEF AuthorityInv, Granted
<1>10. ASSUME NEW i \in Intents
       PROVE  effects'[i] + Cardinality(InHand(i)') <= Cardinality(Capabilities(i)')
  <2>1. effects[i] + Cardinality(InHand(i)) <= Cardinality(Capabilities(i))
    BY DEF AuthorityInv
  <2>2. CASE i = i0
    <3>1. Cardinality(InHand(i)') = Cardinality(InHand(i)) + 1
      BY <2>2, <1>3, <1>4, InHandCount, FS_AddElement
    <3>2. IsFiniteSet(Capabilities(i)) /\ Cardinality(Capabilities(i)) \in Nat
      BY CapabilitiesFinite DEF AuthorityInv
    <3>3. Cardinality(Capabilities(i)') = Cardinality(Capabilities(i)) + 1
      BY <2>2, <3>2, <1>7, FS_AddElement
    <3>4. effects[i] \in Nat /\ effects'[i] = effects[i]
      BY <1>1, <1>t DEF RecordTypes
    <3> QED BY <2>1, <3>1, <3>2, <3>3, <3>4, InHandCount
  <2>3. CASE i # i0
    BY <2>1, <2>3, <1>1, <1>3, <1>7
  <2> QED BY <2>2, <2>3
<1> QED BY <1>6, <1>8, <1>9, <1>10 DEF AuthorityInv

LEMMA PerformsCovered ==
  ASSUME CallInv, AuthorityInv, NEW s \in Sessions, Performs(s)
  PROVE  AuthorityInv'
<1> DEFINE i0 == run[s].intent
<1>t. run \in [Sessions -> Run] /\ RecordTypes /\ RunOK(s)
  BY TaskTypes DEF CallInv
<1>1. /\ i0 \in Intents /\ run[s].pc = "effect" /\ run'[s].pc = "receipt"
      /\ \A t \in Sessions : t # s => run'[t] = run[t]
      /\ effects' = [effects EXCEPT ![i0] = @ + 1]
      /\ UNCHANGED <<grants, mints, rounds>>
  BY <1>t DEF Performs, RunOK, Approving, gwVars
<1>2. s \in InHand(i0)
  BY <1>1 DEF InHand
<1>3. \A i \in Intents : InHand(i)' = IF i = i0 THEN InHand(i) \ {s} ELSE InHand(i)
  BY <1>1 DEF InHand
<1> HIDE DEF i0
<1>4. /\ IsFiniteSet(MintedRounds') /\ IsFiniteSet(AllCapabilities')
      /\ \A i \in Intents : Capabilities(i)' = Capabilities(i)
  BY <1>1 DEF MintedRounds, Capabilities, AllCapabilities, AuthorityInv
<1>5. ASSUME NEW i \in Intents, effects'[i] > 0 \/ InHand(i)' # {} PROVE Granted(i)' # {}
  <2>1. effects[i] > 0 \/ InHand(i) # {}
    BY <1>1, <1>2, <1>3, <1>5, <1>t DEF RecordTypes
  <2> QED BY <2>1, <1>1 DEF AuthorityInv, Granted
<1>6. ASSUME NEW i \in Intents
      PROVE  effects'[i] + Cardinality(InHand(i)') <= Cardinality(Capabilities(i)')
  <2>1. effects[i] + Cardinality(InHand(i)) <= Cardinality(Capabilities(i))
    BY DEF AuthorityInv
  <2>2. CASE i = i0
    <3>1. Cardinality(InHand(i)') = Cardinality(InHand(i)) - 1
      BY <2>2, <1>2, <1>3, InHandCount, FS_RemoveElement
    <3>2. effects[i] \in Nat /\ effects'[i] = effects[i] + 1
      BY <2>2, <1>1, <1>t DEF RecordTypes
    <3>3. Cardinality(Capabilities(i)) \in Nat
      BY CapabilitiesFinite DEF AuthorityInv
    <3> QED BY <2>1, <3>1, <3>2, <3>3, <1>4, InHandCount
  <2>3. CASE i # i0
    BY <2>1, <2>3, <1>1, <1>3, <1>4, <1>t DEF RecordTypes
  <2> QED BY <2>2, <2>3
<1> QED BY <1>4, <1>5, <1>6 DEF AuthorityInv

LEMMA AuthorityStep ==
  ASSUME CallInv, AuthorityInv, TaskNext
  PROVE  AuthorityInv'
<1>1. CASE Uneventful
  BY <1>1, StillCovered DEF Uneventful, InHand, Executing
<1>2. ASSUME NEW s \in Sessions, Finds(s) \/ Receipts(s) \/ Settles(s) PROVE AuthorityInv'
  <2>1. UNCHANGED <<mints, effects, grants>>
    BY <1>2 DEF Finds, Receipts, Settles, gwVars
  <2>2. \A i \in Intents : InHand(i)' \subseteq InHand(i)
    BY <1>2 DEF Finds, Receipts, Settles, InHand, Executing
  <2> QED BY <2>1, <2>2, StillCovered
<1> QED BY <1>1, <1>2, AuthorizesCovered, PerformsCovered, EffectKinds

LEMMA AuthorityInit == TaskInit => AuthorityInv
<1> SUFFICES ASSUME TaskInit PROVE AuthorityInv
  OBVIOUS
<1>1. MintedRounds = {} /\ \A i : InHand(i) = {}
  BY DEF TaskInit, GatewayInit, MintedRounds, InHand, IdleRun
<1>2. AllCapabilities = {} /\ \A i : Capabilities(i) = {}
  <2>1. \A c \in Challenges : mints[c] = 0
    BY DEF TaskInit, GatewayInit
  <2>2. \A n \in Int : n \notin 1..0
    OBVIOUS
  <2> QED BY <2>1, <2>2, CapabilitiesAre
<1>3. \A i \in Intents : effects[i] = 0
  BY DEF TaskInit
<1> QED BY <1>1, <1>2, <1>3, FS_EmptySet DEF AuthorityInv

LEMMA AuthorityStutter ==
  ASSUME AuthorityInv, UNCHANGED allVars
  PROVE  AuthorityInv'
BY DEF allVars, taskVars, gwVars, AuthorityInv, MintedRounds, AllCapabilities, InHand,
   Capabilities, Granted

LEMMA AuthorityAlways == TaskSpec => []AuthorityInv
<1>1. CallInv /\ AuthorityInv /\ [TaskNext]_allVars => AuthorityInv'
  BY AuthorityStep, AuthorityStutter
<1> QED BY <1>1, AuthorityInit, CallAlways, PTL DEF TaskSpec

\* Whatever calls interleave, also when a round mints twice, nothing takes effect in the
\* world without a capability of its own that was granted for exactly its intent.
THEOREM EffectsAuthorized == TaskSpec => []EffectAuthorized
<1>1. CallInv /\ AuthorityInv => EffectAuthorized
  <2> SUFFICES ASSUME CallInv, AuthorityInv, NEW i \in Intents
               PROVE  /\ effects[i] > 0 => Granted(i) # {}
                      /\ effects[i] <= Cardinality(Capabilities(i))
    BY DEF EffectAuthorized
  <2>1. effects[i] \in Nat /\ Cardinality(Capabilities(i)) \in Nat
    BY CapabilitiesFinite DEF CallInv, TaskTypeOK, AuthorityInv
  <2> QED BY <2>1, InHandCount DEF AuthorityInv
<1> QED BY <1>1, AuthorityAlways, CallAlways, PTL

-----------------------------------------------------------------------------
(* The durable engine and the ledger *)

LEMMA MemoStep ==
  ASSUME CallInv, MemoMatchesLedger, TaskNext
  PROVE  MemoMatchesLedger'
<1>t. /\ run \in [Sessions -> Run] /\ RecordTypes
      /\ \A s \in Sessions : RunOK(s)
  BY TaskTypes DEF CallInv
<1> SUFFICES ASSUME Engine = "dbos", NEW n \in Steps, Kind[n] = "work"
             PROVE  /\ succeeded'[n] \in {NoArtifact, memo'[n]}
                    /\ \A t \in Sessions : run'[t].artifacts[n] \in {NoArtifact, succeeded'[n]}
  BY DEF MemoMatchesLedger
<1>0. /\ succeeded[n] \in {NoArtifact, memo[n]}
      /\ \A t \in Sessions : run[t].artifacts[n] \in {NoArtifact, succeeded[n]}
  BY DEF MemoMatchesLedger
<1>1. ASSUME NEW s \in Sessions, NEW a \in Artifacts, StepOk(s, a)
      PROVE  /\ succeeded'[n] \in {NoArtifact, memo'[n]}
             /\ \A t \in Sessions : run'[t].artifacts[n] \in {NoArtifact, succeeded'[n]}
  <2>1. /\ succeeded' = [succeeded EXCEPT ![Here(s)] = a] /\ memo' = memo
        /\ \A t \in Sessions : t # s => run'[t] = run[t]
        /\ run'[s].artifacts = [run[s].artifacts EXCEPT ![Here(s)] = a]
        /\ run[s].pos <= Len(Order) /\ Yields(s, a)
    BY <1>1, <1>t DEF StepOk, Run, worldVars, RunOK, In
  <2>2. Here(s) \in Steps /\ run[s].artifacts \in [Steps -> Recorded]
    BY <2>1, <1>t, HereType DEF Run
  <2>3. CASE Here(s) = n
    <3>1. memo[n] = a
      BY <2>1, <2>3 DEF Yields, Memoized
    <3>2. succeeded'[n] = a /\ run'[s].artifacts[n] = a
      BY <2>1, <2>2, <2>3, <1>t DEF RecordTypes
    <3> QED BY <1>0, <2>1, <3>1, <3>2
  <2>4. CASE Here(s) # n
    <3>1. succeeded'[n] = succeeded[n] /\ run'[s].artifacts[n] = run[s].artifacts[n]
      BY <2>1, <2>2, <2>4, <1>t DEF RecordTypes
    <3> QED BY <1>0, <2>1, <3>1
  <2> QED BY <2>3, <2>4
<1>2. CASE succeeded'[n] = succeeded[n]
  <2>1. succeeded'[n] \in {NoArtifact, memo'[n]}
    <3>1. ASSUME NEW s \in Sessions, NEW r \in Results, Checkpoint(s, r)
          PROVE  memo[n] = NoArtifact \/ memo'[n] = memo[n]
      BY <3>1, <1>t DEF Checkpoint, RecordTypes
    <3> QED BY <3>1, <1>0, <1>2, LedgerKinds
  <2>2. ASSUME NEW s \in Sessions, SkipDone(s)
        PROVE  \A t \in Sessions : run'[t].artifacts[n] \in {NoArtifact, succeeded[n]}
    <3>1. /\ \A t \in Sessions : t # s => run'[t] = run[t]
          /\ run'[s].artifacts = [run[s].artifacts EXCEPT
               ![Here(s)] = IF @ = NoArtifact THEN succeeded[Here(s)] ELSE @]
      BY <2>2, <1>t DEF SkipDone, Run
    <3>2. run[s].artifacts \in [Steps -> Recorded]
      BY <1>t DEF Run
    <3>3. run'[s].artifacts[n] \in {run[s].artifacts[n], succeeded[n]}
      BY <3>1, <3>2
    <3> QED BY <3>1, <3>3, <1>0
  <2>3. ASSUME NEW s \in Sessions, Begin(s)
        PROVE  \A t \in Sessions : run'[t].artifacts[n] \in {NoArtifact, succeeded[n]}
    <3>1. \A t \in Sessions : run'[t].artifacts = run[t].artifacts
      BY <2>3, <1>t DEF Begin, Run
    <3> QED BY <3>1, <1>0
  <2>4. ASSUME \A t \in Sessions : PlaceKept(t)
        PROVE  \A t \in Sessions : run'[t].artifacts[n] \in {NoArtifact, succeeded[n]}
    BY <2>4, <1>0 DEF PlaceKept, NoArtifacts
  <2> QED BY <2>1, <2>2, <2>3, <2>4, <1>1, <1>2, PlaceStep DEF DriveMoves
<1>3. ASSUME NEW s \in Sessions, Settle(s) PROVE succeeded'[n] = succeeded[n]
  <2>1. run[s].gate # n
    BY <1>3, <1>t DEF Settle, In, RunOK, Approving, Gates
  <2> QED BY <1>3, <2>1, <1>t DEF Settle, RecordTypes
<1> QED BY <1>1, <1>2, <1>3, LedgerKinds

\* With the durable engine every call in progress and the ledger have a work step's
\* artifact from the one run the engine keeps, with any number of concurrent drives,
\* crashes and retries.
THEOREM MemoConsistent == TaskSpec => []MemoMatchesLedger
<1>1. TaskInit => MemoMatchesLedger
  BY DEF TaskInit, MemoMatchesLedger, NoArtifacts, IdleRun
<1>2. CallInv /\ MemoMatchesLedger /\ [TaskNext]_allVars => MemoMatchesLedger'
  <2>1. UNCHANGED allVars /\ MemoMatchesLedger => MemoMatchesLedger'
    BY DEF allVars, taskVars, MemoMatchesLedger
  <2> QED BY <2>1, MemoStep
<1> QED BY <1>1, <1>2, CallAlways, PTL DEF TaskSpec
=============================================================================
