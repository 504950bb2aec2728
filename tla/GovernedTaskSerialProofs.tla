---------------------- MODULE GovernedTaskSerialProofs ----------------------
(***************************************************************************)
(* Proofs about GovernedTask while one call is served at a time: for any   *)
(* workflow, either store and either engine, with crashes, expiries and    *)
(* failures.  The runner holds no lock over a task, and two calls at the   *)
(* same time can break each of these properties (see README.md).           *)
(***************************************************************************)
EXTENDS GovernedTaskProofs, GatewaySerialProofs

LEMMA TaskSerialAlways ==
  ASSUME OneCall
  PROVE  TaskSpec => []SerialInv
BY SerialAlways, RunnerUsesGateway, PTL

-----------------------------------------------------------------------------
(* Receipts *)

\* Some call has performed i and not yet written its receipt.
ReceiptDue(i) == \E s \in Sessions : In(s, "receipt") /\ run[s].intent = i

\* Without a receipt each effect of an intent was cut off, but for one whose receipt is
\* due; and nothing with a receipt is about to be performed.
OnceInv ==
  /\ \A i \in Intents :
       /\ i \in executed => effects[i] <= 1 + cut[i]
       /\ i \notin executed /\ ReceiptDue(i) => effects[i] <= 1 + cut[i]
       /\ i \notin executed /\ ~ReceiptDue(i) => effects[i] <= cut[i]
  /\ \A s \in Sessions : run[s].pc \in {"effect", "receipt"} => run[s].intent \notin executed

\* A step of one call leaves the others where they are.
LEMMA OthersStay ==
  ASSUME CallInv, NEW s \in Sessions,
         \/ RunStep(s) \/ Start(s) \/ Resume(s) \/ Raise(s)
         \/ StepDeferred(s) \/ StepError(s) \/ StepUnverified(s)
         \/ \E g \in Gates, a \in Assertions : Approve(s, g, a[1], a[2])
  PROVE  \A t \in Sessions : t # s => run'[t] = run[t]
<1>t. run \in [Sessions -> Run]
  BY RunTypeOf
<1>1. CASE \E R : run' = [run EXCEPT ![s] = R]
  BY <1>1, <1>t
<1>2. CASE Leave(s) \/ DriveReturns(s) \/ \E pc : Move(s, pc)
  BY <1>2, <1>t DEF Leave, DriveReturns, Move
<1>3. CASE Reload(s) \/ Begin(s) \/ SkipDone(s) \/ SubmitGate(s) \/ \E a \in Artifacts : StepOk(s, a)
  BY <1>3, <1>t DEF Reload, Begin, SkipDone, SubmitGate, StepOk
<1>4. CASE run' = run
  BY <1>4
<1>5. CASE Start(s) \/ Resume(s) \/ Settle(s)
           \/ \E g \in Gates, a \in Assertions : Approve(s, g, a[1], a[2])
  BY <1>1, <1>5 DEF Start, Resume, Settle, Approve
<1>6. CASE \/ Create(s) \/ BeginAgents(s) \/ DecideGate(s) \/ Park(s) \/ Finish(s)
           \/ Effect(s) \/ Receipt(s) \/ Raise(s)
           \/ StepDeferred(s) \/ StepError(s) \/ StepUnverified(s)
  BY <1>2, <1>6 DEF Create, BeginAgents, DecideGate, Park, Finish, Effect, Receipt, Raise,
     StepDeferred, StepError, StepUnverified
<1>7. CASE Execute(s) \/ InGateway(s) \/ \E r \in Results : Checkpoint(s, r)
  BY <1>2, <1>4, <1>7 DEF Execute, InGateway, Checkpoint
<1> QED BY <1>3, <1>5, <1>6, <1>7 DEF RunStep

\* What a step does to the receipts that are due: it writes it, keeps it due or counts
\* it as cut off.
LEMMA CutKinds ==
  ASSUME CallInv, TaskNext
  PROVE  /\ \A i \in Intents : cut'[i] \in Nat /\ cut'[i] >= cut[i]
         /\ \A s \in Sessions : In(s, "receipt") =>
              \/ run'[s] = run[s] \/ run'[s].pc = "settle"
              \/ cut'[run[s].intent] >= cut[run[s].intent] + 1
<1> USE DEF In
<1>t. /\ run \in [Sessions -> Run] /\ RecordTypes
      /\ \A s \in Sessions : RunOK(s) /\ AskOK(s)
  BY TaskTypes DEF CallInv
<1>q. CallInv' /\ \A i \in Intents : cut'[i] \in Nat /\ cut[i] \in Nat
  BY CallStep DEF CallInv, TaskTypeOK
<1>1. ASSUME NEW s \in Sessions, Raise(s)
      PROVE  /\ \A i \in Intents : cut'[i] >= cut[i]
             /\ In(s, "receipt") => cut'[run[s].intent] >= cut[run[s].intent] + 1
             /\ \A t \in Sessions : t # s => run'[t] = run[t]
  <2>1. CASE run[s].pc = "receipt"
    <3>1. run[s].intent \in Intents
      BY <2>1, <1>t DEF RunOK, Approving
    <3>2. cut' = [cut EXCEPT ![run[s].intent] = @ + 1] /\ Leave(s)
      BY <1>1, <2>1 DEF Raise
    <3> QED BY <1>q, <1>t, <3>1, <3>2, OthersRun DEF RecordTypes
  <2>2. CASE run[s].pc # "receipt"
    <3>1. cut' = cut /\ Leave(s)
      BY <1>1, <2>2 DEF Raise, worldVars
    <3> QED BY <1>q, <2>2, <3>1, OthersRun
  <2> QED BY <2>1, <2>2
<1>2. ASSUME NEW r \in Replicas, Crash(r)
      PROVE  /\ \A i \in Intents : cut'[i] >= cut[i]
             /\ \A s \in Sessions : In(s, "receipt") =>
                  \/ run'[s] = run[s]
                  \/ cut'[run[s].intent] >= cut[run[s].intent] + 1
  <2> DEFINE C(i) == {s \in Sessions : Home[s] = r /\ In(s, "receipt") /\ run[s].intent = i}
  <2>1. cut' = [i \in Intents |-> cut[i] + Cardinality(C(i))]
    BY <1>2 DEF Crash
  <2>2. \A i \in Intents : IsFiniteSet(C(i)) /\ Cardinality(C(i)) \in Nat
    BY SessionsCount
  <2>3. \A i \in Intents : cut'[i] >= cut[i]
    <3> HIDE DEF C
    <3> QED BY <1>q, <2>1, <2>2
  <2>4. ASSUME NEW s \in Sessions, In(s, "receipt"), Home[s] = r
        PROVE  cut'[run[s].intent] >= cut[run[s].intent] + 1
    <3>1. run[s].intent \in Intents /\ s \in C(run[s].intent)
      BY <2>4, <1>t DEF RunOK, Approving
    <3> HIDE DEF C
    <3>2. Cardinality(C(run[s].intent)) # 0
      BY <2>2, <3>1, FS_EmptySet
    <3> QED BY <1>q, <2>1, <2>2, <3>1, <3>2
  <2>5. \A s \in Sessions : Home[s] # r => run'[s] = run[s]
    BY <1>2 DEF Crash
  <2> QED BY <2>3, <2>4, <2>5
<1>3. ASSUME NEW s \in Sessions, RunStep(s)
      PROVE  cut' = cut /\ (In(s, "receipt") => run'[s].pc = "settle")
  <2>1. cut' = cut
    BY <1>3 DEF RunStep, worldVars, Create, Reload, Begin, SkipDone, BeginAgents, Checkpoint,
       StepOk, DecideGate, Park, Finish, SubmitGate, InGateway, Execute, Effect, Receipt, Settle
  <2>2. InGateway(s) => run[s].pc \in Asking
    BY <1>t, GatewayStepKeeps DEF InGateway, AskOK, CallInv, IInv
  <2>3. In(s, "receipt") => Receipt(s)
    BY <1>3, <2>2 DEF RunStep, Create, Reload, Begin, SkipDone, BeginAgents, Driving, Checkpoint,
       StepOk, DecideGate, Park, Finish, SubmitGate, Asking, Execute, Effect, Settle
  <2>4. Receipt(s) => run'[s].pc = "settle"
    BY Moved DEF Receipt, RunPCs
  <2> QED BY <2>1, <2>3, <2>4
<1>4. ASSUME NEW s \in Sessions,
             \/ Start(s) \/ Resume(s) \/ StepDeferred(s) \/ StepError(s) \/ StepUnverified(s)
             \/ \E g \in Gates, a \in Assertions : Approve(s, g, a[1], a[2])
      PROVE  cut' = cut /\ ~In(s, "receipt")
  BY <1>4 DEF worldVars, Start, Resume, StepDeferred, StepError, StepUnverified, Approve
<1>5. ASSUME NEW c \in Challenges, Expire(c), UNCHANGED taskVars PROVE cut' = cut /\ run' = run
  BY <1>5 DEF taskVars
<1> DEFINE More == \A i \in Intents : cut'[i] >= cut[i]
           Accounted(s) == In(s, "receipt") =>
             \/ run'[s] = run[s] \/ run'[s].pc = "settle"
             \/ cut'[run[s].intent] >= cut[run[s].intent] + 1
<1>6. More /\ \A s \in Sessions : Accounted(s)
  <2>1. CASE \E r \in Replicas : Crash(r)
    BY <2>1, <1>2
  <2>2. CASE \E c \in Challenges : Expire(c) /\ UNCHANGED taskVars
    BY <2>2, <1>5, <1>q
  <2>3. ASSUME NEW s \in Sessions,
               \/ RunStep(s) \/ Start(s) \/ Resume(s) \/ Raise(s)
               \/ StepDeferred(s) \/ StepError(s) \/ StepUnverified(s)
               \/ \E g \in Gates, a \in Assertions : Approve(s, g, a[1], a[2])
        PROVE  More /\ \A t \in Sessions : Accounted(t)
    BY <2>3, <1>q, <1>1, <1>3, <1>4, OthersStay
  <2> QED BY <2>1, <2>2, <2>3 DEF TaskNext
<1> QED BY <1>6, <1>q

LEMMA OnceStep ==
  ASSUME OneCall, CallInv, OnceInv, TaskNext
  PROVE  OnceInv'
<1> USE DEF In, ReceiptDue
<1>t. /\ run \in [Sessions -> Run] /\ \A s \in Sessions : RunOK(s)
      /\ \A i \in Intents : effects[i] \in Nat /\ cut[i] \in Nat
      /\ effects \in [Intents -> Nat]
  BY DEF CallInv, TaskTypeOK
<1>c. /\ \A i \in Intents : cut'[i] \in Nat /\ cut'[i] >= cut[i]
      /\ \A s \in Sessions : run[s].pc = "receipt" =>
           \/ run'[s] = run[s] \/ run'[s].pc = "settle"
           \/ cut'[run[s].intent] >= cut[run[s].intent] + 1
  BY CutKinds
<1>1. CASE Uneventful
  <2>1. /\ UNCHANGED <<executed, effects>>
        /\ \A t \in Sessions : run'[t] = run[t] \/ run'[t].pc \notin Executing
    BY <1>1 DEF Uneventful
  <2>2. ASSUME NEW i \in Intents, i \in executed PROVE effects'[i] <= 1 + cut'[i]
    BY <2>1, <2>2, <1>c, <1>t DEF OnceInv
  <2>3. ASSUME NEW i \in Intents, i \notin executed
        PROVE  effects'[i] <= IF ReceiptDue(i)' THEN 1 + cut'[i] ELSE cut'[i]
    <3>1. CASE ReceiptDue(i)
      <4>1. PICK s \in Sessions : run[s].pc = "receipt" /\ run[s].intent = i
        BY <3>1
      <4>2. effects[i] <= 1 + cut[i]
        BY <2>3, <3>1 DEF OnceInv
      <4>3. CASE run'[s] = run[s]
        BY <2>1, <4>1, <4>2, <4>3, <1>c, <1>t
      <4>4. CASE run'[s] # run[s]
        BY <2>1, <4>1, <4>2, <4>4, <1>c, <1>t DEF Executing
      <4> QED BY <4>3, <4>4
    <3>2. CASE ~ReceiptDue(i)
      BY <2>1, <2>3, <3>2, <1>c, <1>t DEF OnceInv
    <3> QED BY <3>1, <3>2
  <2>4. \A s \in Sessions : run'[s].pc \in {"effect", "receipt"} => run'[s].intent \notin executed'
    BY <2>1 DEF OnceInv, Executing
  <2> QED BY <2>1, <2>2, <2>3, <2>4 DEF OnceInv
<1>2. ASSUME NEW s \in Sessions, run[s].pc \in Executing \ {"receipt"}, UNCHANGED <<executed, effects>>,
             run'[s].pc # "receipt",
             run'[s].pc = "effect" => run'[s].intent \notin executed
      PROVE  OnceInv'
  <2>1. \A i \in Intents : ~ReceiptDue(i) /\ ~ReceiptDue(i)'
    BY <1>2 DEF OneCall
  <2> QED BY <1>2, <2>1, <1>c, <1>t DEF OnceInv, OneCall
<1>3. ASSUME NEW s \in Sessions, Authorizes(s) PROVE OnceInv'
  <2>1. \A t \in Sessions : run[t].pc \notin {"effect", "receipt"}
                             /\ run'[t].pc \notin {"effect", "receipt"}
    BY <1>3 DEF Authorizes, OneCall
  <2>2. UNCHANGED <<executed, effects>>
    BY <1>3 DEF Authorizes, ledgerVars, worldVars
  <2> QED BY <2>1, <2>2, <1>c, <1>t DEF OnceInv
<1>4. ASSUME NEW s \in Sessions, Finds(s) \/ Settles(s) PROVE OnceInv'
  BY <1>2, <1>4 DEF Finds, Settles, Executing
<1>5. ASSUME NEW s \in Sessions, Performs(s) PROVE OnceInv'
  <2> DEFINE i0 == run[s].intent
  <2>1. /\ run[s].pc = "effect" /\ run'[s].pc = "receipt" /\ run'[s].intent = i0
        /\ effects' = [effects EXCEPT ![i0] = @ + 1] /\ executed' = executed
        /\ i0 \in Intents /\ i0 \notin executed
    BY <1>5, <1>t DEF Performs, RunOK, Approving, OnceInv
  <2>2. \A i \in Intents : ~ReceiptDue(i) /\ (ReceiptDue(i)' <=> i = i0)
    BY <2>1 DEF OneCall
  <2> HIDE DEF i0
  <2>3. effects[i0] <= cut[i0] /\ effects'[i0] = effects[i0] + 1
    BY <2>1, <2>2, <1>t DEF OnceInv
  <2>4. effects'[i0] <= 1 + cut'[i0]
    BY <2>1, <2>3, <1>c, <1>t
  <2>5. \A i \in Intents : i # i0 => effects'[i] = effects[i]
    BY <2>1, <1>t
  <2>6. \A t \in Sessions : run'[t].intent \notin executed'
    BY <2>1 DEF OneCall
  <2> QED BY <2>1, <2>2, <2>4, <2>5, <2>6, <1>c, <1>t DEF OnceInv
<1>6. ASSUME NEW s \in Sessions, Receipts(s) PROVE OnceInv'
  <2>1. /\ run[s].pc = "receipt" /\ run'[s].pc = "settle" /\ effects' = effects
        /\ executed' = executed \cup {run[s].intent} /\ run[s].intent \notin executed
    BY <1>6 DEF Receipts, OnceInv
  <2>2. \A i \in Intents : (ReceiptDue(i) <=> i = run[s].intent) /\ ~ReceiptDue(i)'
    BY <2>1 DEF OneCall
  <2>3. \A t \in Sessions : run'[t].pc \notin {"effect", "receipt"}
    BY <2>1 DEF OneCall
  <2> QED BY <2>1, <2>2, <2>3, <1>c, <1>t DEF OnceInv
<1> QED BY <1>1, <1>3, <1>4, <1>5, <1>6, EffectKinds

LEMMA OnceInit == TaskInit => OnceInv
BY DEF TaskInit, OnceInv, ReceiptDue, IdleRun, In

LEMMA OnceStutter ==
  ASSUME OnceInv, UNCHANGED allVars
  PROVE  OnceInv'
BY DEF allVars, taskVars, OnceInv, ReceiptDue, In

LEMMA OnceAlways ==
  ASSUME OneCall
  PROVE  TaskSpec => []OnceInv
<1>1. CallInv /\ OnceInv /\ [TaskNext]_allVars => OnceInv'
  BY OnceStep, OnceStutter
<1> QED BY <1>1, OnceInit, CallAlways, PTL DEF TaskSpec

\* With one call at a time an intent takes effect at most once, but for the effects whose
\* receipt a crash or an exception prevented: retried or repeated, an approval re-runs
\* nothing.
THEOREM OncePerReceipt ==
  ASSUME OneCall
  PROVE  TaskSpec => []EffectOncePerReceipt
<1>1. CallInv /\ OnceInv => EffectOncePerReceipt
  <2> SUFFICES ASSUME CallInv, OnceInv, NEW i \in Intents PROVE effects[i] <= 1 + cut[i]
    BY DEF EffectOncePerReceipt
  <2>1. effects[i] \in Nat /\ cut[i] \in Nat
    BY DEF CallInv, TaskTypeOK
  <2> QED BY <2>1 DEF OnceInv
<1> QED BY <1>1, OnceAlways, CallAlways, PTL

-----------------------------------------------------------------------------
(* The runner, the gateway and the executor implement GovernedEffect *)

\* A capability is minted on a round that was drawn for an intent.
LEMMA MintedDrawn ==
  ASSUME IInv, SerialInv, NEW c \in Challenges, mints[c] > 0
  PROVE  rounds[c].intent # NoRound
BY DEF IInv, UnissuedOK, SerialInv, MintedUsed, Unissued

\* What was granted changes only when a capability is minted.
LEMMA GrantedKept ==
  ASSUME CallInv, SerialInv, TaskNext, mints' = mints, NEW i \in Intents
  PROVE  MintedFor(i)' = MintedFor(i)
<1>1. \A c \in Challenges : mints[c] > 0 => rounds'[c].intent = rounds[c].intent
  BY MintedDrawn, RoundKeepsIntent, CallStep DEF CallInv
<1> QED BY <1>1 DEF MintedFor

\* GovernedEffect counts as this module does.
LEMMA SameCount == \A S : Governed!Cardinality(S) = Cardinality(S)
BY DEF Governed!Cardinality, Cardinality

LEMMA EffectInitially == TaskInit => Governed!EffectInit
<1> SUFFICES ASSUME TaskInit PROVE Governed!EffectInit
  OBVIOUS
<1>1. \A i \in Intents : MintedFor(i) = {}
  BY DEF TaskInit, GatewayInit, MintedFor
<1>2. {g \in Gates : succeeded[g] # NoArtifact} = {}
  BY DEF TaskInit, NoArtifacts, Gates
<1> QED BY <1>1, <1>2 DEF TaskInit, Governed!EffectInit

\* Where no round mints twice, there are as many capabilities as rounds that minted.
LEMMA OneEach ==
  ASSUME CallInv, AuthorityInv, AuthorizedOnce, NEW i
  PROVE  Cardinality(Capabilities(i)) <= Cardinality(MintedFor(i))
<1> DEFINE round == [x \in Capabilities(i) |-> x[1]]
<1>1. ASSUME NEW x \in Capabilities(i)
      PROVE  x[1] \in MintedFor(i) /\ x = <<x[1], 1>>
  <2>1. PICK c \in Challenges : \E n \in 1..mints[c] : rounds[c].intent = i /\ x = <<c, n>>
    BY CapabilitiesAre
  <2>2. PICK n \in 1..mints[c] : rounds[c].intent = i /\ x = <<c, n>>
    BY <2>1
  <2>3. mints[c] \in Nat /\ mints[c] <= 1
    BY DEF AuthorizedOnce, CallInv, IInv, TypeOK
  <2>4. n = 1 /\ mints[c] > 0
    BY <2>2, <2>3
  <2> QED BY <2>2, <2>4 DEF MintedFor
<1>2. round \in Injection(Capabilities(i), MintedFor(i))
  BY <1>1 DEF Injection, IsInjective
<1>3. IsFiniteSet(MintedFor(i))
  BY MintedForFinite DEF AuthorityInv
<1> QED BY <1>2, <1>3, FS_Injection

LEMMA EffectImplemented ==
  ASSUME OneCall, CallInv, SerialInv, OnceInv, GateInv, AuthorityInv, TaskNext
  PROVE  Governed!EffectNext \/ UNCHANGED Governed!effectVars
<1> DEFINE granted == [i \in Intents |-> MintedFor(i)]
           passed == {g \in Gates : succeeded[g] # NoArtifact}
<1>t. /\ RecordTypes /\ \A s \in Sessions : RunOK(s)
      /\ mints \in [Challenges -> Nat]
  BY TaskTypes DEF CallInv, IInv, TypeOK
<1>k. mints' = mints => granted' = granted
  BY GrantedKept
<1>p. (\A g \in Gates : succeeded'[g] = succeeded[g]) => passed' = passed
  BY DEF Gates
<1>1. CASE Uneventful
  <2>1. granted' = granted /\ passed' = passed /\ UNCHANGED <<effects, executed>>
    BY <1>1, <1>k, <1>p DEF Uneventful
  <2> QED BY <2>1 DEF Governed!effectVars
<1>2. ASSUME NEW s \in Sessions, Authorizes(s) PROVE Governed!EffectNext
  <2> DEFINE i0 == sess[s].intent
             c0 == sess[s].ref
  <2>1. /\ i0 \in Intents /\ mints' = [mints EXCEPT ![c0] = @ + 1] /\ rounds' = rounds
        /\ passed' = passed /\ UNCHANGED <<effects, executed>> /\ sess[s].pc = "mint"
    BY <1>2, <1>p DEF Authorizes, Mint, At, ledgerVars, worldVars
  <2>2. c0 \in Challenges /\ rounds[c0].intent = i0 /\ mints[c0] = 0
    BY <2>1 DEF CallInv, IInv, TypeOK, Session, SessionOK, SerialInv, SerialOK, At
  <2> HIDE DEF i0, c0
  <2>3. \A j \in Intents : c0 \notin granted[j]
    BY <2>2 DEF MintedFor
  <2>4. \A i \in Intents : MintedFor(i)' = IF i = i0 THEN MintedFor(i) \cup {c0} ELSE MintedFor(i)
    BY <2>1, <2>2, <1>t DEF MintedFor
  <2>5. granted' = [granted EXCEPT ![i0] = @ \cup {c0}]
    BY <2>1, <2>4
  <2>6. Governed!Grant(i0, c0)
    BY <2>1, <2>3, <2>5 DEF Governed!Grant
  <2> QED BY <2>1, <2>2, <2>6 DEF Governed!EffectNext
<1>3. ASSUME NEW s \in Sessions, Finds(s) PROVE UNCHANGED Governed!effectVars
  <2>1. granted' = granted /\ passed' = passed /\ UNCHANGED <<effects, executed>>
    BY <1>3, <1>k, <1>p DEF Finds, gwVars
  <2> QED BY <2>1 DEF Governed!effectVars
<1>4. ASSUME NEW s \in Sessions, Performs(s) PROVE Governed!EffectNext
  <2> DEFINE i == run[s].intent
  <2>1. /\ i \in Intents /\ run[s].pc = "effect" /\ i \notin executed
        /\ granted' = granted /\ passed' = passed /\ executed' = executed
        /\ effects' = [effects EXCEPT ![i] = @ + 1]
    BY <1>4, <1>k, <1>p, <1>t DEF Performs, gwVars, RunOK, Approving, OnceInv
  <2>2. effects[i] < Cardinality(granted[i])
    <3>1. s \in InHand(i) /\ IsFiniteSet(InHand(i))
      BY <2>1, InHandCount DEF InHand
    <3>2. Cardinality(InHand(i)) \in Nat /\ Cardinality(InHand(i)) # 0
      BY <3>1, FS_EmptySet, FS_CardinalityType
    <3>3. effects[i] + Cardinality(InHand(i)) <= Cardinality(MintedFor(i))
      <4>1. effects[i] + Cardinality(InHand(i)) <= Cardinality(Capabilities(i))
        BY <2>1 DEF AuthorityInv
      <4>2. Cardinality(Capabilities(i)) <= Cardinality(MintedFor(i))
        BY OneEach DEF SerialInv
      <4>3. /\ effects[i] \in Nat /\ Cardinality(InHand(i)) \in Nat
            /\ Cardinality(Capabilities(i)) \in Nat /\ Cardinality(MintedFor(i)) \in Nat
        BY <2>1, <1>t, InHandCount, MintedForFinite, CapabilitiesFinite
        DEF RecordTypes, AuthorityInv
      <4> QED BY <4>1, <4>2, <4>3
    <3>4. effects[i] \in Nat /\ Cardinality(MintedFor(i)) \in Nat
      BY <2>1, <1>t, MintedForFinite DEF RecordTypes, AuthorityInv
    <3> QED BY <2>1, <3>2, <3>3, <3>4
  <2>3. Governed!Perform(i)
    BY <2>1, <2>2, SameCount DEF Governed!Perform
  <2> QED BY <2>1, <2>3 DEF Governed!EffectNext
<1>5. ASSUME NEW s \in Sessions, Receipts(s) PROVE Governed!EffectNext
  <2> DEFINE i == run[s].intent
  <2>1. /\ i \in Intents /\ effects[i] > 0
        /\ granted' = granted /\ passed' = passed /\ effects' = effects
        /\ executed' = executed \cup {i}
    BY <1>5, <1>k, <1>p, <1>t DEF Receipts, gwVars, RunOK, Approving, GateInv, In
  <2>2. Governed!WriteReceipt(i)
    BY <2>1 DEF Governed!WriteReceipt
  <2> QED BY <2>1, <2>2 DEF Governed!EffectNext
<1>6. ASSUME NEW s \in Sessions, Settles(s) PROVE Governed!EffectNext
  <2>0. PICK g \in Gates : g = run[s].gate
    BY <1>6, <1>t DEF Settles, RunOK, Approving
  <2>1. /\ run[s].intent \in executed /\ GateOf(run[s].intent) = g
        /\ granted' = granted /\ UNCHANGED <<effects, executed>>
        /\ succeeded' = [succeeded EXCEPT ![g] = Authorized]
    BY <1>6, <1>k, <1>t, <2>0 DEF Settles, gwVars, RunOK, Approving, GateInv, In
  <2>2. passed' = passed \cup {g}
    BY <2>1, <1>t, TaskAssumption DEF RecordTypes, Gates
  <2>3. Governed!Pass(g)
    BY <2>1, <2>2 DEF Governed!Pass
  <2> QED BY <2>3 DEF Governed!EffectNext
<1> QED BY <1>1, <1>2, <1>3, <1>4, <1>5, <1>6, EffectKinds

LEMMA EffectStutters ==
  ASSUME UNCHANGED allVars
  PROVE  UNCHANGED Governed!effectVars
BY DEF allVars, taskVars, gwVars, Governed!effectVars, MintedFor, Gates

\* With one call at a time the runner, the gateway and the executor together implement
\* GovernedEffect, whatever crashes, expires or raises.
THEOREM GovernanceImplemented ==
  ASSUME OneCall
  PROVE  TaskSpec => ImplementsEffect
<1>1. CallInv /\ SerialInv /\ OnceInv /\ GateInv /\ AuthorityInv /\ [TaskNext]_allVars =>
        [Governed!EffectNext]_(Governed!effectVars)
  BY EffectImplemented, EffectStutters
<1> QED BY <1>1, EffectInitially, CallAlways, TaskSerialAlways, OnceAlways, GateAlways,
           AuthorityAlways, PTL DEF TaskSpec, ImplementsEffect, Governed!EffectSpec

-----------------------------------------------------------------------------
(* What a call asks of the gateway *)

\* Where a call of approve_step holds the ledger's artifacts, and where a call drives.
Resumed == {"begin", "drive", "agents", "decide", "park", "submit", "approve"}
Driven == {"drive", "agents"}

\* A call never holds an artifact the ledger has not, has the ledger's for every step it
\* passed, and brings to the gateway what the ledger yields.
DigestOK(s) ==
  /\ \A n \in Steps : run[s].artifacts[n] \in {NoArtifact, succeeded[n]}
  /\ run[s].op = "approve" /\ run[s].pc \in Resumed => run[s].artifacts = succeeded
  /\ run[s].pc \in Driven => \A k \in 1..(run[s].pos - 1) :
       run[s].artifacts[Order[k]] = succeeded[Order[k]]
  /\ In(s, "create") => run[s].op # "approve"
  /\ sess[s].pc # "idle" => \E g \in Gates : sess[s].intent = GateIntent(g, succeeded)

DigestInv == \A s \in Sessions : DigestOK(s)

\* The steps a step needs come before it.
LEMMA NeedsBefore ==
  ASSUME CallInv, NEW s \in Sessions, run[s].pos <= Len(Order), NEW m \in Needs[Here(s)]
  PROVE  m \in Steps /\ \E k \in 1..(run[s].pos - 1) : Order[k] = m
<1>1. Here(s) \in Steps /\ run[s].pos \in 1..Len(Order) /\ Here(s) = Order[run[s].pos]
  BY HereType DEF Here
<1>2. PICK j, k \in 1..Len(Order) : Order[j] = m /\ Order[k] = Here(s) /\ j < k
  BY <1>1, TaskAssumption DEF Before
<1>3. k = run[s].pos
  BY <1>1, <1>2, OrderInjective
<1>4. j \in 1..(run[s].pos - 1)
  BY <1>1, <1>2, <1>3, OrderType
<1> QED BY <1>2, <1>4, OrderType

\* A step that records nothing and takes no call on.
LEMMA DigestQuiet ==
  ASSUME CallInv', NEW s \in Sessions, DigestOK(s), succeeded' = succeeded,
         run'[s].pc \notin Asking,
         run'[s].artifacts \in {run[s].artifacts, NoArtifacts},
         run'[s].op = "approve" /\ run'[s].pc \in Resumed => run'[s].artifacts = succeeded,
         run'[s].pc \in Driven => /\ run[s].pc \in Driven /\ run'[s].pos = run[s].pos
                                  /\ run'[s].artifacts = run[s].artifacts,
         run'[s].pc = "create" => run'[s].op # "approve"
  PROVE  DigestOK(s)'
<1>1. sess'[s].pc = "idle"
  BY DEF CallInv, AskOK
<1>2. \A n \in Steps : NoArtifacts[n] = NoArtifact
  BY DEF NoArtifacts
<1> QED BY <1>1, <1>2 DEF DigestOK, In

\* A step after which the call is idle.
LEMMA DigestLeave ==
  ASSUME CallInv', NEW s \in Sessions, DigestOK(s), succeeded' = succeeded, run'[s] = IdleRun
  PROVE  DigestOK(s)'
<1>1. /\ IdleRun.pc = "idle" /\ IdleRun.artifacts = NoArtifacts
  BY DEF IdleRun
<1> QED BY <1>1, DigestQuiet DEF Asking, Resumed, Driven

LEMMA DigestBeginStep ==
  ASSUME CallInv, CallInv', NEW s \in Sessions, DigestOK(s),
         \/ Start(s) \/ Resume(s) \/ Create(s) \/ Reload(s) \/ Begin(s)
         \/ \E g \in Gates, a \in Assertions : Approve(s, g, a[1], a[2])
  PROVE  DigestOK(s)'
<1>t. run \in [Sessions -> Run] /\ succeeded \in [Steps -> Recorded]
  BY RunTypeOf DEF CallInv, TaskTypeOK
<1>0. succeeded' = succeeded
  BY DEF Start, Resume, Create, Reload, Begin, Approve, ledgerVars
<1>1. CASE Start(s) \/ Resume(s)
  <2>1. run'[s].artifacts = NoArtifacts /\ run'[s].op # "approve"
        /\ run'[s].pc \in {"create", "begin", "reload"}
    <3>1. CASE Start(s)
      BY <3>1, <1>t DEF Start, IdleRun
    <3>2. CASE Resume(s)
      BY <3>2, <1>t DEF Resume, IdleRun
    <3> QED BY <1>1, <3>1, <3>2
  <2> QED BY <1>0, <2>1, DigestQuiet DEF Asking, Driven
<1>2. ASSUME NEW g \in Gates, NEW a \in Assertions, Approve(s, g, a[1], a[2])
      PROVE  DigestOK(s)'
  <2>1. run'[s].artifacts = NoArtifacts /\ run'[s].pc = "reload"
    BY <1>2, <1>t DEF Approve, IdleRun
  <2> QED BY <1>0, <2>1, DigestQuiet DEF Asking, Driven, Resumed
<1>3. CASE Create(s)
  <2>1. run'[s].pc = "begin" /\ run'[s].op = run[s].op /\ run'[s].artifacts = run[s].artifacts
    BY <1>3, Moved DEF Create, RunPCs
  <2> QED BY <1>0, <1>3, <2>1, DigestQuiet DEF Create, DigestOK, Asking, Driven
<1>4. CASE Reload(s) \/ Begin(s)
  <2>1. CASE Reload(s)
    <3>1. run'[s].pc = "begin" /\ run'[s].artifacts = succeeded
      BY <2>1, <1>t DEF Reload, Run
    <3> QED BY <1>0, <3>1 DEF DigestOK, Driven, In, CallInv, AskOK, Asking
  <2>2. CASE Begin(s)
    <3>1. /\ run'[s].pc = "drive" /\ run'[s].artifacts = run[s].artifacts
          /\ run'[s].op = run[s].op /\ run'[s].pos = 1 /\ run[s].pc = "begin"
      BY <2>2, <1>t DEF Begin, Run, In
    <3>2. sess'[s].pc = "idle"
      BY <3>1 DEF CallInv, AskOK, Asking
    <3> QED BY <1>0, <3>1, <3>2 DEF DigestOK, Driven, Resumed, In
  <2> QED BY <1>4, <2>1, <2>2
<1> QED BY <1>1, <1>2, <1>3, <1>4

LEMMA DigestSkipStep ==
  ASSUME CallInv, CallInv', NEW s \in Sessions, DigestOK(s), SkipDone(s)
  PROVE  DigestOK(s)'
<1> DEFINE n == Here(s)
           old == run[s].artifacts[n]
           new == IF old = NoArtifact THEN succeeded[n] ELSE old
<1>t. /\ run \in [Sessions -> Run] /\ succeeded \in [Steps -> Recorded]
      /\ run[s].artifacts \in [Steps -> Recorded]
  BY RunTypeOf DEF CallInv, TaskTypeOK, Run
<1>0. run[s].pc = "drive" /\ run[s].pos <= Len(Order) /\ succeeded' = succeeded
  BY DEF SkipDone, Driving, In, ledgerVars
<1>1. n \in Steps /\ run[s].pos \in 1..Len(Order) /\ n = Order[run[s].pos]
  BY <1>0, HereType DEF Here
<1>2. new = succeeded[n]
  BY <1>1 DEF DigestOK
<1>3. /\ run'[s].pc = "drive" /\ run'[s].op = run[s].op /\ run'[s].pos = run[s].pos + 1
      /\ run'[s].artifacts = [run[s].artifacts EXCEPT ![n] = new]
  BY <1>0, <1>t DEF SkipDone, Run
<1> HIDE DEF n, new
<1>4. /\ run'[s].artifacts[n] = succeeded[n]
      /\ \A m \in Steps : m # n => run'[s].artifacts[m] = run[s].artifacts[m]
      /\ run'[s].artifacts \in [Steps -> Recorded]
  BY <1>1, <1>2, <1>3, <1>t
<1>5. \A m \in Steps : run'[s].artifacts[m] \in {NoArtifact, succeeded[m]}
  BY <1>4 DEF DigestOK
<1>6. ASSUME run[s].artifacts = succeeded PROVE run'[s].artifacts = succeeded
  <2> DEFINE f == run'[s].artifacts
  <2>1. f \in [Steps -> Recorded] /\ \A m \in Steps : f[m] = succeeded[m]
    BY <1>4, <1>6
  <2> HIDE DEF f
  <2>2. f = succeeded
    BY <2>1, <1>t
  <2> QED BY <2>2 DEF f
<1>7. \A k \in 1..run[s].pos : run'[s].artifacts[Order[k]] = succeeded[Order[k]]
  <2> SUFFICES ASSUME NEW k \in 1..run[s].pos
               PROVE  run'[s].artifacts[Order[k]] = succeeded[Order[k]]
    OBVIOUS
  <2>1. Order[k] \in Steps /\ (k = run[s].pos \/ k \in 1..(run[s].pos - 1))
    BY <1>1, OrderType
  <2> QED BY <1>0, <1>1, <1>4, <2>1 DEF DigestOK, Driven
<1>8. sess'[s].pc = "idle"
  BY <1>3 DEF CallInv, AskOK, Asking
<1>9. run'[s].pos - 1 = run[s].pos
  BY <1>1, <1>3, OrderType
<1> QED BY <1>0, <1>3, <1>5, <1>6, <1>7, <1>8, <1>9 DEF DigestOK, Resumed, In

LEMMA DigestOkStep ==
  ASSUME CallInv, CallInv', NEW s \in Sessions, DigestOK(s), NEW a \in Artifacts, StepOk(s, a)
  PROVE  DigestOK(s)'
<1> DEFINE n == Here(s)
<1>t. /\ run \in [Sessions -> Run] /\ succeeded \in [Steps -> Recorded]
      /\ run[s].artifacts \in [Steps -> Recorded] /\ RunOK(s)
  BY RunTypeOf DEF CallInv, TaskTypeOK, Run
<1>0. /\ run[s].pc = "agents" /\ run[s].pos <= Len(Order)
      /\ succeeded' = [succeeded EXCEPT ![n] = a]
  BY <1>t DEF StepOk, In, RunOK
<1>1. n \in Steps /\ run[s].pos \in 1..Len(Order) /\ n = Order[run[s].pos]
  BY <1>0, HereType DEF Here
<1>3. /\ run'[s].pc = "drive" /\ run'[s].op = run[s].op /\ run'[s].pos = run[s].pos + 1
      /\ run'[s].artifacts = [run[s].artifacts EXCEPT ![n] = a]
  BY <1>0, <1>t DEF StepOk, Run
<1> HIDE DEF n
<1>4. /\ run'[s].artifacts[n] = a /\ succeeded'[n] = a
      /\ \A m \in Steps : m # n => /\ run'[s].artifacts[m] = run[s].artifacts[m]
                                   /\ succeeded'[m] = succeeded[m]
  BY <1>0, <1>1, <1>3, <1>t
<1>5. \A m \in Steps : run'[s].artifacts[m] \in {NoArtifact, succeeded'[m]}
  BY <1>4 DEF DigestOK
<1>6. run[s].artifacts = succeeded => run'[s].artifacts = succeeded'
  BY <1>0, <1>3
<1>7. \A k \in 1..run[s].pos : run'[s].artifacts[Order[k]] = succeeded'[Order[k]]
  <2> SUFFICES ASSUME NEW k \in 1..run[s].pos
               PROVE  run'[s].artifacts[Order[k]] = succeeded'[Order[k]]
    OBVIOUS
  <2>1. Order[k] \in Steps /\ (k = run[s].pos \/ k \in 1..(run[s].pos - 1))
    BY <1>1, OrderType
  <2> QED BY <1>0, <1>1, <1>4, <2>1 DEF DigestOK, Driven
<1>8. sess'[s].pc = "idle"
  BY <1>3 DEF CallInv, AskOK, Asking
<1>9. run'[s].pos - 1 = run[s].pos
  BY <1>1, <1>3, OrderType
<1> QED BY <1>0, <1>3, <1>5, <1>6, <1>7, <1>8, <1>9 DEF DigestOK, Resumed, In

LEMMA DigestDecideStep ==
  ASSUME CallInv, CallInv', NEW s \in Sessions, DigestOK(s), DecideGate(s)
  PROVE  DigestOK(s)'
<1> DEFINE g == Here(s)
           i == GateIntent(g, run[s].artifacts)
           pc == IF sess'[s].pc = "idle" THEN "park" ELSE "decide"
<1>t. TypeOK
  BY DEF CallInv, IInv
<1>0. /\ Decide(s, i) /\ Move(s, pc) /\ g \in Gates /\ run[s].pc = "drive"
      /\ run[s].pos <= Len(Order) /\ succeeded' = succeeded
  BY DEF DecideGate, Driving, In, ledgerVars
<1>1. /\ run'[s].pc = pc /\ run'[s].op = run[s].op /\ run'[s].artifacts = run[s].artifacts
  BY <1>0, Moved DEF RunPCs
<1>2. \A m \in Needs[g] : run[s].artifacts[m] = succeeded[m]
  BY <1>0, NeedsBefore DEF DigestOK, Driven
<1>3. i = GateIntent(g, succeeded)
  BY <1>2 DEF GateIntent
<1>4. sess'[s].pc # "idle" => sess'[s].intent = i
  <2> DEFINE S == [IdleSession EXCEPT !.intent = i,
                     !.pc = IF TierOf(i) = "A1" THEN "count" ELSE "open"]
  <2>1. S.intent = i /\ IdleSession.pc = "idle"
    BY DEF IdleSession
  <2>2. sess' = [sess EXCEPT ![s] = S] \/ sess' = [sess EXCEPT ![s] = IdleSession]
    BY <1>0 DEF Decide, Return
  <2> HIDE DEF S, i
  <2> QED BY <1>t, <2>1, <2>2 DEF TypeOK
<1> HIDE DEF i, g
<1>5. sess'[s].pc # "idle" => \E h \in Gates : sess'[s].intent = GateIntent(h, succeeded)
  BY <1>0, <1>3, <1>4
<1> QED BY <1>0, <1>1, <1>5 DEF DigestOK, Driven, Resumed, In

LEMMA DigestSubmitStep ==
  ASSUME CallInv, CallInv', NEW s \in Sessions, DigestOK(s), SubmitGate(s)
  PROVE  DigestOK(s)'
<1> DEFINE g == run[s].gate
           i == GateIntent(g, run[s].artifacts)
<1>t. TypeOK /\ run \in [Sessions -> Run] /\ RunOK(s)
  BY RunTypeOf DEF CallInv, IInv
<1>0. /\ Submit(s, i, run[s].by, run[s].over) /\ run[s].pc = "submit" /\ succeeded' = succeeded
      /\ run' = IF sess'[s].pc = "idle" THEN [run EXCEPT ![s] = IdleRun]
                ELSE [run EXCEPT ![s].pc = "approve", ![s].intent = i]
  BY DEF SubmitGate, In, ledgerVars
<1>1. g \in Gates /\ run[s].artifacts = succeeded
  BY <1>0, <1>t DEF RunOK, Approving, DigestOK, Resumed
<1>2. CASE sess'[s].pc = "idle"
  <2>1. run'[s] = IdleRun
    BY <1>0, <1>2, <1>t
  <2> QED BY <1>0, <2>1, DigestLeave
<1>3. CASE sess'[s].pc # "idle"
  <2>1. /\ run'[s].pc = "approve" /\ run'[s].op = run[s].op
        /\ run'[s].artifacts = run[s].artifacts
    <3> HIDE DEF i
    <3> QED BY <1>0, <1>3, <1>t DEF Run
  <2>2. sess'[s].intent = i
    <3> DEFINE S == [IdleSession EXCEPT !.pc = "get", !.op = "submit",
                       !.intent = i, !.by = run[s].by, !.over = run[s].over]
    <3>1. S.intent = i /\ IdleSession.pc = "idle"
      BY DEF IdleSession
    <3>2. sess' = [sess EXCEPT ![s] = S] \/ sess' = [sess EXCEPT ![s] = IdleSession]
      BY <1>0 DEF Submit, Return
    <3> HIDE DEF S, i
    <3> QED BY <1>3, <1>t, <3>1, <3>2 DEF TypeOK
  <2>3. \E h \in Gates : sess'[s].intent = GateIntent(h, succeeded)
    BY <1>1, <2>2
  <2> HIDE DEF i
  <2> QED BY <1>0, <1>1, <2>1, <2>3 DEF DigestOK, Driven, In
<1> QED BY <1>2, <1>3

LEMMA DigestGatewayStep ==
  ASSUME CallInv, CallInv', NEW s \in Sessions, DigestOK(s), InGateway(s)
  PROVE  DigestOK(s)'
<1>t. TypeOK /\ SessionOK(s) /\ run \in [Sessions -> Run] /\ AskOK(s)
  BY RunTypeOf DEF CallInv, IInv
<1>0. /\ succeeded' = succeeded /\ sess[s].pc # "idle" /\ run[s].pc \in Asking
      /\ sess'[s].pc # "idle" => sess'[s].intent = sess[s].intent
  BY <1>t, GatewayStepKeeps DEF InGateway, ledgerVars, AskOK
<1>1. CASE sess'[s].pc # "idle"
  <2>1. run' = run
    BY <1>1 DEF InGateway
  <2> QED BY <1>0, <1>1, <2>1 DEF DigestOK, In
<1>2. CASE sess'[s].pc = "idle" /\ Leave(s)
  <2>1. run'[s] = IdleRun
    BY <1>2, <1>t DEF Leave
  <2> QED BY <1>0, <2>1, DigestLeave
<1>3. ASSUME NEW pc \in {"park", "execute"}, Move(s, pc), pc = "park" => In(s, "decide")
      PROVE  DigestOK(s)'
  <2>1. /\ run'[s].pc = pc /\ run'[s].op = run[s].op /\ run'[s].artifacts = run[s].artifacts
    BY <1>3, Moved DEF RunPCs
  <2>2. run'[s].op = "approve" /\ run'[s].pc \in Resumed => run'[s].artifacts = succeeded
    BY <1>3, <2>1 DEF Resumed, DigestOK, In
  <2> QED BY <1>0, <1>3, <2>1, <2>2, DigestQuiet DEF Asking, Driven
<1> QED BY <1>1, <1>2, <1>3 DEF InGateway

LEMMA DigestMoveStep ==
  ASSUME CallInv, CallInv', NEW s \in Sessions, DigestOK(s),
         \/ BeginAgents(s) \/ Park(s) \/ Finish(s) \/ Execute(s) \/ Effect(s) \/ Receipt(s)
         \/ StepDeferred(s) \/ StepError(s) \/ StepUnverified(s) \/ Raise(s)
         \/ \E r \in Results : Checkpoint(s, r)
  PROVE  DigestOK(s)'
<1>t. run \in [Sessions -> Run]
  BY RunTypeOf
<1>0. succeeded' = succeeded
  BY DEF BeginAgents, Park, Finish, Execute, Effect, Receipt, StepDeferred, StepError,
     StepUnverified, Raise, Checkpoint, ledgerVars
<1>1. CASE Leave(s)
  BY <1>0, <1>1, <1>t, DigestLeave DEF Leave
<1>2. CASE run[s].pc \in {"drive", "agents", "park"} /\ DriveReturns(s) /\ ~Leave(s)
  <2>1. Move(s, "submit") /\ "submit" \in RunPCs
    BY <1>2 DEF DriveReturns, RunPCs
  <2>2. run'[s].pc = "submit" /\ run'[s].op = run[s].op /\ run'[s].artifacts = run[s].artifacts
    BY <2>1, Moved
  <2> QED BY <1>0, <1>2, <2>2, DigestQuiet DEF DigestOK, Resumed, Asking, Driven
<1>3. CASE BeginAgents(s)
  <2>1. run'[s].pc = "agents" /\ run'[s].op = run[s].op /\ run'[s].artifacts = run[s].artifacts
        /\ run'[s].pos = run[s].pos /\ run[s].pc = "drive"
    BY <1>3, Moved DEF BeginAgents, Driving, In, RunPCs
  <2> QED BY <1>0, <2>1, DigestQuiet DEF DigestOK, Resumed, Asking, Driven
<1>4. ASSUME NEW pc \in {"settle", "effect", "receipt"}, Move(s, pc) PROVE DigestOK(s)'
  <2>1. run'[s].pc = pc /\ run'[s].op = run[s].op /\ run'[s].artifacts = run[s].artifacts
    BY <1>4, Moved DEF RunPCs
  <2> QED BY <1>0, <1>4, <2>1, DigestQuiet DEF DigestOK, Resumed, Asking, Driven
<1>5. ASSUME NEW r \in Results, Checkpoint(s, r) PROVE DigestOK(s)'
  BY <1>5, <1>0, DigestQuiet DEF Checkpoint, DigestOK, Resumed, Driven, Asking, In
<1>6. CASE StepDeferred(s) \/ StepUnverified(s) \/ Park(s) \/ Finish(s)
  BY <1>1, <1>2, <1>6 DEF StepDeferred, StepUnverified, Park, Finish, In
<1>7. CASE StepError(s) \/ Raise(s)
  BY <1>1, <1>7 DEF StepError, Raise
<1>8. CASE Execute(s) \/ Effect(s) \/ Receipt(s)
  BY <1>1, <1>4, <1>8 DEF Execute, Effect, Receipt
<1> QED BY <1>3, <1>5, <1>6, <1>7, <1>8

LEMMA DigestSettleStep ==
  ASSUME CallInv, CallInv', NEW s \in Sessions, DigestOK(s), Settle(s)
  PROVE  DigestOK(s)'
<1>1. /\ run'[s].artifacts = NoArtifacts /\ run'[s].pc = "reload"
  BY RunTypeOf DEF Settle, IdleRun
<1>2. sess'[s].pc = "idle"
  BY <1>1 DEF CallInv, AskOK, Asking
<1> QED BY <1>1, <1>2 DEF DigestOK, NoArtifacts, Resumed, Driven, In

LEMMA DigestStep ==
  ASSUME OneCall, CallInv, DigestInv, TaskNext
  PROVE  DigestInv'
<1>q. CallInv' /\ \A s \in Sessions : DigestOK(s)
  BY CallStep DEF DigestInv
<1>1. ASSUME NEW s \in Sessions, DigestOK(s)' PROVE DigestInv'
  BY <1>1 DEF DigestInv, OneCall
<1>2. ASSUME NEW s \in Sessions,
             \/ Start(s) \/ Resume(s)
             \/ \E g \in Gates, a \in Assertions : Approve(s, g, a[1], a[2])
      PROVE  DigestInv'
  BY <1>1, <1>2, <1>q, DigestBeginStep
<1>3. ASSUME NEW s \in Sessions, RunStep(s) PROVE DigestInv'
  BY <1>1, <1>3, <1>q, DigestBeginStep, DigestSkipStep, DigestOkStep, DigestDecideStep,
     DigestSubmitStep, DigestGatewayStep, DigestMoveStep, DigestSettleStep DEF RunStep
<1>4. ASSUME NEW s \in Sessions, StepDeferred(s) \/ StepError(s) \/ StepUnverified(s) \/ Raise(s)
      PROVE  DigestInv'
  BY <1>1, <1>4, <1>q, DigestMoveStep
<1>5. ASSUME NEW c \in Challenges, Expire(c), UNCHANGED taskVars PROVE DigestInv'
  BY <1>5, <1>q DEF DigestInv, DigestOK, Expire, taskVars, In
<1>6. ASSUME NEW r \in Replicas, Crash(r) PROVE DigestInv'
  <2> SUFFICES ASSUME NEW s \in Sessions PROVE DigestOK(s)'
    BY DEF DigestInv
  <2>1. succeeded' = succeeded
    BY <1>6 DEF Crash, ledgerVars
  <2>2. CASE Home[s] = r
    <3>1. run'[s] = IdleRun
      BY <1>6, <2>2 DEF Crash
    <3> QED BY <1>q, <2>1, <3>1, DigestLeave
  <2>3. CASE Home[s] # r
    <3>1. run'[s] = run[s] /\ sess'[s] = sess[s]
      BY <1>6, <2>3 DEF Crash, GatewayCrash
    <3> QED BY <1>q, <2>1, <3>1 DEF DigestOK, In
  <2> QED BY <2>2, <2>3
<1> QED BY <1>2, <1>3, <1>4, <1>5, <1>6 DEF TaskNext

LEMMA DigestInit == TaskInit => DigestInv
BY DEF TaskInit, GatewayInit, DigestInv, DigestOK, NoArtifacts, IdleRun, IdleSession, Resumed,
   Driven, In

LEMMA DigestStutter ==
  ASSUME DigestInv, UNCHANGED allVars
  PROVE  DigestInv'
BY DEF allVars, taskVars, gwVars, DigestInv, DigestOK, In

LEMMA DigestAlways ==
  ASSUME OneCall
  PROVE  TaskSpec => []DigestInv
<1>1. CallInv /\ DigestInv /\ [TaskNext]_allVars => DigestInv'
  BY DigestStep, DigestStutter
<1> QED BY <1>1, DigestInit, CallAlways, PTL DEF TaskSpec

\* With one call at a time the intent of a gate is the same at park time and at approve
\* time: the one the ledger yields, across failures, crashes and repeated runs of the
\* steps before it.
THEOREM DigestKept ==
  ASSUME OneCall
  PROVE  TaskSpec => []DigestStable
<1>1. CallInv /\ DigestInv => DigestStable
  <2> SUFFICES ASSUME CallInv, DigestInv, NEW s \in Sessions, sess[s].pc # "idle"
               PROVE  sess[s].intent = GateIntent(GateOf(sess[s].intent), succeeded)
    BY DEF DigestStable
  <2>1. PICK g \in Gates : sess[s].intent = GateIntent(g, succeeded)
    BY DEF DigestInv, DigestOK
  <2>2. GateOf(sess[s].intent) = g
    BY <2>1, GateIntentType DEF CallInv, TaskTypeOK
  <2> QED BY <2>1, <2>2
<1> QED BY <1>1, DigestAlways, CallAlways, PTL

-----------------------------------------------------------------------------
(* A task that succeeded *)

Granting == Approving \ {"submit"}

\* The tool of an intent is the one its gate's policy names.
Proposed(i) == i.tool = Policy[GatePolicy[GateOf(i)]].tool

\* Once the task succeeded a call passes over every step of it; what a call was granted is
\* its gate's, and what it performs has a handler.
FinalOK(s) ==
  /\ state = "SUCCEEDED" => /\ run[s].pc \notin {"agents", "decide", "park"}
                            /\ In(s, "drive") => run[s].done = Steps
  /\ run[s].pc \in Granting => Proposed(run[s].intent)
  /\ run[s].pc \in {"effect", "receipt"} => run[s].intent.tool \in Handled

FinalInv ==
  /\ \A i \in executed : i.tool \in Handled /\ Proposed(i)
  /\ \A s \in Sessions : FinalOK(s)

LEMMA FinalElsewhere ==
  ASSUME NEW s, run'[s].pc \in {"idle", "create", "begin", "reload", "submit"}
  PROVE  FinalOK(s)'
BY DEF FinalOK, In, Granting, Approving

LEMMA FinalBeginStep ==
  ASSUME CallInv, DriveInv, NEW s \in Sessions,
         \/ Start(s) \/ Resume(s) \/ Create(s) \/ Reload(s) \/ Begin(s) \/ Settle(s)
         \/ \E g \in Gates, a \in Assertions : Approve(s, g, a[1], a[2])
  PROVE  FinalOK(s)'
<1>t. run \in [Sessions -> Run]
  BY RunTypeOf
<1>1. CASE Start(s) \/ Resume(s) \/ Settle(s)
           \/ \E g \in Gates, a \in Assertions : Approve(s, g, a[1], a[2])
  <2>1. run'[s].pc \in {"create", "begin", "reload"}
    <3>1. CASE Start(s)
      <4>1. run'[s].pc = (IF created = 0 /\ Completed = {} THEN "create" ELSE "begin")
        BY <3>1, <1>t DEF Start, IdleRun
      <4> QED BY <4>1
    <3>2. CASE Resume(s)
      BY <3>2, <1>t DEF Resume, IdleRun
    <3>3. CASE Settle(s)
      BY <3>3, <1>t DEF Settle
    <3>4. CASE \E g \in Gates, a \in Assertions : Approve(s, g, a[1], a[2])
      <4>1. PICK g \in Gates, a \in Assertions : Approve(s, g, a[1], a[2])
        BY <3>4
      <4>2. run'[s] = [IdleRun EXCEPT !.pc = "reload", !.op = "approve", !.gate = g,
                                      !.by = a[1], !.over = a[2]]
        BY <4>1, <1>t DEF Approve
      <4> QED BY <4>2 DEF IdleRun
    <3> QED BY <1>1, <3>1, <3>2, <3>3, <3>4
  <2> QED BY <2>1, FinalElsewhere
<1>2. CASE Create(s) \/ Reload(s)
  <2>1. run'[s].pc = "begin"
    <3>1. CASE Create(s)
      BY <3>1, <1>t DEF Create, Move, Run
    <3>2. CASE Reload(s)
      BY <3>2, <1>t DEF Reload, Run
    <3> QED BY <1>2, <3>1, <3>2
  <2> QED BY <2>1, FinalElsewhere
<1>3. CASE Begin(s)
  <2>1. run'[s].pc = "drive" /\ run'[s].done = Completed /\ state' = state
    BY <1>3, <1>t DEF Begin, Run, ledgerVars
  <2> QED BY <2>1 DEF FinalOK, In, Granting, Approving, DriveInv, SucceededMeansAll
<1> QED BY <1>1, <1>2, <1>3

LEMMA StepOkDrives ==
  ASSUME CallInv, NEW s \in Sessions, NEW a \in Artifacts, StepOk(s, a)
  PROVE  run'[s].pc = "drive"
<1> DEFINE n == Here(s)
<1>1. run \in [Sessions -> Run] /\ run[s].artifacts \in [Steps -> Recorded]
  BY RunTypeOf DEF Run
<1>2. /\ run'[s].pc = "drive" /\ run'[s].op = run[s].op
      /\ run'[s].artifacts = [run[s].artifacts EXCEPT ![n] = a]
  BY <1>1 DEF StepOk, Run
<1> QED BY <1>2

LEMMA FinalDriveStep ==
  ASSUME CallInv, NEW s \in Sessions, FinalOK(s),
         \/ SkipDone(s) \/ BeginAgents(s) \/ DecideGate(s) \/ Park(s) \/ Finish(s)
         \/ StepDeferred(s) \/ StepError(s) \/ StepUnverified(s) \/ Raise(s)
         \/ (\E r \in Results : Checkpoint(s, r)) \/ \E a \in Artifacts : StepOk(s, a)
  PROVE  FinalOK(s)' /\ (state = "SUCCEEDED" => state' = "SUCCEEDED")
<1>t. run \in [Sessions -> Run] /\ RunOK(s)
  BY RunTypeOf DEF CallInv
<1>1. CASE SkipDone(s)
  <2>1. run'[s].pc = "drive" /\ run'[s].done = run[s].done /\ state' = state /\ In(s, "drive")
    BY <1>1, <1>t DEF SkipDone, Driving, Run, ledgerVars, In
  <2> QED BY <2>1 DEF FinalOK, In, Granting, Approving
<1>2. CASE BeginAgents(s) \/ DecideGate(s)
  <2>1. /\ In(s, "drive") /\ Here(s) \notin run[s].done /\ run[s].pos <= Len(Order)
        /\ state' = state
    BY <1>2 DEF BeginAgents, DecideGate, Driving, ledgerVars
  <2>2. state # "SUCCEEDED"
    BY <2>1, HereType DEF FinalOK
  <2>3. run'[s].pc \in {"agents", "decide", "park"}
    BY <1>2, Moved DEF BeginAgents, DecideGate, RunPCs
  <2> QED BY <2>1, <2>2, <2>3 DEF FinalOK, Granting, Approving
<1>3. CASE run[s].pc \in {"agents", "park"} /\ state' \in {state, "FAILED_RETRYABLE", "WAITING_FOR_HUMAN"}
           /\ run'[s].pc \in {"idle", "submit", "agents", "drive"}
  BY <1>3 DEF FinalOK, Granting, Approving, In
<1>4. CASE Finish(s)
  <2>1. run'[s].pc \in {"idle", "submit"} /\ state' = "SUCCEEDED"
    BY <1>4, OthersRun DEF Finish
  <2> QED BY <2>1, FinalElsewhere
<1>5. CASE Park(s) \/ StepDeferred(s) \/ StepError(s) \/ StepUnverified(s)
  <2>1. run[s].pc \in {"agents", "park"} /\ state' \in {"FAILED_RETRYABLE", "WAITING_FOR_HUMAN"}
        /\ (Leave(s) \/ DriveReturns(s))
    BY <1>5 DEF Park, StepDeferred, StepError, StepUnverified, In
  <2> QED BY <1>3, <2>1, OthersRun
<1>6. CASE Raise(s)
  <2>1. state' = state /\ Leave(s)
    BY <1>6 DEF Raise, ledgerVars
  <2> QED BY <2>1, OthersRun, FinalElsewhere
<1>7. CASE \E r \in Results : Checkpoint(s, r)
  BY <1>3, <1>7 DEF Checkpoint, ledgerVars, In
<1>8. ASSUME NEW a \in Artifacts, StepOk(s, a)
      PROVE  FinalOK(s)' /\ (state = "SUCCEEDED" => state' = "SUCCEEDED")
  <2>1. run[s].pc = "agents" /\ state' = state
    BY <1>8 DEF StepOk, In
  <2>2. run'[s].pc = "drive"
    BY <1>8, StepOkDrives
  <2> QED BY <2>1, <2>2 DEF FinalOK, Granting, Approving, In
<1> QED BY <1>1, <1>2, <1>4, <1>5, <1>6, <1>7, <1>8

LEMMA FinalAskStep ==
  ASSUME CallInv, NEW s \in Sessions, FinalOK(s), SubmitGate(s) \/ InGateway(s)
  PROVE  FinalOK(s)' /\ state' = state
<1>t. run \in [Sessions -> Run] /\ RunOK(s) /\ AskOK(s) /\ TypeOK /\ SessionOK(s)
  BY RunTypeOf DEF CallInv, IInv
<1>0. state' = state
  BY DEF SubmitGate, InGateway, ledgerVars
<1>1. CASE SubmitGate(s)
  <2> DEFINE i == GateIntent(run[s].gate, run[s].artifacts)
  <2>1. \/ run'[s].pc = "idle"
        \/ run'[s].pc = "approve" /\ run'[s].intent = i
    <3> HIDE DEF i
    <3>1. run' = IF sess'[s].pc = "idle" THEN [run EXCEPT ![s] = IdleRun]
                 ELSE [run EXCEPT ![s].pc = "approve", ![s].intent = i]
      BY <1>1 DEF SubmitGate, i
    <3>2. IdleRun.pc = "idle"
      BY DEF IdleRun
    <3> QED BY <3>1, <3>2, <1>t DEF Run
  <2>2. Proposed(i)
    BY DEF Proposed, GateIntent, GateOf
  <2> HIDE DEF i
  <2>3. CASE run'[s].pc = "idle"
    BY <1>0, <2>3, FinalElsewhere
  <2>4. CASE run'[s].pc = "approve" /\ run'[s].intent = i
    BY <1>0, <2>2, <2>4 DEF FinalOK, In, Proposed, GateOf
  <2> QED BY <2>1, <2>3, <2>4
<1>2. CASE InGateway(s)
  <2>1. run[s].pc \in Asking
    BY <1>2, <1>t, GatewayStepKeeps DEF InGateway, AskOK
  <2>2. CASE run' = run
    BY <1>0, <2>2 DEF FinalOK, In, Proposed, GateOf
  <2>3. CASE Leave(s)
    BY <1>0, <2>3, OthersRun, FinalElsewhere
  <2>4. CASE In(s, "decide") /\ Move(s, "park")
    <3>1. run'[s].pc = "park" /\ state # "SUCCEEDED"
      BY <2>4, Moved DEF FinalOK, RunPCs, In
    <3> QED BY <1>0, <3>1 DEF FinalOK, In, Granting, Approving
  <2>5. CASE ~In(s, "decide") /\ Move(s, "execute")
    <3>1. run'[s].pc = "execute" /\ run'[s].intent = run[s].intent /\ run[s].pc = "approve"
      BY <2>1, <2>5, Moved DEF RunPCs, Asking, In
    <3> QED BY <1>0, <3>1 DEF FinalOK, In, Granting, Approving, Proposed, GateOf
  <2> QED BY <1>2, <2>2, <2>3, <2>4, <2>5 DEF InGateway
<1> QED BY <1>0, <1>1, <1>2

LEMMA FinalExecuteStep ==
  ASSUME CallInv, DriveInv, GateInv, FinalInv, NEW s \in Sessions,
         Execute(s) \/ Effect(s) \/ Receipt(s)
  PROVE  FinalOK(s)' /\ (state = "SUCCEEDED" => state' = "SUCCEEDED")
<1> DEFINE i == run[s].intent
<1>t. RunOK(s) /\ FinalOK(s)
  BY DEF CallInv, FinalInv
<1>1. CASE Effect(s) \/ Receipt(s)
  <2>1. PICK pc \in {"receipt", "settle"} : Move(s, pc) /\ run[s].pc \in {"effect", "receipt"}
                                            /\ state' = state
    BY <1>1 DEF Effect, Receipt, ledgerVars, In
  <2>2. run'[s].pc = pc /\ run'[s].intent = i
    BY <2>1, Moved DEF RunPCs
  <2> QED BY <1>t, <2>1, <2>2 DEF FinalOK, In, Granting, Approving, Proposed, GateOf
<1>2. CASE Execute(s) /\ (i \in executed \/ i.tool \in Handled)
  <2>1. PICK pc \in {"effect", "settle"} : Move(s, pc) /\ run[s].pc = "execute"
                     /\ state' = state /\ (pc = "effect" => i.tool \in Handled)
    BY <1>2 DEF Execute, In
  <2>2. run'[s].pc = pc /\ run'[s].intent = i
    BY <2>1, Moved DEF RunPCs
  <2> QED BY <1>t, <2>1, <2>2 DEF FinalOK, In, Granting, Approving, Proposed, GateOf
<1>3. CASE Execute(s) /\ i \notin executed /\ i.tool \notin Handled
  <2>1. Leave(s) /\ run[s].pc = "execute"
    BY <1>3 DEF Execute, In
  <2>2. /\ GateOf(i) = run[s].gate /\ run[s].gate \in Gates /\ Proposed(i)
    BY <2>1, <1>t DEF RunOK, FinalOK, Approving, Granting
  <2>3. ASSUME state = "SUCCEEDED" PROVE FALSE
    <3>1. run[s].gate \in Completed
      BY <2>2, <2>3 DEF DriveInv, SucceededMeansAll, Gates
    <3>2. PICK j \in executed : GateOf(j) = run[s].gate
      BY <2>2, <3>1 DEF GateInv, GateMeansEffect, Completed
    <3>3. j.tool \in Handled /\ j.tool = i.tool
      BY <2>2, <3>2 DEF FinalInv, Proposed
    <3> QED BY <1>3, <3>3
  <2>4. FinalOK(s)'
    BY <2>1, OthersRun, FinalElsewhere
  <2> QED BY <2>3, <2>4
<1> QED BY <1>1, <1>2, <1>3

LEMMA FinalReceipts ==
  ASSUME CallInv, FinalInv, TaskNext
  PROVE  \A i \in executed' : i.tool \in Handled /\ Proposed(i)
<1>1. CASE executed' = executed
  BY <1>1 DEF FinalInv
<1>2. ASSUME NEW s \in Sessions, Receipt(s)
      PROVE  \A i \in executed' : i.tool \in Handled /\ Proposed(i)
  <2>1. executed' = executed \cup {run[s].intent} /\ run[s].pc = "receipt" /\ FinalOK(s)
    BY <1>2 DEF Receipt, In, FinalInv
  <2>2. run[s].intent.tool \in Handled /\ Proposed(run[s].intent)
    BY <2>1 DEF FinalOK, Granting, Approving
  <2> QED BY <2>1, <2>2 DEF FinalInv
<1> QED BY <1>1, <1>2, LedgerKinds

LEMMA FinalStep ==
  ASSUME OneCall, CallInv, DriveInv, GateInv, FinalInv, TaskNext
  PROVE  FinalInv' /\ (state = "SUCCEEDED" => state' = "SUCCEEDED")
<1> DEFINE Final == FinalInv' /\ (state = "SUCCEEDED" => state' = "SUCCEEDED")
<1>q. \A s \in Sessions : FinalOK(s)
  BY DEF FinalInv
<1>r. (\A i \in executed : i.tool \in Handled /\ Proposed(i))'
  BY FinalReceipts DEF Proposed, GateOf
<1>0. ASSUME NEW s \in Sessions, FinalOK(s)' /\ (state = "SUCCEEDED" => state' = "SUCCEEDED")
      PROVE  Final
  BY <1>0, <1>r DEF FinalInv, OneCall
<1>1. ASSUME NEW s \in Sessions,
             \/ Start(s) \/ Resume(s) \/ Create(s) \/ Reload(s) \/ Begin(s) \/ Settle(s)
             \/ \E g \in Gates, a \in Assertions : Approve(s, g, a[1], a[2])
      PROVE  Final
  <2>1. state' = state
    BY <1>1 DEF Start, Resume, Create, Reload, Begin, Settle, Approve, ledgerVars
  <2>2. FinalOK(s)'
    BY <1>1, FinalBeginStep
  <2> QED BY <1>0, <2>1, <2>2
<1>2. ASSUME NEW s \in Sessions,
             \/ SkipDone(s) \/ BeginAgents(s) \/ DecideGate(s) \/ Park(s) \/ Finish(s)
             \/ StepDeferred(s) \/ StepError(s) \/ StepUnverified(s) \/ Raise(s)
             \/ (\E r \in Results : Checkpoint(s, r)) \/ \E a \in Artifacts : StepOk(s, a)
      PROVE  Final
  BY <1>0, <1>2, <1>q, FinalDriveStep
<1>3. ASSUME NEW s \in Sessions, SubmitGate(s) \/ InGateway(s) PROVE Final
  BY <1>0, <1>3, <1>q, FinalAskStep
<1>4. ASSUME NEW s \in Sessions, Execute(s) \/ Effect(s) \/ Receipt(s) PROVE Final
  BY <1>0, <1>4, FinalExecuteStep
<1>5. ASSUME NEW c \in Challenges, Expire(c), UNCHANGED taskVars PROVE Final
  BY <1>5, <1>q, <1>r DEF FinalInv, FinalOK, taskVars, In, Proposed, GateOf
<1>6. ASSUME NEW r \in Replicas, Crash(r) PROVE Final
  <2>0. state' = state
    BY <1>6 DEF Crash, ledgerVars
  <2>1. ASSUME NEW s \in Sessions PROVE FinalOK(s)'
    <3>1. CASE Home[s] = r
      <4>1. run'[s].pc = "idle"
        BY <1>6, <3>1 DEF Crash, IdleRun
      <4> QED BY <4>1, FinalElsewhere
    <3>2. CASE Home[s] # r
      <4>1. run'[s] = run[s]
        BY <1>6, <3>2 DEF Crash
      <4> QED BY <1>q, <2>0, <4>1 DEF FinalOK, In, Proposed, GateOf
    <3> QED BY <3>1, <3>2
  <2> QED BY <1>r, <2>0, <2>1 DEF FinalInv
<1>7. ASSUME NEW s \in Sessions, RunStep(s) PROVE Final
  BY <1>1, <1>2, <1>3, <1>4, <1>7 DEF RunStep
<1> QED BY <1>1, <1>2, <1>5, <1>6, <1>7 DEF TaskNext

LEMMA FinalInit == TaskInit => FinalInv
BY DEF TaskInit, FinalInv, FinalOK, IdleRun, In, Granting, Approving

LEMMA FinalStutter ==
  ASSUME FinalInv, UNCHANGED allVars
  PROVE  FinalInv'
BY DEF allVars, taskVars, FinalInv, FinalOK, In, Proposed, GateOf

LEMMA FinalAlways ==
  ASSUME OneCall
  PROVE  TaskSpec => []FinalInv
<1>1. CallInv /\ DriveInv /\ GateInv /\ FinalInv /\ [TaskNext]_allVars => FinalInv'
  BY FinalStep, FinalStutter
<1> QED BY <1>1, FinalInit, CallAlways, DriveAlways, GateAlways, PTL DEF TaskSpec

\* With one call at a time a task that succeeded stays so, whatever is resumed or
\* approved again and whatever crashes or raises.
THEOREM SucceededForGood ==
  ASSUME OneCall
  PROVE  TaskSpec => SucceededIsFinal
<1>1. CallInv /\ DriveInv /\ GateInv /\ FinalInv /\ [TaskNext]_allVars =>
        [state = "SUCCEEDED" => state' = "SUCCEEDED"]_allVars
  BY FinalStep
<1> QED BY <1>1, FinalAlways, CallAlways, DriveAlways, GateAlways, PTL DEF TaskSpec, SucceededIsFinal
=============================================================================
