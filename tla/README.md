# Company Command: a TLA+ model of its governance core

Company Command runs "governed tasks": workflows of agent steps and human gates.
An agent never acts on the world; a gate's action is classified into an assurance
tier (A0..A4), approved by people with passkeys, executed once, and everything is
recorded in a hash-chained event ledger from which a task is resumed after a
crash. This directory models that core in TLA+, checks it with TLC, and proves
its central safety properties with TLAPS. Paths below are relative to
`src/comcmd/`.

## Inventory

| Component | State it keeps | Operations | Interacts with |
|---|---|---|---|
| Action gateway (`gateway/gate.py`) | per-process call counters (`_calls`) | `decide`, `submit_approval`, `pending_approvals`, `challenge_for` | approval store, verifier, ledger |
| Approval stores (`gateway/approvals.py`, `gateway/stores_pg.py`) | one approval round per action digest: challenge, approvers, used, expiry | `open`, `get`, `add_approver`, `retire`, `pending` | shared by the threads of a process (memory) or by all replicas (Postgres) |
| Assurance policy (`gateway/policy.py`) | none | `classify`, `Bounds.within` | gateway |
| Credentials (`gateway/enrollment.py`, `gateway/webauthn_verifier.py`, `gateway/stores_pg.py`, `server/service.py`) | public keys, sign counts; enrollment challenges per process | `enroll_options`, `enroll_verify`, `verify`, `update_sign_count` | gateway |
| Task runner (`kernel/workflow.py`) | nothing durable of its own; a handle per call | `start`, `resume`, `approve_step` | ledger, workers, gateway, executor, durable engine |
| Executor (`kernel/executor.py`) | nothing; looks for receipts in the ledger | `execute` | tool handlers (the outside world), ledger |
| Durable engine (`kernel/dbos_engine.py`) | the result of each task's step | `run_step`, `run`, `enqueue` | task runner |
| Event ledger (`kernel/ledger.py`, `kernel/ledger_pg.py`) | rows of sealed events per company | `append`, `read`, `head_seal`, `verify_chain` | everything |
| Loop worker (`workers/loop.py`) | a repository clone per step and base commit, with the loop's state in it | `run` | git, the loop's runner, task runner |
| Other workers (`workers/*.py`) | none | `run(envelope)` | task runner |
| Compiler (`compile/compiler.py`) | none | `compile_company` | service, task runner (through the revision it yields) |
| Aggregation (`kernel/aggregate.py`) | none | `aggregate` | task runner |
| Specification, packs (`spec/`, `pack.py`) | none | `load_pack`, validation | compiler |
| HTTP service, CLI, evaluation (`server/`, `cli.py`, `eval/`) | a pack per process | requests, status, inbox | all of the above |

What makes it hard:

- **Concurrency.** The HTTP endpoints are synchronous functions, so a process serves
  requests on several threads, and docs/BACKEND.md has N replicas share one
  Postgres. Nothing holds a lock over `submit_approval`, `execute`, `start`,
  `_drive`, `verify` or `LoopWorker.run`: each is a sequence of reads and writes that
  others can come between.
- **Failure.** A process can die between any two of those steps; handlers, agents,
  clones and runners raise; tools may have no handler.
- **Time.** Approval rounds expire, and are reopened under the same digest; a
  repository moves while it is cloned.
- **Order.** Clients may call `approve_step` at any time, for any gate; the agents of
  a pool return in any order; a graph search meets the same cycle by different paths.

`PROJECT.json` lists each hazard at its line with the properties that cover it, or
the reason why none does.

What makes each component correct: the gateway grants only on a quorum of
distinct, eligible, verified principals, once per round, and fails closed; the
stores bring no spent round back; who may sign was enrolled in his own ceremony, and a
lagging copy of a key is noticed; a task does nothing without a grant, records
success only for what happened, runs in dependency order, and reaches its end; an
effect happens once per authorization and not again after its receipt; the durable
engine and the ledger agree; the ledger's chain never forks and shows damage; a
loop's workspace is its own, and what it finished stays finished; a company that
compiles can be ordered and is governed throughout.

## Modules

| Module | Models | Theorems |
|---|---|---|
| `Gateway` | gateway, policy, both approval stores | `GatewayProofs`, `GatewaySerialProofs` |
| `GovernedTask` (extends `Gateway`) | task runner, executor and durable engine over the gateway | `GovernedTaskProofs`, `GovernedTaskSerialProofs` |
| `GovernedEffect` | abstract: what governance promises of a task's effects; `GovernedTask` implements it | (the refinement is in `GovernedTaskSerialProofs`) |
| `EventLedger` | both ledgers | `EventLedgerProofs` |
| `Credentials` | enrollment, verification and sign counts, both credential stores | `CredentialsProofs` |
| `LoopWorker` | workspaces, resumption and evidence of the loop worker | `LoopWorkerProofs` |
| `Compiler` | compiler checks, cycle search, dependency order, pools and aggregation | `CompilerProofs` |
| `MCGateway`, `MCGovernedTask`, `MCEventLedger`, `MCCredentials`, `MCLoop`, `MCCompile` | instances for TLC | - |

In each module, a definition with a name such as `RetiredNever`, ahead of the
definition it varies, is a plausible bug in that definition. Each property of each
passing run was seen to fail when the variant takes the definition's place, so each
says something about the code.

### Gateway

A *session* is a thread that serves one call; its record holds the program point and
what the call has read. `GatewayStep` is one access to shared state: the
counter (`CountCalls`, `BumpCalls`), the store (`OpenRead`, `OpenWrite`, `Lookup`,
`AddApprover`, `Tally`, `RetireRound`, `Drop`), the verifier and the checks after it
(`Check`), and the grant (`Mint`). `Decide` and `Submit` start a call, `Expire`
passes the time-to-live of a round and `GatewayCrash` kills a replica.

- `Durable` selects the store. In memory, a session holds the *object* and sees
  later changes to it; on Postgres it holds the *row it read* (`Seen`, `view`). Pg
  writes are serialized by a lock per process (`StoreLockFree`), which `open` holds
  from its read to its write; replicas do not share it. The memory store has no lock.
- A challenge, 32 random bytes, names the round that drew it. `rounds` keeps old
  rounds so that properties can speak of them; the store sees only `table`.
- An intent stands for its digest (digests are taken as collision-free). A capability
  is the record of what it was minted on (`grants`), with `mints` counting them per
  round. `verified` is the approved `approval_resolved` events in the ledger.
- An assertion is a pair of a principal and a challenge signed. A principal may
  present one for any drawn challenge, of any round and any intent, and anyone may
  present one that does not verify. `principal` and credential are not told apart
  here: `Credentials` is about that relation.
- Receipts, telemetry and views are left out: nothing the model keeps depends on
  them. `decide`'s optional assertion is `Decide` followed by `Submit`.
- No shipped constructor passes `bounds`; the bounded-auto envelope is modelled as
  the library offers it.

### GovernedTask

One task of one workflow, for any number of concurrent calls. The ledger is
projected to what the code looks up: `created`, `succeeded` (step to artifact),
`executed` (receipts), `state` (last `task_state_changed`). `memo` is what the
durable engine keeps of a step. Ghost state says what happened in the world:
`effects` and `cut` (effects whose receipt was prevented).

`Start`, `Resume` and `Approve` begin a call; `Create`, `Reload` and `Begin` are its
ledger accesses up to the snapshot `_drive` takes; `SkipDone`, `BeginAgents`,
`StepOk`, `StepDeferred`, `StepError`, `StepUnverified`, `DecideGate`, `Park` and
`Finish` are the drive; `SubmitGate`, `InGateway`, `Execute`, `Effect`, `Receipt` and
`Settle` the rest of `approve_step`. `DecideGate` and `SubmitGate` start a gateway
call of the same session, whose steps are `InGateway`. `Raise` is an exception of a
worker or handler, also after the effect. `Order` stands for what
`_in_dependency_order` returns; `TaskAssumption` says that it is a permutation that
respects `Needs`, which `OrderSound` of `Compiler` checks. An executor that is not
configured behaves like one with no handler (`Handled`). `resume` and `approve_step`
of a task that does not exist are left out.

`Engine` selects how a work step runs. Inline, its agents run whenever the drive
reaches it. With `"dbos"`, `run_step` starts a workflow under the id of task and step:
the first result is kept (`Checkpoint`), whatever it is, and every later run of the step
is handed that one (`Yields`). Fanout and verify steps never go through the engine.

### GovernedEffect

Four variables (rounds that granted an intent, times it was performed, intents
receipted, gates passed) and four actions: a round grants one intent once; an intent is
performed at most once per grant, and not after its receipt; a receipt follows a
performance; a gate passes on a receipt of an intent of its own. `ImplementsEffect`
instantiates it with `MintedFor`, `effects`, `executed` and the gates that succeeded,
and holds for one call at a time. It does not say that a gate is performed under one
intent only: a gate approved while its need was deferred is performed under the digest
of a null artifact, and again under the real one (`task_order`).

### EventLedger

Writers are threads in `append`: `Call` takes the object's lock, `ReadHead` the
advisory lock (Postgres) and the head, `Insert` inserts and commits. `Fail` rolls
back, `Crash` ends a process. SQLite commits a single statement, so the read of the
head is outside the transaction there; `ledger.py` has no rollback, and a commit that
SQLite refuses is not modelled. A seal stands for the sequence of bodies it chains, that
is, SHA-256 is taken as collision-free. `Damage` changes stored rows behind the ledger's
back, once per company, while appends go on. The hash takes no key, so a rewritten row
can be sealed again: of that row alone (`"reseal"`) or of every row from it to the head
(`"forge"`); a body can be rewritten under its old seal (`"rewrite"`), rows can change
places (`"swap"`), and a row can be lost from under another (`"gap"`) or at the end
(`"tail"`).

### Credentials

An *applicant* is a company and a principal, as in the key of `_enroll_challenges`.
`EnrollOptions` draws a challenge for one at one process, over one drawn before; `Create`
is the browser and its authenticator making a key, which may have counted signatures
before. `EnrollVerify` takes any answer, in the name of any company and principal, at any
process: it pops the challenge of the applicant *the request names*, and
`EnrollRegistration` stores the key, with the sign count of its registration, for the
principal the request names if the answer is to that challenge. The company is no part of
a credential. `Get` begins a
verification: the credential is read and the device signs; `Check` is the package's
test of the assertion, the sign count rule included; `UpdateSignCount` stores the new
count. `ProcessDies` drops requests and challenges, and the credentials too when
there is no Postgres. `Durable` selects the store: from Postgres a copy is read, in
memory the shared object, whose count is looked at by the check.

The cryptography and the devices are external. A device counts its signatures, or
reports 0 always (`Counting`); two devices of one key are an authenticator and its copy.
A stored credential carries the challenge of its registration, for the properties only.

### LoopWorker

One task and step, called by several processes. `Call` reads the source's HEAD;
`Recognize`, `Refuse` and `NotThere` are the three ends of looking for the workspace and
its identity file; `CloneBegin`, `CloneEnd` and `WriteIdentity` make it; `Load` reads the
loop's state and decides between reporting, resuming and starting; `Start`, `Iterate`,
`End` and `RunnerRaises` are the external runner, as the worker and its tests use it;
`Report` maps the status and takes the evidence. Whatever a call uses may fail: git before
the clone (`HeadUnread`), the clone itself (`CloneEnd`), the identity file
(`IdentityRaises`), a library that is not installed or a runner that raises
(`RunnerRaises`) or returns no state (`End`), and git or the identity file after the loop
(`EvidenceUnread`). A `LoopWorkerError` answers "deferred" (`Refused`, with its cause), any
other exception "error" (`Raised`). `Die` ends a process at any point, `SourceMoves` commits
to the source. `crowd`, `raced` and `orphaned` are ghosts: workspaces where two calls were
at work at once, workspaces prepared while the source moved, and workspaces whose maker died
or failed before it wrote the identity.

### Compiler

A draft company is any member of a set `Drafts`. `compile_company` evaluates every check
(`Breaks`) but the one for cycles. `Visit`, `VisitGrey`, `VisitBlack` and `VisitEnds` are
`_check_cycles`' depth-first search, one action per turn of its loop: `frames` holds the
calls of `visit` under way, each with the need whose turn it is, `color` the colours, and
the code's `stack` is read off `frames`. `PlaceBegins`, `PlaceSeen`, `PlaceRaises` and
`Place` are the search of `_in_dependency_order`, over the same `frames`. `Launch`, `Answer`
and `Collect` are the pool of a fanout or verify step, whose agents return in any order and
may raise. The properties compare the searches with definitions that do not search:
paths of the needs graph (`Cycles`), the order's defining condition, the maximal
candidates of an aggregation. Width 0 and quorum 0 are "not given" in some of the code's
tests and numbers in others; the model keeps the difference.

## Runs

Bounds are named constants: `Challenges` (rounds or enrollment challenges that can be
drawn), `MaxExpired`, `MaxAutos`, `MaxCrashes`, `MaxEvents`, `MaxMoves`, `MaxCount`
(signatures of a device). A gateway or task run whose rounds are used up stutters
(`BoundReached` in the MC modules). `compile` and `cred` are not checked for deadlock: a
compiled company is done, and challenges and signatures run out. Any other deadlock is
an error.

Passing runs:

| Run | Instance | Shows |
|---|---|---|
| `gw_serial` | 1 session, memory store, 3 rounds, 2 expiries, an outsider, every tier, wrong tools, an unknown action, no approver, A3 with quorum 1 | one grant per round, of that round's own signatures; rounds are retired and replaced only for cause; what must fail closed does; bounded-auto keeps its bound |
| `gw_replicas` | 2 replicas, Postgres, crashes, 2 rounds, A3 | grants by quorum under every interleaving; no round that authorized something can be joined again, although a replica retires by digest what another opened |
| `task_serial` | work step and A3 gate, inline engine, a crash, an expiry, failing agents and handlers, fair scheduling | implements `GovernedEffect`; exactly-once up to cut receipts; finality; a retryable task is retried, and the task succeeds |
| `task_gates` | work, verify, gate, then a fanout and a second gate whose tool has no handler; durable engine | agents start in dependency order; a refused effect never passes a gate |
| `task_replicas` | two replicas on one task, durable engine, two possible artifacts | effects authorized, gates mean effects, success means all of it, stable digests, and ledger and engine agree, under concurrent calls |
| `led_postgres` | 2 companies, 2 processes, 3 events each, failures, crashes, six kinds of damage | the chain never forks; which damage shows for ever, and which never |
| `compile` | every graph of 3 steps with ordered need lists and any of them bounded; every shape of one action with a gate, of one role, of one fanout or verify step | what compiles is ordered, closed in its authority, aggregated and verified as it says; a cycle is refused only if it has no bound |
| `loop` | 2 processes, 1 iteration, the source moves once, one crash, failures of everything a call uses, fair calls | no foreign workspace, own evidence, finished is final, the bound on iterations holds, the step ends |
| `cred` | 2 companies, 2 principals, 2 keys, a copied device and one that does not count, 2 processes with Postgres, restarts, 2 challenges, 2 signatures per device | enrolled in one's own ceremony; accepted counts rise |

Why the bounds are enough. Two sessions suffice for the races between two calls, which
is what every concurrency hazard in the list is about. Three rounds let a round expire,
its successor be granted and a third be opened with signatures of all of them at hand.
A gate's artifact is one value or none, which already makes two digests of one gate; two
values in `task_replicas` make the digests of two replicas differ if they could. Three
steps are the fewest in which a search can meet a cycle through a finished step, and
the ordered lists of needs give every order in which it can visit them. One action,
role or step of every shape suffices for checks that look at one at a time. One
iteration tells a loop that resumes, at 1, from one that starts over, at 0, and a spent
bound from one that is not. Three events leave an inner row to lose, rewrite or seal again.
One move of the source separates the commit that was read from the one that was cloned.
Two keys, principals and challenges confuse whatever can be confused; with two signatures
a copy can lag.
Symmetry is declared on challenges (random bytes) and on two approvers with the
same part in the policy in `gw_serial`, and on the two sessions with their replicas in
`gw_replicas`; both are runs without liveness.

Two passing runs state what the code does where a comment says something else:

| Run, property | Claim | What happens |
|---|---|---|
| `led_postgres`, `DamageSeen` | "truncation or rewrite of any prior event is detectable", "return False on any tamper/truncation/reorder" (ledger.py:5, 110) | the loss of the last rows, and a rewrite sealed again up to the head, are seen by nobody |
| `compile`, `AggregateStable` | `first` is the "first successful candidate" (spec/models.py:98) | it is agent 1's answer, also when agent 1 deferred or failed and counts as `{}` (workflow.py:238) |

Violation runs, each a claim of a comment or docstring that the code does not keep
(`findings` in `PROJECT.json` quotes all of these lines):

| Run | Claim | What happens |
|---|---|---|
| `compile_cycles` | "Reject any dependency cycle that isn't made finite by an explicit bound" (compiler.py:245) | a cycle that closes through a step the search has finished is never looked at |
| `task_order` | "Steps run in dependency (`needs`) order" (workflow.py:10) | a gate is approved after its need deferred |
| `task_retry` | FAILED_RETRYABLE steps are retried (workflow.py:145, README.md:107-110) | DBOS keeps the deferred result for ever |

### Observed beyond the runs

The following were met while modelling, by running the same modules with other
constants or properties; no run of the project shows them now.

Claims the code does not keep:

- "Crossing any bound escalates to A2" (policy.py:49): after `decide` opened the round,
  `submit_approval` classifies by risk alone, finds A1 and denies (gate.py:121).
- "a process can crash at every step and resume without duplicating a durable effect"
  (workflow.py:4-5): the crash can fall between handler and receipt (executor.py:60).
- "the executor performs the effect exactly once" (workflow.py:320): two calls can both
  see the quorum, and neither finds a prior receipt (executor.py:51).
- "an approval opened on one node can be completed on another" (stores_pg.py:3-4): after
  a crash between the last signature and the grant the approvers are refused as
  duplicates (gate.py:158) until the round expires.
- "requested but has no subsequent 'authorized' receipt" (cli.py:144-145): the inbox drops
  every digest ever authorized, so a round opened again after a grant is hidden
  (cli.py:162).

Properties of the serial runs that fail with two sessions, which is why they are stated
for one call at a time: `AuthorizedOnce`: `submit_approval` counts, retires and mints in
separate steps (gate.py:158-168), so that two approvers who both see the quorum get a
capability each. `SignedThisRound`: an approver is added to whatever round the digest names
by then (gate.py:158). `RetiredForCause`: `retire` by digest can close a fresh round in
place of the expired one (gate.py:133). `BoundedAuto`: the counter is read and written back in two
steps (gate.py:186). `DigestStable` with the inline engine: a call keeps artifacts that a
concurrent run of the step has superseded (workflow.py:293); the durable engine repairs
this for work steps, not for fanout and verify steps, which it does not keep.
`SucceededIsFinal`: a staler drive records its state last. `ChainIntact` on SQLite with
two processes: the head is read outside the insert's transaction (ledger.py:62); the docs
deploy one process per file. Two concurrent `open`s lose the round that one of them drew, with the approvers it has:
the stores read and upsert in two statements (stores_pg.py:112), or without a lock
(approvals.py:56). Two starts can both append `task_created` (workflow.py:69),
and a step whose agents ran before a crash runs again (workflow.py:132).

Compiler and aggregation: a cycle with a bound compiles, but `_in_dependency_order` raises
on it, so "intentional and finite" cycles (spec/models.py:108) cannot run; which is why
`OrderSound` speaks of workflows without bounds. Step ids are not checked for duplicates,
a quorum not against the number of eligible approvers, a gate's action not for a risk
that that needs approval; an agent's role may be named as an approver.

Loop worker: a process that dies between the clone and the identity file, or while the
runner writes its state, leaves a workspace that refuses every later call until the source
moves (`Blocked` in `LoopFinishes`); a git command that fails after the loop passed loses
that answer, and the next call reports it; a source that moves gives the next call a fresh clone
and a fresh loop; HEAD can move between `rev-parse` and `clone` (`raced`); overlapping
calls, and the candidates of one fanout, whose index is no part of the identity, work in
one clone (`crowd`); an exhausted loop is reported as deferred for ever, and driven again
to no end.

Credentials: overlapping verifications of one key may store the lower count last and then
accept a copy (`raced` excepts them). The in-memory store lists a re-enrolled key under
its old principal, where Postgres upserts; with one key per registration this
does not arise. A key enrolled for one company signs for all of them: the
challenge is drawn per company, the credential stored per principal.

### Fairness

The gateway and credential runs check safety only.

`TaskFairness`: each session's steps are weakly fair, as threads are scheduled; a task is
called again and again (`Start`, strongly; nothing in the code resumes a task by itself);
what the durable engine has kept is handed back (`HandBack`, weakly); agents and verifiers,
given infinitely many attempts, succeed (strongly); and eligible approvers keep signing
the challenge the inbox shows for the gate of the recorded artifacts (strongly). The code
cannot promise the last two, agents and people must; without them no gate is ever
passed. `Raise`, crashes and expiries are not fair. `TaskSucceeds` assumes
`QuorumCompletes`, which fails after a crash that strands a round (above). It covers
recoveries in a second round: only a behaviour that comes to open a round when all of the
instance's challenges are drawn is excepted (`OutOfRounds`), as the model cannot go on
there; so does `RetryableRetried`. `task_retry` is checked under the same fairness: its lasso resumes the
task for ever, and no agent is ever asked again.

`LoopFairness`: each process' calls run on and are made again (weakly). Of what is possible
again and again, whoever calls, a start of the runner, a step ahead (a clone made, an
iteration, a loop that finishes) and a report of a finished loop happen (strongly): git,
files and the runner do not fail, stop or raise for ever. The failures themselves are not
fair, and nothing is assumed of a single call. `LoopFinishes` excepts a workspace that stays
blocked.

## Proofs

`GatewayProofs` holds for any sessions, replicas, policies, intents, rounds and either
store, with or without crashes. From `GatewayAssumption` only it proves
`TypeCorrect`, `QuorumSafety` (`GrantedByQuorum`), `FailClosed`
(`NoApprovalWithoutPolicy`) and `SpentStaysClosed` (`SpentIsClosed`). `GrantedByQuorum` speaks of grants and is not inductive: a
grant is built from what a session carried through many steps while others changed
the table. `IInv` adds what a drawn round holds (`RoundsOK`: an openable policy, and
approvers that are eligible and verified for its intent), that the table points
at rounds of the right intent (`TableOK`), and what a session relies on at each program
point (`SessionOK`): for example that at "add" its principal is eligible and verified
for its intent, although perhaps in an earlier round, which is why the property asks
for verification for the intent, not for the round. `Kept` names what no call takes
back (an intent of a round, a verification, a table entry), and `OthersKept` derives
from it that a step of one session leaves what another relies on. A crash of a memory
store does not keep the table, so `CrashStep` argues apart. `SpentInv` adds that a
round is in one store at most, which is that of any call that counts or retires it, that a
call at "mint" has left no round of its own open, and that an undrawn round has minted
nothing; so a call of another round can close a round, but none can reopen it.

`EventLedgerProofs` proves `LedgerTypeCorrect` for all deployments and, under
`Serialized` (Postgres, or a single process), `ChainIntegrity`: the invariant is that a
writer between head and insert holds the head of its company's chain, as no
other can be there. `DamageVisible` treats each kind of damage by a lemma: a broken link
stays broken however many rows follow (`GapSeen`, `RewriteSeen`, `ResealSeen`, `SwapSeen`),
for which seals are told apart by their length, and a chain cut at its end or sealed again
verifies (`TailKept`, `ForgeKept`) and is appended to like any other.

`CredentialsProofs` proves, from `CredentialAssumption` only, `CredTypeCorrect` and, for
either store, `EnrollmentSound` (`EnrolledByCeremony`). That a challenge enrolls one key is
not inductive: `CeremonyInv` follows the challenge. It waits at one process at most
(`PendingOK`), or a single request has taken it (`RequestOK`), or a stored key has used it
and it is nowhere else (`StoredOK`). That the name in a request is the challenge's follows
from where it was found: at a process a challenge waits only under the applicant it was
drawn for. `NoCeremony` settles the steps that only change
verifications. `SignCountsRise` proves the action property `CountsRise` for the shared
store: `CountsOK` says of every key whose verifications did not overlap that the stored
count is the highest accepted, that at most one request verifies it, and that this request
read that count; an enrollment cannot reset it because the key's challenge is used up.

`GovernedTaskProofs` holds for any workflow, sessions, replicas, store and engine, with
crashes, expiries and exceptions. `RunnerUsesGateway` says that a step of the runner is a
step of the gateway or leaves its variables alone, so whatever is proved of `Gateway` holds
inside the runner (`TaskQuorumSafety`). It needs `CallInv`: the gateway serves a session
just while the runner waits for it, and what a call carries (its place, gate and intent)
stays of one piece from step to step; `CallInv` also gives `TaskTypeCorrect`. On top of it:

- `DriveInv`: every step that a call has passed had succeeded when it passed it, however
  many others write to the ledger. With a topological order (`TaskAssumption`) this gives
  `SucceededSound` and `AgentsKeepOrder`. That an order without repetition passes every
  step is a counting argument (`OrderInjective`).
- `GateInv`: a receipt stands for an effect, and a call settles its gate on a receipt
  (`GateEarned`).
- `AuthorityInv`: the effects of an intent, together with the calls that bring a capability
  for it to the executor and have not spent it, are no more than the capabilities minted
  on its rounds, a round that two calls minted on counting twice (`EffectsAuthorized`). A
  crash only loses such calls.
- `MemoConsistent`: what the durable engine keeps, the ledger and the artifacts in every
  call agree.

`GatewaySerialProofs` and `GovernedTaskSerialProofs` are about calls one after the other
(`OneCall`: a single session at a single replica), with any crashes between any two
steps. Nothing in the code holds a lock over a call, and the properties below do fail with
two sessions (see above), so the hypothesis is part of the result.

- `SerialInv` follows one submission: at "check" it holds the round in the table, at
  "retire" that round is unused, at "mint" it is used and nothing was minted on it. Hence
  `MintedAtMostOnce` and `ConsentNotCarriedOver`. `ClosedForCause` and `EnvelopeKept` also
  need `~MayCrash`, as the counter of the bounded-auto envelope and the rounds of the memory
  store are lost in a restart.
- `OnceInv` counts: an effect without receipt is either under way to its receipt
  (`ReceiptDue`) or was cut off (`OncePerReceipt`). With `SerialInv` and `AuthorityInv` it gives
  `GovernanceImplemented`, the refinement of `GovernedEffect`: every step of the
  composed system is a step of it or stutters.
- `DigestInv`: the artifacts in a call are those the ledger yields for every step it has
  passed, so that the intent parked and the intent approved are one (`DigestKept`).
- `FinalInv`: a call that drives a task that succeeded finds every step done, and an intent
  that is receipted was proposed by a gate; so no drive comes to record another state
  (`SucceededForGood`).

`LoopWorkerProofs` holds for any number of processes, moves of the source, iterations and
crashes, from `LoopAssumption`. Its action properties cannot be told from the step alone:
they except workspaces in which calls overlapped (`crowd`), and that has to be known
before the step. `LoopInv` therefore says that two calls at work in one workspace make it
crowded (`Apart`), what each call knows of its workspace while it is alone there (`Knows`, in
`CallOK`), and what an answer rested on, for as long as the workspace is not crowded
(`AnswerOK`). `Made` says of a workspace without identity that a call is making it
or that its maker left it (`orphaned`), whence `RefusedOnlyForCause`. `Acts` is the frame: a step of one call changes its own
workspace only, and leaves what the others know; `Progress` is what each step does to the
workspace, from which `LoopBounded` and `FinishedForGood` follow.

`CompilerProofs` holds for any drafts, artifacts and orders of answers, from
`CompilerAssumption`: what the schema of a specification lets through (`WellFormed`), and
that scores are ranked by integers. `CompInv` is one invariant for the whole way of a draft:

- `Path`: the calls under way are a path of the needs graph without repetition, and
  `Looked`: the needs that they have dealt with are finished, but for those they wait for.
  Three lemmas about a call that begins, goes on or ends (`CallsOn`, `GoesOn`, `CallEnds`)
  keep both, in either search.
- What the search calls a cycle is one (`CycleFound`), hence `RefusesJustly`.
- Without loop bounds and without a report, the finished steps are closed under their needs
  and `Acyclic`: every set of them has one that needs none of the set. That form needs no
  induction over paths: a step that finishes can be added to it (`AcyclicGrows`), and a
  second search that comes back to a step under way contradicts it (`NoWayBack`). Hence
  `OrdersSoundly`, which is what `TaskAssumption` takes for granted of the order.
- An accepted company has broken no check (`ErrorsOK`), which gives `ClosesAuthority` and,
  with the quorum's range, `VerifiesByApprovals`.
- That a pool has a greatest score or vote count, and a first agent with it, is argued
  from the well-foundedness of finite subsets (`Greatest`, `Least`); so the `CHOOSE`s of
  `aggregate` choose what the code's `max` returns, and `AggregatesStably` follows.

`CyclesBounded` is not among them: it is false (see the violation runs).

The assumptions on constants that came in with the proofs say nothing that a deployment
could break: sessions are finitely many, `NoCommit` is no commit, and model values that
stand for "raised" and "not given" are no artifacts or numbers.

Only model-checked is liveness (temporal reasoning with `ENABLED` is outside the prover):
`TaskSucceeds`, `RetryableRetried`, `LoopFinishes`.

## Plan

1. `Gateway`, `GovernedTask`, `EventLedger` with their runs; the gateway's and ledger's
   invariants proved. *Done.*
2. `Credentials`; memoization under the runner; `LoopWorker`; `Compiler` with the order
   that `TaskAssumption` assumes; `GovernedEffect` and its refinement; the enrollment and
   sign count properties proved. *Done.*
3. Proofs: every step of `GovernedTask` is a step of `Gateway` or leaves it alone; its
   safety; `LoopWorker`; for one call at a time, the gateway's `AuthorizedOnce` and
   `SignedThisRound` and the refinement of `GovernedEffect`. *Done.*
4. `Compiler`: the two searches as steps with an explicit stack, and its invariants proved
   for every workflow. *Done.*
5. The serial results under weaker hypotheses: one call at a time *per task* instead of one
   in all, where sessions of different tasks share the gateway.

## Not modelled

- **Company specification and packs, models, configuration, telemetry, logging**: schemas,
  file loading and settings without protocol state.
- **Other workers** (`api`, `native`, `cli_agents`, `openworker`): adapters that call a
  function, a model or a subprocess and map what comes back; that result is a
  nondeterministic choice of `StepOk`, `StepDeferred`, `StepError` and `Raise`.
- **Evaluation gate** (`eval/harness.py`): compares two runs made one after the other in
  memory.
- **HTTP views and command line**: projections of the ledger that nothing reads back; the
  enrollment endpoints are in `Credentials`, the threads and replicas in every module.
- Left out of modelled parts: intents that an agent returns beside its artifact (no shipped
  worker does), `run`, `enqueue` and the queues of the durable engine (called by tests
  only), the compiler's checks of version, slug, model profiles and schemas, loop sources
  that are no git repository, vote counts returned beside an aggregate.
