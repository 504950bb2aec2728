----------------------------- MODULE LoopWorker -----------------------------
(***************************************************************************)
(* workers/loop.py: LoopWorker.run for one task and step.  Each call reads *)
(* the HEAD of the source, derives the workspace from it, clones the       *)
(* source there unless the workspace exists, reads what an earlier loop    *)
(* left behind, and runs or reports the loop.  Calls of several processes  *)
(* overlap, a process dies at any point, and the source moves.             *)
(*                                                                         *)
(* The loop's runner (package agent_loop) is not part of the repository:   *)
(* it keeps its state in the workspace, counts its iterations there and    *)
(* ends with one of the statuses _result knows.  A git command, a file or  *)
(* the runner may fail wherever the code calls them.  Sources that are no  *)
(* git repository are left out: they have no base commit and no evidence.  *)
(***************************************************************************)
EXTENDS Naturals, FiniteSets

CONSTANTS
  Workers,        \* processes that call run for this task and step
  MaxIterations,  \* LoopPolicy.max_iterations
  MaxMoves,       \* bound: commits the source's HEAD moves on
  MaxCrashes,     \* bound: processes that die or cannot write an identity file
  NoCommit        \* no commit

ASSUME LoopAssumption ==
  /\ MaxIterations \in Nat \ {0} /\ MaxMoves \in Nat /\ MaxCrashes \in Nat
  /\ NoCommit \notin 0..MaxMoves

Commits == 0..MaxMoves
Finished == {"PASSED", "EXHAUSTED", "FAILED"}
LoopStates == Finished \cup {"none", "RUNNING", "STOPPED", "torn"}

VARIABLES
  head,     \* HEAD of the source repository
  ws,       \* workspace of each base commit
  call,     \* what each process is doing
  crashes,  \* processes that died, and identity files not written, so far
  crowd,    \* workspaces in which two calls were at work at once
  raced,    \* workspaces that were prepared while the source moved
  orphaned  \* workspaces whose maker died or failed before the identity file

history == <<crowd, raced, orphaned>>
loopVars == <<head, ws, call, crashes, history>>

NoWorkspace ==
  [dir |-> FALSE, at |-> NoCommit, identity |-> NoCommit,
   loop |-> "none", iteration |-> 0]

\* What a call returns: its status, the loop's, of its evidence the commit the clone
\* was made at and the one it is compared with, and the LoopWorkerError it met.
Returned(status, loop, at, base) ==
  [status |-> status, loop |-> loop, at |-> at, base |-> base, why |-> "none"]
NoAnswer == Returned("none", "none", NoCommit, NoCommit)
Raised == Returned("error", "none", NoCommit, NoCommit)

\* An existing workspace refused, or else something that failed: git, the runner, a
\* state that cannot be read.
LoopWorkerErrors == {"unrecognized", "mismatch", "failed"}
Refused(why) ==
  [status |-> "deferred", loop |-> "none", at |-> NoCommit, base |-> NoCommit, why |-> why]

IdleCall ==
  [pc |-> "idle", base |-> NoCommit, loop |-> "none", resume |-> FALSE, iteration |-> 0,
   answer |-> NoAnswer]

\* The digest of the identity names the directory (the variant: of the task only).
TokenOfTask(base) == 0
TokenOf(base) == base

Here(w) == ws[TokenOf(call[w].base)]
CallAt(w, pc) == call[w].pc = pc
Go(w, pc) == call' = [call EXCEPT ![w].pc = pc]
Answer(w, a) == call' = [call EXCEPT ![w] = [IdleCall EXCEPT !.answer = a]]
Write(w, new) == ws' = [ws EXCEPT ![TokenOf(call[w].base)] = new]

\* The call has made the directory and has yet to write its identity.
Making == {"cloning", "identity"}

\* The call has a recognized workspace: it goes on to read the loop's state.
InWorkspace == {"load", "start", "running", "report"}
Enter(w) ==
  LET t == TokenOf(call[w].base)
  IN  /\ Go(w, "load")
      /\ crowd' = IF \E v \in Workers \ {w} : /\ call[v].pc \in InWorkspace
                                              /\ TokenOf(call[v].base) = t
                    THEN crowd \cup {t} ELSE crowd

LoopInit ==
  /\ head = 0
  /\ ws = [b \in Commits |-> NoWorkspace]
  /\ call = [w \in Workers |-> IdleCall]
  /\ crashes = 0
  /\ crowd = {} /\ raced = {} /\ orphaned = {}

-----------------------------------------------------------------------------
(* _prepare_workspace *)

\* A variant: HEAD was read when the worker was made.
CallCached(w) ==
  /\ CallAt(w, "idle")
  /\ call' = [call EXCEPT ![w] = [IdleCall EXCEPT !.pc = "prepare", !.base = 0]]
  /\ UNCHANGED <<head, ws, crashes, history>>

\* git rev-parse HEAD ..
Call(w) ==
  /\ CallAt(w, "idle")
  /\ call' = [call EXCEPT ![w] = [IdleCall EXCEPT !.pc = "prepare", !.base = head]]
  /\ UNCHANGED <<head, ws, crashes, history>>

\* .. may fail, as may what is read or made before the clone: nothing has changed.
HeadUnread(w) ==
  /\ CallAt(w, "idle")
  /\ Answer(w, Raised) \/ Answer(w, Refused("failed"))
  /\ UNCHANGED <<head, ws, crashes, history>>

\* The workspace exists: it must name this identity.
Recognize(w) ==
  /\ CallAt(w, "prepare") /\ Here(w).dir /\ Here(w).identity = call[w].base
  /\ Enter(w)
  /\ UNCHANGED <<head, ws, crashes, raced, orphaned>>

Refuse(w) ==
  /\ CallAt(w, "prepare") /\ Here(w).dir /\ Here(w).identity # call[w].base
  /\ Answer(w, Refused(IF Here(w).identity = NoCommit THEN "unrecognized" ELSE "mismatch"))
  /\ UNCHANGED <<head, ws, crashes, history>>

NotThere(w) ==
  /\ CallAt(w, "prepare") /\ ~Here(w).dir
  /\ Go(w, "clone")
  /\ UNCHANGED <<head, ws, crashes, history>>

\* git clone makes the directory, and fails where another call made it.
CloneBegin(w) ==
  /\ CallAt(w, "clone")
  /\ IF Here(w).dir THEN Answer(w, Refused("failed")) /\ UNCHANGED ws
     ELSE Go(w, "cloning") /\ Write(w, [NoWorkspace EXCEPT !.dir = TRUE])
  /\ UNCHANGED <<head, crashes, history>>

\* .. and fills it with the HEAD of now, or fails and removes it.
CloneEnd(w) ==
  /\ CallAt(w, "cloning")
  /\ \/ Go(w, "identity") /\ Write(w, [Here(w) EXCEPT !.at = head])
     \/ Answer(w, Refused("failed")) /\ Write(w, NoWorkspace)
  /\ UNCHANGED <<head, crashes, history>>

\* The identity file; without it the directory is refused by every later call.
WriteIdentity(w) ==
  /\ CallAt(w, "identity")
  /\ Write(w, [Here(w) EXCEPT !.identity = call[w].base])
  /\ Enter(w)
  /\ UNCHANGED <<head, crashes, raced, orphaned>>

\* .. or the file cannot be written, and the directory stays.
IdentityRaises(w) ==
  /\ crashes < MaxCrashes /\ CallAt(w, "identity")
  /\ crashes' = crashes + 1
  /\ Answer(w, Raised)
  /\ orphaned' = orphaned \cup {TokenOf(call[w].base)}
  /\ UNCHANGED <<head, ws, crowd, raced>>

-----------------------------------------------------------------------------
(* run, and the loop's runner *)

Resumable == {"RUNNING", "STOPPED"}

\* _load_state: a loop that is final is only reported, one to resume is resumed; a
\* state that cannot be read is refused.
LoadWith(w, final, resumable) ==
  LET loop == Here(w).loop
  IN  /\ CallAt(w, "load")
      /\ \/ loop = "torn" /\ Answer(w, Refused("failed"))
         \/ loop \in final /\ call' = [call EXCEPT ![w].pc = "report", ![w].loop = loop]
         \/ /\ loop \notin final \cup {"torn"}
            /\ call' = [call EXCEPT ![w].pc = "start", ![w].resume = loop \in resumable]
      /\ UNCHANGED <<head, ws, crashes, history>>

\* Variants: an exhausted loop is resumed; only a stopped loop is resumed; a
\* running loop is somebody else's.
LoadResumingExhausted(w) == LoadWith(w, {"PASSED", "FAILED"}, Resumable \cup {"EXHAUSTED"})
LoadResumingStopped(w) == LoadWith(w, Finished, {"STOPPED"})
LoadLeavingRunning(w) == LoadWith(w, Finished \cup {"RUNNING"}, {"STOPPED"})

Load(w) == LoadWith(w, Finished, Resumable)

\* The runner records that it runs, from the iteration it resumes at or from 0.
Start(w) ==
  LET n == IF call[w].resume THEN Here(w).iteration ELSE 0
  IN  /\ CallAt(w, "start")
      /\ call' = [call EXCEPT ![w].pc = "running", ![w].iteration = n,
                              ![w].resume = FALSE]
      /\ Write(w, [Here(w) EXCEPT !.loop = "RUNNING", !.iteration = n])
      /\ UNCHANGED <<head, crashes, history>>

\* One iteration: the agents work on the clone.
Iterate(w) ==
  LET n == call[w].iteration + 1
  IN  /\ CallAt(w, "running") /\ n <= MaxIterations
      /\ call' = [call EXCEPT ![w].iteration = n]
      /\ Write(w, [Here(w) EXCEPT !.iteration = n, !.loop = "RUNNING"])
      /\ UNCHANGED <<head, crashes, history>>

\* The runner ends, exhausted only when its iterations are spent.  What it returns may
\* be no state object, though it wrote one.
End(w, status) ==
  /\ CallAt(w, "running")
  /\ status = "EXHAUSTED" => call[w].iteration = MaxIterations
  /\ Write(w, [Here(w) EXCEPT !.loop = status])
  /\ \/ call' = [call EXCEPT ![w].pc = "report", ![w].loop = status, ![w].iteration = 0]
     \/ Answer(w, Refused("failed"))
  /\ UNCHANGED <<head, crashes, history>>

\* .. or raises, before it starts (the library is not installed: a LoopWorkerError) or
\* while it runs: the loop's state stays what it was.
RunnerRaises(w) ==
  /\ \/ CallAt(w, "start") /\ (Answer(w, Raised) \/ Answer(w, Refused("failed")))
     \/ CallAt(w, "running") /\ Answer(w, Raised)
  /\ UNCHANGED <<head, ws, crashes, history>>

\* _result (the variants: exhausted counts as done; an unknown status is passed on).
StatusOfLenient(loop) ==
  CASE loop \in {"PASSED", "EXHAUSTED"} -> "ok"
    [] loop = "STOPPED" -> "deferred" [] OTHER -> "error"

StatusOfRaw(loop) ==
  CASE loop = "PASSED" -> "ok" [] loop \in {"EXHAUSTED", "STOPPED"} -> "deferred"
    [] OTHER -> loop

StatusOf(loop) ==
  CASE loop = "PASSED" -> "ok"
    [] loop \in {"EXHAUSTED", "STOPPED", "DRY_RUN"} -> "deferred"
    [] OTHER -> "error"

\* .. and _repository_evidence: the clone compared with the identity's commit.
Report(w) ==
  /\ CallAt(w, "report")
  /\ Answer(w, Returned(StatusOf(call[w].loop), call[w].loop, Here(w).at, Here(w).identity))
  /\ UNCHANGED <<head, ws, crashes, history>>

\* .. unless the identity cannot be read or a git command fails: the loop's status is
\* lost with the answer, and stays in the workspace.
EvidenceUnread(w) ==
  /\ CallAt(w, "report")
  /\ Answer(w, Raised) \/ Answer(w, Refused("failed"))
  /\ UNCHANGED <<head, ws, crashes, history>>

-----------------------------------------------------------------------------
(* The world *)

SourceMoves ==
  /\ head < MaxMoves
  /\ head' = head + 1
  /\ raced' = raced \cup {TokenOf(call[w].base) :
       w \in {v \in Workers : call[v].pc \in {"prepare", "clone", "cloning"}}}
  /\ UNCHANGED <<ws, call, crashes, crowd, orphaned>>

\* A process dies, while the runner writes its state perhaps.
Die(w) ==
  /\ crashes < MaxCrashes /\ ~CallAt(w, "idle")
  /\ crashes' = crashes + 1
  /\ Answer(w, NoAnswer)
  /\ \/ UNCHANGED ws
     \/ CallAt(w, "running") /\ Write(w, [Here(w) EXCEPT !.loop = "torn"])
  /\ orphaned' = IF call[w].pc \in Making THEN orphaned \cup {TokenOf(call[w].base)}
                 ELSE orphaned
  /\ UNCHANGED <<head, crowd, raced>>

CallStep(w) ==
  \/ Recognize(w) \/ Refuse(w) \/ NotThere(w) \/ CloneBegin(w) \/ CloneEnd(w)
  \/ WriteIdentity(w) \/ Load(w) \/ Start(w) \/ Iterate(w)
  \/ (\E status \in Finished \cup {"STOPPED"} : End(w, status)) \/ Report(w)

Failure(w) == HeadUnread(w) \/ IdentityRaises(w) \/ RunnerRaises(w) \/ EvidenceUnread(w)

LoopNext ==
  \/ \E w \in Workers : Call(w) \/ CallStep(w) \/ Failure(w) \/ Die(w)
  \/ SourceMoves

LoopSpec == LoopInit /\ [][LoopNext]_loopVars

\* What gets a step ahead: a clone made, an iteration, a loop that finishes.
Advance(w) ==
  \/ CloneEnd(w) /\ call'[w].pc = "identity"
  \/ Iterate(w)
  \/ \E status \in Finished : End(w, status) /\ call'[w].pc = "report"

ReportFinished(w) == Report(w) /\ call'[w].answer.loop \in Finished

\* Calls run on, a deferred or failed step is called again, and git, the runner and
\* the agents do not fail, stop or raise for ever whoever calls.
LoopFairness ==
  /\ \A w \in Workers : WF_loopVars(Call(w) \/ CallStep(w))
  /\ SF_loopVars(\E w \in Workers : Start(w))
  /\ SF_loopVars(\E w \in Workers : Advance(w))
  /\ SF_loopVars(\E w \in Workers : ReportFinished(w))

LoopFairSpec == LoopSpec /\ LoopFairness

-----------------------------------------------------------------------------
(* Properties *)

Workspace ==
  [dir : BOOLEAN, at : Commits \cup {NoCommit}, identity : Commits \cup {NoCommit},
   loop : LoopStates, iteration : 0..MaxIterations]

CallPCs == InWorkspace \cup {"idle", "prepare", "clone", "cloning", "identity"}

\* The types of the workspaces and calls.
LoopTypeOK ==
  /\ head \in Commits /\ crashes \in 0..MaxCrashes
  /\ ws \in [Commits -> Workspace]
  /\ call \in [Workers ->
       [pc : CallPCs, base : Commits \cup {NoCommit}, loop : LoopStates, resume : BOOLEAN,
        iteration : 0..MaxIterations,
        answer : [status : {"none", "ok", "deferred", "error"}, loop : LoopStates,
                  at : Commits \cup {NoCommit}, base : Commits \cup {NoCommit},
                  why : LoopWorkerErrors \cup {"none"}]]]
  /\ crowd \subseteq Commits /\ raced \subseteq Commits /\ orphaned \subseteq Commits

\* A call answers "ok" only when the loop of the workspace its evidence is about
\* passed, and that stays so, unless calls overlap there (loop.py 115-128, 240-250).
OkEarned ==
  \A w \in Workers : LET a == call[w].answer
    IN  a.status = "ok" /\ a.base \notin crowd => ws[a.base].loop = "PASSED"

\* "Run one bounded Loop in an isolated, task-scoped repository clone" (loop.py
\* 72): while calls do not overlap in a workspace, no retry or crash sets its count
\* of iterations back, so all calls together stay within the policy's bound.
BoundedLoop ==
  [][\A b \in Commits \ crowd' : ws'[b].iteration >= ws[b].iteration]_loopVars

\* A loop that finished in a workspace is final there: no later call runs it again
\* (loop.py 115-116), unless calls overlap.
FinishedIsFinal ==
  [][\A b \in Commits : b \notin crowd' /\ ws[b].loop \in Finished =>
       ws'[b].loop = ws[b].loop]_loopVars

\* A call refuses an existing workspace only while another call is making it or after
\* one died or failed making it, and never as somebody else's: the directory's name
\* leaves no room for another identity (loop.py 205-218).
RefusedForCause ==
  [][\A w \in Workers : call'[w].answer # call[w].answer =>
       /\ call'[w].answer.why # "mismatch"
       /\ call'[w].answer.why = "unrecognized" =>
            \/ TokenOf(call[w].base) \in orphaned
            \/ \E v \in Workers \ {w} : /\ call[v].pc \in Making
                                        /\ TokenOf(call[v].base) = TokenOf(call[w].base)]_loopVars

\* The evidence of a loop is its own: it is compared with the commit the loop
\* started from, unless the source moved while the workspace was prepared, between
\* the reading of HEAD and the end of the clone (loop.py 194, 223, 275-289).
EvidenceOwn ==
  \A w \in Workers : LET a == call[w].answer
                     IN  a.base \in Commits \ raced => a.at = a.base

\* The workspace of the current HEAD refuses every call: the runner's state in it is
\* torn, or its maker died or failed before the identity file.
Blocked ==
  \/ ws[TokenOf(head)].loop = "torn"
  \/ TokenOf(head) \in orphaned

\* "Allowing an interrupted Loop run to resume": deferred or failed and called again,
\* the step ends with a loop that finished, whatever crashes and whoever else calls,
\* unless the workspace is blocked for good (loop.py 111-138, README.md).
LoopFinishes == <>[]Blocked \/ <>(\E w \in Workers : call[w].answer.loop \in Finished)

=============================================================================
