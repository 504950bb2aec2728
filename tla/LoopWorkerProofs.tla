-------------------------- MODULE LoopWorkerProofs --------------------------
(***************************************************************************)
(* Proofs about LoopWorker: for any number of processes that call one step *)
(* while the source moves and processes die, a call answers "ok" only for  *)
(* a loop that passed, its evidence is its own, a loop that finished stays *)
(* finished, its iterations are never set back, and a refusal has a cause. *)
(*                                                                         *)
(* Nothing but the directory made by git clone keeps two calls apart: one  *)
(* of them clones (Apart), and from the identity file on only the absence  *)
(* of others (crowd) lets a call rely on the loop state it has read.       *)
(***************************************************************************)
EXTENDS LoopWorker, TLAPS

USE LoopAssumption DEF Commits

AnswerRecord ==
  [status : {"none", "ok", "deferred", "error"}, loop : LoopStates,
   at : Commits \cup {NoCommit}, base : Commits \cup {NoCommit},
   why : LoopWorkerErrors \cup {"none"}]

CallRecord ==
  [pc : CallPCs, base : Commits \cup {NoCommit}, loop : LoopStates, resume : BOOLEAN,
   iteration : 0..MaxIterations, answer : AnswerRecord]

\* A workspace without an identity has seen no loop; with one it is the clone of its own
\* commit, unless the source moved while it was made.
WorkspaceOK(b) ==
  /\ ~ws[b].dir => ws[b] = NoWorkspace
  /\ ws[b].identity \in {NoCommit, b}
  /\ ws[b].identity = NoCommit => ws[b].loop = "none"
  /\ ws[b].identity = b => ws[b].at = b \/ b \in raced
  /\ ws[b].loop = "none" => ws[b].iteration = 0

\* What a call knows of its workspace, while nobody else is at work there.
Knows(w, b) ==
  /\ CallAt(w, "start") => /\ ws[b].loop \in {"none"} \cup Resumable
                           /\ call[w].resume = (ws[b].loop \in Resumable)
  /\ CallAt(w, "running") => /\ ws[b].loop = "RUNNING"
                             /\ call[w].iteration = ws[b].iteration
  /\ CallAt(w, "report") => ws[b].loop = call[w].loop

CallOK(w) ==
  LET b == call[w].base
  IN  /\ ~CallAt(w, "idle") => b \in Commits
      /\ call[w].pc \in {"prepare", "clone", "cloning"} => b = head \/ b \in raced
      /\ call[w].pc \in Making => ws[b].dir /\ ws[b].identity = NoCommit
      /\ CallAt(w, "identity") => ws[b].at = b \/ b \in raced
      /\ call[w].pc \in InWorkspace => ws[b].identity = b /\ (b \notin crowd => Knows(w, b))

AnswerOK(w) ==
  LET a == call[w].answer
  IN  /\ a.base \in Commits => a.at = a.base \/ a.base \in raced
      /\ a.status = "ok" => /\ a.base \in Commits
                            /\ a.base \notin crowd => ws[a.base].loop = "PASSED"

Apart(v, w) ==
  v # w /\ call[v].base = call[w].base =>
    /\ ~(call[v].pc \in Making /\ call[w].pc \in Making)
    /\ call[v].pc \in InWorkspace /\ call[w].pc \in InWorkspace => call[w].base \in crowd

LoopInv ==
  /\ LoopTypeOK
  /\ \A b \in Commits : WorkspaceOK(b)
  /\ \A w \in Workers : CallOK(w) /\ AnswerOK(w)
  /\ \A v, w \in Workers : Apart(v, w)

LEMMA LoopTypes ==
  LoopTypeOK <=>
    /\ head \in Commits /\ crashes \in 0..MaxCrashes
    /\ ws \in [Commits -> Workspace]
    /\ call \in [Workers -> CallRecord]
    /\ crowd \subseteq Commits /\ raced \subseteq Commits /\ orphaned \subseteq Commits
BY DEF LoopTypeOK, CallRecord, AnswerRecord

LEMMA NoWorkspaceType == NoWorkspace \in Workspace
BY DEF NoWorkspace, Workspace, LoopStates, Finished

LEMMA IdleCallType == IdleCall \in CallRecord
<1>1. NoAnswer \in AnswerRecord
  BY DEF NoAnswer, Returned, AnswerRecord, LoopStates, Finished
<1> QED BY <1>1 DEF IdleCall, CallRecord, CallPCs, LoopStates, Finished

-----------------------------------------------------------------------------
(* What the pieces of a step do *)

LEMMA Gone ==
  ASSUME LoopTypeOK, NEW w \in Workers, NEW pc \in CallPCs, Go(w, pc)
  PROVE  /\ call' \in [Workers -> CallRecord]
         /\ \A v \in Workers : v # w => call'[v] = call[v]
         /\ call'[w].pc = pc /\ call'[w].base = call[w].base /\ call'[w].loop = call[w].loop
         /\ call'[w].iteration = call[w].iteration /\ call'[w].answer = call[w].answer
BY LoopTypes DEF Go, CallRecord

LEMMA Answered ==
  ASSUME LoopTypeOK, NEW w \in Workers, NEW a \in AnswerRecord, Answer(w, a)
  PROVE  /\ call' \in [Workers -> CallRecord]
         /\ \A v \in Workers : v # w => call'[v] = call[v]
         /\ call'[w].pc = "idle" /\ call'[w].base = NoCommit /\ call'[w].answer = a
<1> DEFINE C == [IdleCall EXCEPT !.answer = a]
<1>1. C \in CallRecord /\ C.pc = "idle" /\ C.base = NoCommit /\ C.answer = a
  BY IdleCallType DEF IdleCall, CallRecord
<1>2. call' = [call EXCEPT ![w] = C] /\ call \in [Workers -> CallRecord]
  BY LoopTypes DEF Answer
<1> HIDE DEF C
<1> QED BY <1>1, <1>2

LEMMA Written ==
  ASSUME LoopTypeOK, NEW w \in Workers, call[w].base \in Commits, NEW W \in Workspace, Write(w, W)
  PROVE  /\ ws' \in [Commits -> Workspace] /\ ws'[call[w].base] = W
         /\ \A b \in Commits : b # call[w].base => ws'[b] = ws[b]
BY LoopTypes DEF Write, TokenOf

\* Unless others are at work in it, a workspace's iterations are not set back and a loop
\* that finished in it stays as it is.
Progress(b) ==
  b \notin crowd' => /\ ws'[b].iteration >= ws[b].iteration
                     /\ ws[b].loop \in Finished => ws'[b].loop = ws[b].loop

LEMMA StaysPut ==
  ASSUME LoopTypeOK, NEW b \in Commits, ws'[b] = ws[b]
  PROVE  Progress(b)
<1>1. ws[b].iteration \in Nat
  BY LoopTypes DEF Workspace
<1> QED BY <1>1 DEF Progress

\* A step of w in the workspace of b keeps the invariant when it does so for w and b, and
\* takes nothing from another call that is at work there.
LEMMA Acts ==
  ASSUME LoopInv, NEW w \in Workers, NEW b \in Commits,
         head' = head, raced' = raced, crowd \subseteq crowd', crowd' \subseteq Commits,
         crashes' \in 0..MaxCrashes, orphaned' \subseteq Commits,
         call' \in [Workers -> CallRecord], \A v \in Workers : v # w => call'[v] = call[v],
         ws' \in [Commits -> Workspace], \A c \in Commits : c # b => ws'[c] = ws[c],
         call'[w].base \in {b, NoCommit}, CallOK(w)', AnswerOK(w)', WorkspaceOK(b)', Progress(b),
         \A v \in Workers : v # w /\ call[v].base = b =>
           /\ call[v].pc \in Making => ws'[b] = ws[b] /\ call'[w].pc \notin Making
           /\ call[v].pc \in InWorkspace =>
                /\ ws'[b] = ws[b] \/ (ws'[b].identity = ws[b].identity /\ b \in crowd')
                /\ call'[w].pc \in InWorkspace => b \in crowd'
  PROVE  LoopInv' /\ \A c \in Commits : Progress(c)
<1>t. LoopTypeOK
  BY DEF LoopInv
<1>0. LoopTypeOK'
  BY <1>t DEF LoopTypeOK, CallRecord, AnswerRecord
<1>1. \A c \in Commits : Progress(c)
  BY <1>t, StaysPut
<1>2. \A c \in Commits : WorkspaceOK(c)'
  BY DEF LoopInv, WorkspaceOK
<1>3. ASSUME NEW v \in Workers, v # w PROVE CallOK(v)'
  <2> DEFINE d == call[v].base
  <2>1. call'[v] = call[v] /\ CallOK(v) /\ (call[v].pc # "idle" => d \in Commits)
    BY <1>3 DEF LoopInv, CallOK, CallAt
  <2> HIDE DEF d
  <2>2. CASE call[v].pc = "idle"
    BY <2>1, <2>2 DEF CallOK, CallAt, Making, InWorkspace
  <2>3. CASE call[v].pc # "idle" /\ ws'[d] = ws[d]
    BY <2>1, <2>3 DEF CallOK, Knows, CallAt, d
  <2>4. CASE call[v].pc # "idle" /\ ws'[d] # ws[d]
    <3>1. d = b /\ call[v].pc \notin Making
      BY <1>3, <2>1, <2>4 DEF d
    <3>2. call[v].pc \in InWorkspace => ws'[b].identity = ws[b].identity /\ b \in crowd'
      BY <1>3, <2>4, <3>1 DEF d
    <3> QED BY <2>1, <3>1, <3>2 DEF CallOK, CallAt, Making, d
  <2> QED BY <2>2, <2>3, <2>4
<1>4. ASSUME NEW v \in Workers, v # w PROVE AnswerOK(v)'
  <2> DEFINE a == call[v].answer
  <2>1. call'[v] = call[v] /\ AnswerOK(v)
    BY <1>4 DEF LoopInv
  <2>2. a.status = "ok" /\ a.base \in Commits /\ a.base \notin crowd' /\ ws[a.base].loop = "PASSED"
          => ws'[a.base].loop = "PASSED"
    BY <1>1 DEF Progress, Finished
  <2> QED BY <2>1, <2>2 DEF AnswerOK
<1>5. ASSUME NEW u \in Workers, NEW v \in Workers, u # w, v # w PROVE Apart(u, v)'
  BY <1>5 DEF LoopInv, Apart
<1>6. ASSUME NEW v \in Workers, v # w PROVE Apart(v, w)' /\ Apart(w, v)'
  <2>1. call'[v] = call[v] /\ (call[v].base = NoCommit => call[v].pc = "idle")
    BY <1>6 DEF LoopInv, CallOK, CallAt
  <2> QED BY <1>6, <2>1 DEF Apart, Making, InWorkspace
<1>7. \A u, v \in Workers : Apart(u, v)'
  BY <1>5, <1>6 DEF Apart
<1> QED BY <1>0, <1>1, <1>2, <1>3, <1>4, <1>7 DEF LoopInv

-----------------------------------------------------------------------------
(* The steps *)

LEMMA CallFacts ==
  ASSUME LoopInv, NEW w \in Workers
  PROVE  /\ LoopTypeOK /\ CallOK(w) /\ AnswerOK(w)
         /\ call[w] \in CallRecord /\ head \in Commits /\ crashes \in 0..MaxCrashes
         /\ ws \in [Commits -> Workspace] /\ crowd \subseteq Commits
         /\ orphaned \subseteq Commits
         /\ ~CallAt(w, "idle") => /\ call[w].base \in Commits
                                  /\ WorkspaceOK(call[w].base)
                                  /\ Here(w) = ws[call[w].base] /\ Here(w) \in Workspace
<1>1. LoopTypeOK /\ CallOK(w) /\ AnswerOK(w)
  BY DEF LoopInv
<1>2. ~CallAt(w, "idle") => call[w].base \in Commits
  BY <1>1 DEF CallOK
<1> QED BY <1>1, <1>2, LoopTypes DEF LoopInv, Here, TokenOf

\* An answer that names no commit says nothing about any loop.
Dismissals == {NoAnswer, Raised} \cup {Refused(why) : why \in LoopWorkerErrors}

LEMMA DismissalTypes ==
  /\ NoAnswer \in Dismissals /\ Raised \in Dismissals
  /\ \A why \in LoopWorkerErrors : Refused(why) \in Dismissals
  /\ {"failed", "unrecognized", "mismatch"} = LoopWorkerErrors
  /\ \A a \in Dismissals : a \in AnswerRecord /\ a.base = NoCommit /\ a.status # "ok"
<1>1. NoAnswer \in AnswerRecord /\ NoAnswer.base = NoCommit /\ NoAnswer.status # "ok"
  BY DEF NoAnswer, Returned, AnswerRecord, LoopStates
<1>2. Raised \in AnswerRecord /\ Raised.base = NoCommit /\ Raised.status # "ok"
  BY DEF Raised, Returned, AnswerRecord, LoopStates
<1>3. ASSUME NEW why \in LoopWorkerErrors
      PROVE  Refused(why) \in AnswerRecord /\ Refused(why).base = NoCommit
             /\ Refused(why).status # "ok"
  BY DEF Refused, AnswerRecord, LoopStates
<1>4. {"failed", "unrecognized", "mismatch"} = LoopWorkerErrors
  BY DEF LoopWorkerErrors
<1> QED BY <1>1, <1>2, <1>3, <1>4 DEF Dismissals

LEMMA Dismissed ==
  ASSUME NEW w, call'[w].pc = "idle", call'[w].answer \in Dismissals
  PROVE  CallOK(w)' /\ AnswerOK(w)'
<1>1. CallOK(w)'
  BY DEF CallOK, CallAt, Making, InWorkspace
<1>3. AnswerOK(w)'
  BY DismissalTypes DEF AnswerOK
<1> QED BY <1>1, <1>3

LEMMA AnswerKept ==
  ASSUME LoopInv, NEW w \in Workers, NEW b \in Commits, call'[w].answer = call[w].answer,
         crowd \subseteq crowd', raced' = raced, Progress(b),
         \A c \in Commits : c # b => ws'[c] = ws[c]
  PROVE  AnswerOK(w)'
<1>1. AnswerOK(w)
  BY DEF LoopInv
<1> QED BY <1>1 DEF AnswerOK, Progress, Finished

Kept == LoopInv' /\ \A c \in Commits : Progress(c)

\* Steps that leave the workspaces alone and go on.
LEMMA GoesOn ==
  ASSUME LoopInv, NEW w \in Workers, ~CallAt(w, "idle"),
         UNCHANGED <<head, ws, crashes, raced, orphaned>>,
         call' \in [Workers -> CallRecord], \A v \in Workers : v # w => call'[v] = call[v],
         call'[w].base = call[w].base, call'[w].answer = call[w].answer, CallOK(w)',
         crowd \subseteq crowd', crowd' \subseteq Commits, call'[w].pc \notin Making,
         \A v \in Workers : v # w /\ call[v].base = call[w].base /\ call[v].pc \in InWorkspace
           => (call'[w].pc \in InWorkspace => call[w].base \in crowd')
  PROVE  Kept
<1>0. PICK b \in Commits : b = call[w].base
  BY CallFacts
<1>1. LoopTypeOK /\ WorkspaceOK(b) /\ ws \in [Commits -> Workspace]
      /\ crashes \in 0..MaxCrashes /\ orphaned \subseteq Commits
  BY <1>0, CallFacts
<1>2. Progress(b)
  BY <1>1, StaysPut
<1>3. AnswerOK(w)'
  BY <1>1, <1>2, AnswerKept
<1>4. WorkspaceOK(b)'
  BY <1>1 DEF WorkspaceOK
<1>5. call'[w].base \in {b, NoCommit}
  BY <1>0
<1>6. \A v \in Workers : v # w /\ call[v].base = b =>
           /\ call[v].pc \in Making => ws'[b] = ws[b] /\ call'[w].pc \notin Making
           /\ call[v].pc \in InWorkspace =>
                /\ ws'[b] = ws[b] \/ (ws'[b].identity = ws[b].identity /\ b \in crowd')
                /\ call'[w].pc \in InWorkspace => b \in crowd'
  BY <1>0
<1> QED BY <1>0, <1>1, <1>2, <1>3, <1>4, <1>5, <1>6, Acts DEF Kept

\* Steps that end the call and leave the workspaces alone.
LEMMA Ends ==
  ASSUME LoopInv, NEW w \in Workers, ~CallAt(w, "idle"), UNCHANGED <<head, ws, crowd, raced>>,
         orphaned' \subseteq Commits, crashes' \in 0..MaxCrashes, NEW a \in AnswerRecord, Answer(w, a), AnswerOK(w)'
  PROVE  Kept
<1>0. PICK b \in Commits : b = call[w].base
  BY CallFacts
<1>1. LoopTypeOK /\ WorkspaceOK(b) /\ ws \in [Commits -> Workspace]
      /\ crowd \subseteq Commits
  BY <1>0, CallFacts
<1>2. /\ call' \in [Workers -> CallRecord] /\ \A v \in Workers : v # w => call'[v] = call[v]
      /\ call'[w].pc = "idle" /\ call'[w].base = NoCommit
  BY <1>1, Answered
<1>4. Progress(b)
  BY <1>1, StaysPut
<1>5. WorkspaceOK(b)'
  BY <1>1 DEF WorkspaceOK
<1>6. CallOK(w)'
  BY <1>2 DEF CallOK, CallAt, Making, InWorkspace
<1>7. \A v \in Workers : v # w /\ call[v].base = b =>
           /\ call[v].pc \in Making => ws'[b] = ws[b] /\ call'[w].pc \notin Making
           /\ call[v].pc \in InWorkspace =>
                /\ ws'[b] = ws[b] \/ (ws'[b].identity = ws[b].identity /\ b \in crowd')
                /\ call'[w].pc \in InWorkspace => b \in crowd'
  BY <1>2 DEF Making, InWorkspace
<1> QED BY <1>0, <1>1, <1>2, <1>4, <1>5, <1>6, <1>7, Acts DEF Kept

LEMMA Entered ==
  ASSUME LoopTypeOK, NEW w \in Workers, call[w].base \in Commits, Enter(w)
  PROVE  /\ call' \in [Workers -> CallRecord]
         /\ \A v \in Workers : v # w => call'[v] = call[v]
         /\ call'[w].pc = "load" /\ call'[w].base = call[w].base
         /\ call'[w].answer = call[w].answer
         /\ crowd \subseteq crowd' /\ crowd' \subseteq Commits
         /\ \A v \in Workers : v # w /\ call[v].base = call[w].base /\ call[v].pc \in InWorkspace
              => call[w].base \in crowd'
<1>1. "load" \in CallPCs /\ Go(w, "load")
  BY DEF CallPCs, InWorkspace, Enter
<1>2. crowd \subseteq Commits
  BY LoopTypes
<1>3. crowd' = IF \E v \in Workers \ {w} : call[v].pc \in InWorkspace /\ call[v].base = call[w].base
                 THEN crowd \cup {call[w].base} ELSE crowd
  BY DEF Enter, TokenOf
<1> QED BY <1>1, <1>2, <1>3, Gone

LEMMA PrepareSteps ==
  ASSUME LoopInv, NEW w \in Workers, Recognize(w) \/ Refuse(w) \/ NotThere(w)
  PROVE  Kept
<1>0. ~CallAt(w, "idle") /\ CallAt(w, "prepare") /\ crashes' = crashes
  BY DEF Recognize, Refuse, NotThere, CallAt
<1>1. CASE Recognize(w)
  <2>1. Here(w).identity = call[w].base /\ Enter(w) /\ UNCHANGED <<head, ws, crashes, raced, orphaned>>
    BY <1>1 DEF Recognize
  <2>2. /\ call' \in [Workers -> CallRecord]
        /\ \A v \in Workers : v # w => call'[v] = call[v]
        /\ call'[w].pc = "load" /\ call'[w].base = call[w].base
        /\ call'[w].answer = call[w].answer
        /\ crowd \subseteq crowd' /\ crowd' \subseteq Commits
        /\ \A v \in Workers : v # w /\ call[v].base = call[w].base /\ call[v].pc \in InWorkspace
             => call[w].base \in crowd'
    BY <1>0, <2>1, CallFacts, Entered
  <2>3. CallOK(w)'
    BY <1>0, <2>1, <2>2, CallFacts DEF CallOK, CallAt, Knows, Making
  <2> QED BY <1>0, <2>1, <2>2, <2>3, GoesOn DEF Making
<1>2. CASE Refuse(w)
  <2> DEFINE why == IF Here(w).identity = NoCommit THEN "unrecognized" ELSE "mismatch"
  <2>1. Answer(w, Refused(why)) /\ Refused(why) \in Dismissals /\ Refused(why) \in AnswerRecord
        /\ UNCHANGED <<head, ws, crashes, crowd, raced, orphaned>>
    BY <1>2, DismissalTypes DEF Refuse, history
  <2> HIDE DEF why
  <2>2. AnswerOK(w)'
    BY <2>1, CallFacts, Answered, Dismissed
  <2>3. orphaned' \subseteq Commits
    BY <2>1, CallFacts
  <2> QED BY <1>0, <2>1, <2>2, <2>3, CallFacts, Ends
<1>3. CASE NotThere(w)
  <2>1. Go(w, "clone") /\ "clone" \in CallPCs /\ UNCHANGED <<head, ws, crashes, raced, crowd, orphaned>>
    BY <1>3 DEF NotThere, CallPCs, history
  <2>2. /\ call' \in [Workers -> CallRecord]
        /\ \A v \in Workers : v # w => call'[v] = call[v]
        /\ call'[w].pc = "clone" /\ call'[w].base = call[w].base
        /\ call'[w].answer = call[w].answer
    BY <2>1, CallFacts, Gone
  <2>3. CallOK(w)'
    BY <1>0, <2>1, <2>2, CallFacts DEF CallOK, CallAt, Making, InWorkspace
  <2> QED BY <1>0, <2>1, <2>2, <2>3, CallFacts, GoesOn DEF Making, InWorkspace
<1> QED BY <1>1, <1>2, <1>3

\* Nobody else is at work where one clones; and two that are in a workspace know it.
LEMMA Alone ==
  ASSUME LoopInv, NEW w \in Workers, NEW v \in Workers, v # w, call[v].base = call[w].base
  PROVE  /\ call[w].pc \in Making => call[v].pc \notin Making \cup InWorkspace
         /\ call[w].pc \in InWorkspace => /\ call[v].pc \notin Making
                                          /\ call[v].pc \in InWorkspace => call[w].base \in crowd
<1>1. CallOK(v) /\ CallOK(w) /\ Apart(v, w)
  BY DEF LoopInv
<1>2. \A b \in Commits : b # NoCommit
  OBVIOUS
<1> QED BY <1>1, <1>2 DEF CallOK, CallAt, Making, InWorkspace, Apart

\* .. nor where there is no workspace yet.
LEMMA NobodyThere ==
  ASSUME LoopInv, NEW w \in Workers, ~CallAt(w, "idle"), ~Here(w).dir, NEW v \in Workers,
         call[v].base = call[w].base
  PROVE  call[v].pc \notin Making \cup InWorkspace
<1>1. CallOK(v) /\ Here(w) = ws[call[w].base] /\ call[w].base \in Commits
      /\ WorkspaceOK(call[w].base)
  BY CallFacts DEF LoopInv
<1>2. ws[call[w].base].identity = NoCommit /\ call[w].base # NoCommit
  BY <1>1 DEF WorkspaceOK, NoWorkspace
<1> QED BY <1>1, <1>2 DEF CallOK

\* A step of w that writes its workspace as W.
LEMMA Writes ==
  ASSUME LoopInv, NEW w \in Workers, ~CallAt(w, "idle"), NEW W \in Workspace, Write(w, W),
         NEW b \in Commits, b = call[w].base,
         UNCHANGED <<head, raced>>, crowd \subseteq crowd', crowd' \subseteq Commits,
         crashes' \in 0..MaxCrashes, orphaned' \subseteq Commits,
         call' \in [Workers -> CallRecord], \A v \in Workers : v # w => call'[v] = call[v],
         call'[w].base \in {b, NoCommit}, CallOK(w)', AnswerOK(w)',
         WorkspaceOK(b)', Progress(b),
         \A v \in Workers : v # w /\ call[v].base = b =>
           /\ call[v].pc \notin Making
           /\ call[v].pc \in InWorkspace => W.identity = Here(w).identity /\ b \in crowd'
  PROVE  Kept
<1>1. /\ ws' \in [Commits -> Workspace] /\ ws'[b] = W
      /\ \A c \in Commits : c # b => ws'[c] = ws[c]
  BY CallFacts, Written
<1>2. Here(w) = ws[b]
  BY CallFacts
<1> QED BY <1>1, <1>2, Acts DEF Kept

LEMMA CloneBeginStep ==
  ASSUME LoopInv, NEW w \in Workers, CloneBegin(w)
  PROVE  Kept
<1>0. ~CallAt(w, "idle") /\ CallAt(w, "clone") /\ UNCHANGED <<head, crashes, crowd, raced, orphaned>>
  BY DEF CloneBegin, CallAt, history
<1>1. PICK b \in Commits : b = call[w].base
  BY <1>0, CallFacts
<1>f. /\ LoopTypeOK /\ Here(w) = ws[b] /\ WorkspaceOK(b) /\ ws[b] \in Workspace
      /\ crowd \subseteq Commits /\ orphaned \subseteq Commits /\ crashes \in 0..MaxCrashes
      /\ CallOK(w)
  BY <1>0, <1>1, CallFacts
<1>2. CASE Here(w).dir
  <2>1. /\ Answer(w, Refused("failed")) /\ Refused("failed") \in Dismissals
        /\ Refused("failed") \in AnswerRecord /\ ws' = ws
    BY <1>2, DismissalTypes DEF CloneBegin
  <2>2. AnswerOK(w)'
    BY <2>1, <1>f, Answered, Dismissed
  <2> QED BY <1>0, <1>f, <2>1, <2>2, Ends
<1>3. CASE ~Here(w).dir
  <2> DEFINE W == [NoWorkspace EXCEPT !.dir = TRUE]
  <2>1. W \in Workspace /\ W.dir /\ W.identity = NoCommit /\ W.loop = "none" /\ W.iteration = 0
    BY NoWorkspaceType DEF NoWorkspace, Workspace
  <2>2. Go(w, "cloning") /\ "cloning" \in CallPCs /\ Write(w, W)
    BY <1>3 DEF CloneBegin, CallPCs
  <2> HIDE DEF W
  <2>3. /\ call' \in [Workers -> CallRecord]
        /\ \A v \in Workers : v # w => call'[v] = call[v]
        /\ call'[w].pc = "cloning" /\ call'[w].base = b /\ call'[w].answer = call[w].answer
    BY <1>1, <1>f, <2>2, Gone
  <2>4. ws'[b] = W /\ \A c \in Commits : c # b => ws'[c] = ws[c]
    BY <1>1, <1>f, <2>1, <2>2, Written
  <2>5. ws[b].iteration = 0 /\ ws[b].loop = "none"
    BY <1>3, <1>f DEF WorkspaceOK, NoWorkspace
  <2>6. Progress(b)
    BY <2>1, <2>4, <2>5 DEF Progress
  <2>7. WorkspaceOK(b)'
    BY <2>1, <2>4 DEF WorkspaceOK
  <2>8. CallOK(w)'
    BY <1>0, <1>1, <1>f, <2>1, <2>3, <2>4 DEF CallOK, CallAt, InWorkspace
  <2>9. AnswerOK(w)'
    BY <1>0, <2>3, <2>4, <2>6, AnswerKept
  <2>10. \A v \in Workers : call[v].base = b => call[v].pc \notin Making \cup InWorkspace
    BY <1>0, <1>1, <1>3, NobodyThere
  <2> QED BY <1>0, <1>1, <1>f, <2>1, <2>2, <2>3, <2>6, <2>7, <2>8, <2>9, <2>10, Writes
<1> QED BY <1>2, <1>3

LEMMA CloneEndStep ==
  ASSUME LoopInv, NEW w \in Workers, CloneEnd(w)
  PROVE  Kept
<1>0. ~CallAt(w, "idle") /\ CallAt(w, "cloning") /\ UNCHANGED <<head, crashes, crowd, raced, orphaned>>
  BY DEF CloneEnd, CallAt, history
<1>1. PICK b \in Commits : b = call[w].base
  BY <1>0, CallFacts
<1>f. /\ LoopTypeOK /\ Here(w) = ws[b] /\ WorkspaceOK(b) /\ ws[b] \in Workspace /\ head \in Commits
      /\ crowd \subseteq Commits /\ orphaned \subseteq Commits /\ crashes \in 0..MaxCrashes
      /\ CallOK(w) /\ AnswerOK(w)
  BY <1>0, <1>1, CallFacts
<1>2. /\ ws[b].dir /\ ws[b].identity = NoCommit /\ ws[b].loop = "none" /\ ws[b].iteration = 0
      /\ b = head \/ b \in raced
  BY <1>0, <1>1, <1>f DEF CallOK, CallAt, Making, WorkspaceOK
<1>3. \A v \in Workers : v # w /\ call[v].base = b => call[v].pc \notin Making \cup InWorkspace
  BY <1>0, <1>1, Alone DEF CallAt, Making
<1>4. ASSUME NEW W \in Workspace, Write(w, W), W.identity = NoCommit, W.loop = "none",
             W.iteration = 0, ~W.dir => W = NoWorkspace,
             call' \in [Workers -> CallRecord], \A v \in Workers : v # w => call'[v] = call[v],
             call'[w].base \in {b, NoCommit}, CallOK(w)', AnswerOK(w)'
      PROVE  Kept
  <2>1. ws'[b] = W
    BY <1>1, <1>4, <1>f, Written
  <2>2. Progress(b) /\ WorkspaceOK(b)'
    BY <1>2, <1>4, <2>1 DEF Progress, WorkspaceOK, Finished
  <2> QED BY <1>0, <1>1, <1>f, <1>3, <1>4, <2>2, Writes
<1>5. CASE Go(w, "identity") /\ Write(w, [Here(w) EXCEPT !.at = head])
  <2> DEFINE W == [Here(w) EXCEPT !.at = head]
  <2>1. /\ W \in Workspace /\ W.identity = NoCommit /\ W.loop = "none" /\ W.iteration = 0
        /\ W.dir /\ W.at = head
    BY <1>2, <1>f DEF Workspace
  <2> HIDE DEF W
  <2>2. "identity" \in CallPCs /\ Go(w, "identity") /\ Write(w, W)
    BY <1>5 DEF CallPCs, W
  <2>3. /\ call' \in [Workers -> CallRecord]
        /\ \A v \in Workers : v # w => call'[v] = call[v]
        /\ call'[w].pc = "identity" /\ call'[w].base = b /\ call'[w].answer = call[w].answer
    BY <1>1, <1>f, <2>2, Gone
  <2>4. ws'[b] = W /\ \A c \in Commits : c # b => ws'[c] = ws[c]
    BY <1>1, <1>f, <2>1, <2>2, Written
  <2>5. CallOK(w)'
    BY <1>0, <1>2, <2>1, <2>3, <2>4 DEF CallOK, CallAt, InWorkspace
  <2>6. Progress(b)
    BY <1>2, <2>1, <2>4 DEF Progress, Finished
  <2>7. AnswerOK(w)'
    BY <1>0, <2>3, <2>4, <2>6, AnswerKept
  <2> QED BY <1>4, <2>1, <2>2, <2>3, <2>5, <2>7
<1>6. CASE Answer(w, Refused("failed")) /\ Write(w, NoWorkspace)
  <2>1. Refused("failed") \in Dismissals /\ Refused("failed") \in AnswerRecord
    BY DismissalTypes
  <2>2. /\ call' \in [Workers -> CallRecord]
        /\ \A v \in Workers : v # w => call'[v] = call[v]
        /\ call'[w].base = NoCommit /\ CallOK(w)' /\ AnswerOK(w)'
    BY <1>6, <1>f, <2>1, Answered, Dismissed
  <2>3. /\ NoWorkspace \in Workspace /\ NoWorkspace.identity = NoCommit
        /\ NoWorkspace.loop = "none" /\ NoWorkspace.iteration = 0
    BY NoWorkspaceType DEF NoWorkspace
  <2> QED BY <1>4, <1>6, <2>2, <2>3
<1> QED BY <1>5, <1>6 DEF CloneEnd

LEMMA WriteIdentityStep ==
  ASSUME LoopInv, NEW w \in Workers, WriteIdentity(w)
  PROVE  Kept
<1>0. ~CallAt(w, "idle") /\ CallAt(w, "identity") /\ UNCHANGED <<head, crashes, raced, orphaned>>
  BY DEF WriteIdentity, CallAt
<1>1. PICK b \in Commits : b = call[w].base
  BY <1>0, CallFacts
<1>f. /\ LoopTypeOK /\ Here(w) = ws[b] /\ WorkspaceOK(b) /\ ws[b] \in Workspace
      /\ crashes \in 0..MaxCrashes /\ CallOK(w) /\ orphaned \subseteq Commits
  BY <1>0, <1>1, CallFacts
<1>2. /\ ws[b].dir /\ ws[b].identity = NoCommit /\ ws[b].loop = "none" /\ ws[b].iteration = 0
      /\ ws[b].at = b \/ b \in raced
  BY <1>0, <1>1, <1>f DEF CallOK, CallAt, Making, WorkspaceOK
<1> DEFINE W == [Here(w) EXCEPT !.identity = b]
<1>3. /\ W \in Workspace /\ W.identity = b /\ W.loop = "none" /\ W.iteration = 0
      /\ W.dir /\ W.at = ws[b].at
  BY <1>2, <1>f DEF Workspace
<1>4. Write(w, W)
  BY <1>1 DEF WriteIdentity
<1> HIDE DEF W
<1>5. /\ call' \in [Workers -> CallRecord]
      /\ \A v \in Workers : v # w => call'[v] = call[v]
      /\ call'[w].pc = "load" /\ call'[w].base = b /\ call'[w].answer = call[w].answer
      /\ crowd \subseteq crowd' /\ crowd' \subseteq Commits
  BY <1>1, <1>f, Entered DEF WriteIdentity
<1>6. ws'[b] = W /\ \A c \in Commits : c # b => ws'[c] = ws[c]
  BY <1>1, <1>f, <1>3, <1>4, Written
<1>7. Progress(b) /\ WorkspaceOK(b)'
  BY <1>0, <1>2, <1>3, <1>6 DEF Progress, Finished, WorkspaceOK
<1>8. CallOK(w)'
  BY <1>3, <1>5, <1>6 DEF CallOK, CallAt, Making, Knows
<1>9. AnswerOK(w)'
  BY <1>0, <1>5, <1>6, <1>7, AnswerKept
<1>10. \A v \in Workers : v # w /\ call[v].base = b => call[v].pc \notin Making \cup InWorkspace
  BY <1>0, <1>1, Alone DEF CallAt, Making
<1> QED BY <1>0, <1>1, <1>f, <1>3, <1>4, <1>5, <1>7, <1>8, <1>9, <1>10, Writes

-----------------------------------------------------------------------------
(* The loop's runner *)

\* A step of the runner of w that leaves W in its workspace.
LEMMA RunnerWrites ==
  ASSUME LoopInv, NEW w \in Workers, call[w].pc \in InWorkspace,
         NEW b \in Commits, b = call[w].base, NEW W \in Workspace, Write(w, W),
         W.dir = ws[b].dir, W.at = ws[b].at, W.identity = ws[b].identity, W.loop # "none",
         b \notin crowd => ws[b].loop \notin Finished /\ W.iteration >= ws[b].iteration,
         UNCHANGED <<head, crowd, raced>>, orphaned' \subseteq Commits,
         crashes' \in 0..MaxCrashes,
         call' \in [Workers -> CallRecord], \A v \in Workers : v # w => call'[v] = call[v],
         call'[w].base \in {b, NoCommit}, CallOK(w)',
         AnswerOK(w)' \/ call'[w].answer = call[w].answer
  PROVE  Kept
<1>0. ~CallAt(w, "idle")
  BY DEF CallAt, InWorkspace
<1>f. /\ LoopTypeOK /\ Here(w) = ws[b] /\ WorkspaceOK(b) /\ ws[b] \in Workspace
      /\ crowd \subseteq Commits /\ CallOK(w)
  BY <1>0, CallFacts
<1>1. ws[b].identity = b
  BY <1>f DEF CallOK
<1>2. ws'[b] = W /\ \A c \in Commits : c # b => ws'[c] = ws[c]
  BY <1>f, Written
<1>3. Progress(b)
  BY <1>0, <1>2 DEF Progress
<1>4. W.dir
  BY <1>1, <1>f DEF WorkspaceOK, NoWorkspace
<1>5. WorkspaceOK(b)'
  BY <1>0, <1>1, <1>2, <1>4, <1>f DEF WorkspaceOK
<1>6. AnswerOK(w)'
  BY <1>0, <1>2, <1>3, AnswerKept
<1>7. \A v \in Workers : v # w /\ call[v].base = b =>
        call[v].pc \notin Making /\ (call[v].pc \in InWorkspace => b \in crowd)
  BY Alone
<1> QED BY <1>0, <1>3, <1>5, <1>6, <1>7, <1>f, Writes

LEMMA LoadStep ==
  ASSUME LoopInv, NEW w \in Workers, Load(w)
  PROVE  Kept
<1>0. /\ ~CallAt(w, "idle") /\ call[w].pc = "load" /\ UNCHANGED <<head, ws, crashes, crowd, raced, orphaned>>
      /\ call[w].pc \in InWorkspace
  BY DEF Load, LoadWith, CallAt, history, InWorkspace
<1>1. PICK b \in Commits : b = call[w].base
  BY <1>0, CallFacts
<1>f. /\ LoopTypeOK /\ Here(w) = ws[b] /\ ws[b] \in Workspace /\ crowd \subseteq Commits
      /\ crashes \in 0..MaxCrashes /\ CallOK(w) /\ call[w] \in CallRecord
      /\ call \in [Workers -> CallRecord]
  BY <1>0, <1>1, CallFacts, LoopTypes
<1>2. CASE ws[b].loop = "torn"
  <2>1. /\ Answer(w, Refused("failed")) /\ Refused("failed") \in Dismissals
        /\ Refused("failed") \in AnswerRecord
    BY <1>2, <1>f, DismissalTypes DEF Load, LoadWith, Finished
  <2>2. AnswerOK(w)'
    BY <2>1, <1>f, Answered, Dismissed
  <2>3. UNCHANGED <<head, ws, crowd, raced>> /\ orphaned' \subseteq Commits /\ crashes' \in 0..MaxCrashes
    BY <1>0, <1>f DEF LoopTypeOK
  <2> QED BY <1>0, <1>f, <2>1, <2>2, <2>3, Ends
<1>3. CASE ws[b].loop # "torn"
  <2>1. \/ /\ ws[b].loop \in Finished
           /\ call' = [call EXCEPT ![w].pc = "report", ![w].loop = ws[b].loop]
        \/ /\ ws[b].loop \notin Finished
           /\ call' = [call EXCEPT ![w].pc = "start", ![w].resume = ws[b].loop \in Resumable]
    BY <1>3, <1>f DEF Load, LoadWith
  <2>2. /\ {"report", "start"} \subseteq CallPCs /\ ws[b].loop \in LoopStates
        /\ (ws[b].loop \in Resumable) \in BOOLEAN
        /\ ws[b].loop \notin Finished => ws[b].loop \in {"none"} \cup Resumable
    BY <1>3, <1>f DEF CallPCs, InWorkspace, Workspace, LoopStates, Resumable
  <2>3. /\ call' \in [Workers -> CallRecord]
        /\ \A v \in Workers : v # w => call'[v] = call[v]
        /\ call'[w].base = b /\ call'[w].answer = call[w].answer
        /\ \/ call'[w].pc = "report" /\ call'[w].loop = ws[b].loop
           \/ /\ call'[w].pc = "start" /\ call'[w].resume = (ws[b].loop \in Resumable)
              /\ ws[b].loop \in {"none"} \cup Resumable
    <3>1. CASE call' = [call EXCEPT ![w].pc = "report", ![w].loop = ws[b].loop]
      BY <1>1, <1>f, <2>2, <3>1 DEF CallRecord
    <3>2. CASE ws[b].loop \notin Finished /\
               call' = [call EXCEPT ![w].pc = "start", ![w].resume = ws[b].loop \in Resumable]
      BY <1>1, <1>f, <2>2, <3>2 DEF CallRecord
    <3> QED BY <2>1, <3>1, <3>2
  <2>4. CallOK(w)'
    BY <1>0, <1>1, <1>f, <2>2, <2>3 DEF CallOK, CallAt, Making, Knows
  <2>5. \A v \in Workers : v # w /\ call[v].base = call[w].base /\ call[v].pc \in InWorkspace
          => b \in crowd
    BY <1>0, <1>1, Alone
  <2> QED BY <1>0, <1>1, <1>f, <2>2, <2>3, <2>4, <2>5, GoesOn DEF Making
<1> QED BY <1>2, <1>3

LEMMA StartStep ==
  ASSUME LoopInv, NEW w \in Workers, Start(w)
  PROVE  Kept
<1>0. /\ ~CallAt(w, "idle") /\ call[w].pc = "start" /\ UNCHANGED <<head, crashes, crowd, raced, orphaned>>
      /\ call[w].pc \in InWorkspace
  BY DEF Start, CallAt, history, InWorkspace
<1>1. PICK b \in Commits : b = call[w].base
  BY <1>0, CallFacts
<1>f. /\ LoopTypeOK /\ Here(w) = ws[b] /\ ws[b] \in Workspace /\ WorkspaceOK(b)
      /\ crashes \in 0..MaxCrashes /\ CallOK(w) /\ call \in [Workers -> CallRecord]
      /\ orphaned \subseteq Commits
  BY <1>0, <1>1, CallFacts, LoopTypes
<1> DEFINE n == IF call[w].resume THEN ws[b].iteration ELSE 0
           W == [ws[b] EXCEPT !.loop = "RUNNING", !.iteration = n]
<1>2. n \in 0..MaxIterations
  BY <1>f DEF Workspace
<1>3. b \notin crowd => ws[b].loop \notin Finished /\ n >= ws[b].iteration /\ n = ws[b].iteration
  <2>1. ws[b].iteration \in Nat
    BY <1>f DEF Workspace
  <2>2. b \notin crowd => /\ ws[b].loop \in {"none"} \cup Resumable
                          /\ call[w].resume = (ws[b].loop \in Resumable)
    BY <1>0, <1>1, <1>f DEF CallOK, CallAt, Knows
  <2>3. b \notin crowd /\ ~call[w].resume => ws[b].iteration = 0
    BY <1>f, <2>2 DEF WorkspaceOK
  <2>4. b \notin crowd => n = ws[b].iteration
    BY <2>3
  <2>5. b \notin crowd => ws[b].loop \notin Finished
    BY <2>2 DEF Resumable, Finished
  <2> HIDE DEF n
  <2> QED BY <2>1, <2>4, <2>5
<1>4. /\ Write(w, W)
      /\ call' = [call EXCEPT ![w].pc = "running", ![w].iteration = n, ![w].resume = FALSE]
  BY <1>f DEF Start
<1> HIDE DEF n
<1>5. /\ W \in Workspace /\ W.loop = "RUNNING" /\ W.iteration = n
      /\ W.dir = ws[b].dir /\ W.at = ws[b].at /\ W.identity = ws[b].identity
  BY <1>2, <1>f DEF Workspace, LoopStates
<1> HIDE DEF W
<1>6. "running" \in CallPCs
  BY DEF CallPCs, InWorkspace
<1>7. /\ call' \in [Workers -> CallRecord]
      /\ \A v \in Workers : v # w => call'[v] = call[v]
      /\ call'[w].pc = "running" /\ call'[w].base = b /\ call'[w].answer = call[w].answer
      /\ call'[w].iteration = n
  <2> DEFINE C == [call[w] EXCEPT !.pc = "running", !.iteration = n, !.resume = FALSE]
  <2>1. call' = [call EXCEPT ![w] = C]
    BY <1>4
  <2>2. C \in CallRecord
    BY <1>2, <1>f, <1>6 DEF CallRecord
  <2>3. C.pc = "running" /\ C.base = b /\ C.answer = call[w].answer /\ C.iteration = n
    BY <1>1, <1>f DEF CallRecord
  <2> HIDE DEF C
  <2> QED BY <1>f, <2>1, <2>2, <2>3
<1>8. ws'[b] = W
  BY <1>1, <1>f, <1>4, <1>5, Written
<1>9. CallOK(w)'
  BY <1>0, <1>1, <1>f, <1>5, <1>7, <1>8 DEF CallOK, CallAt, Making, Knows, InWorkspace
<1> QED BY <1>0, <1>1, <1>f, <1>3, <1>4, <1>5, <1>7, <1>9, RunnerWrites

LEMMA IterateStep ==
  ASSUME LoopInv, NEW w \in Workers, Iterate(w)
  PROVE  Kept
<1>0. /\ ~CallAt(w, "idle") /\ call[w].pc = "running" /\ UNCHANGED <<head, crashes, crowd, raced, orphaned>>
      /\ call[w].pc \in InWorkspace
  BY DEF Iterate, CallAt, history, InWorkspace
<1>1. PICK b \in Commits : b = call[w].base
  BY <1>0, CallFacts
<1>f. /\ LoopTypeOK /\ Here(w) = ws[b] /\ ws[b] \in Workspace
      /\ crashes \in 0..MaxCrashes /\ CallOK(w) /\ call \in [Workers -> CallRecord]
      /\ orphaned \subseteq Commits
  BY <1>0, <1>1, CallFacts, LoopTypes
<1> DEFINE n == call[w].iteration + 1
           W == [ws[b] EXCEPT !.iteration = n, !.loop = "RUNNING"]
<1>2. n \in 0..MaxIterations /\ n = call[w].iteration + 1 /\ call[w].iteration \in Nat
  BY <1>f DEF Iterate, CallRecord
<1>4. Write(w, W) /\ call' = [call EXCEPT ![w].iteration = n]
  BY <1>f DEF Iterate
<1> HIDE DEF n
<1>3. b \notin crowd => ws[b].loop \notin Finished /\ n >= ws[b].iteration
  <2>1. b \notin crowd => ws[b].loop = "RUNNING" /\ call[w].iteration = ws[b].iteration
    BY <1>0, <1>1, <1>f DEF CallOK, CallAt, Knows
  <2> QED BY <1>2, <2>1 DEF Finished
<1>5. /\ W \in Workspace /\ W.loop = "RUNNING" /\ W.iteration = n
      /\ W.dir = ws[b].dir /\ W.at = ws[b].at /\ W.identity = ws[b].identity
  BY <1>2, <1>f DEF Workspace, LoopStates
<1> HIDE DEF W
<1>7. /\ call' \in [Workers -> CallRecord]
      /\ \A v \in Workers : v # w => call'[v] = call[v]
      /\ call'[w].pc = "running" /\ call'[w].base = b /\ call'[w].answer = call[w].answer
      /\ call'[w].iteration = n
  BY <1>0, <1>1, <1>2, <1>f, <1>4 DEF CallRecord
<1>8. ws'[b] = W
  BY <1>1, <1>f, <1>4, <1>5, Written
<1>9. CallOK(w)'
  BY <1>0, <1>1, <1>f, <1>5, <1>7, <1>8 DEF CallOK, CallAt, Making, Knows, InWorkspace
<1> QED BY <1>0, <1>1, <1>f, <1>3, <1>4, <1>5, <1>7, <1>9, RunnerWrites

LEMMA EndStep ==
  ASSUME LoopInv, NEW w \in Workers, NEW status \in Finished \cup {"STOPPED"}, End(w, status)
  PROVE  Kept
<1>0. /\ ~CallAt(w, "idle") /\ call[w].pc = "running" /\ UNCHANGED <<head, crashes, crowd, raced, orphaned>>
      /\ call[w].pc \in InWorkspace
  BY DEF End, CallAt, history, InWorkspace
<1>1. PICK b \in Commits : b = call[w].base
  BY <1>0, CallFacts
<1>f. /\ LoopTypeOK /\ Here(w) = ws[b] /\ ws[b] \in Workspace
      /\ crashes \in 0..MaxCrashes /\ CallOK(w) /\ call \in [Workers -> CallRecord]
      /\ orphaned \subseteq Commits
  BY <1>0, <1>1, CallFacts, LoopTypes
<1> DEFINE W == [ws[b] EXCEPT !.loop = status]
<1>4. /\ Write(w, W)
      /\ \/ call' = [call EXCEPT ![w].pc = "report", ![w].loop = status, ![w].iteration = 0]
         \/ Answer(w, Refused("failed"))
  BY <1>f DEF End
<1>5. /\ W \in Workspace /\ W.loop = status /\ W.iteration = ws[b].iteration
      /\ W.dir = ws[b].dir /\ W.at = ws[b].at /\ W.identity = ws[b].identity
  BY <1>f DEF Workspace, LoopStates
<1> HIDE DEF W
<1>3. b \notin crowd => ws[b].loop \notin Finished /\ W.iteration >= ws[b].iteration
  <2>1. b \notin crowd => ws[b].loop = "RUNNING"
    BY <1>0, <1>1, <1>f DEF CallOK, CallAt, Knows
  <2>2. ws[b].iteration \in Nat
    BY <1>f DEF Workspace
  <2> QED BY <1>5, <2>1, <2>2 DEF Finished
<1>6. "report" \in CallPCs /\ status \in LoopStates /\ 0 \in 0..MaxIterations /\ status # "none"
  BY DEF CallPCs, InWorkspace, LoopStates, Finished
<1>7. ASSUME call' = [call EXCEPT ![w].pc = "report", ![w].loop = status, ![w].iteration = 0]
      PROVE  /\ call' \in [Workers -> CallRecord]
             /\ \A v \in Workers : v # w => call'[v] = call[v]
             /\ call'[w].pc = "report" /\ call'[w].base = b
             /\ call'[w].answer = call[w].answer /\ call'[w].loop = status
  <2> DEFINE C == [call[w] EXCEPT !.pc = "report", !.loop = status, !.iteration = 0]
  <2>1. call' = [call EXCEPT ![w] = C]
    BY <1>7
  <2>2. C \in CallRecord
    BY <1>f, <1>6 DEF CallRecord
  <2>3. C.pc = "report" /\ C.base = b /\ C.answer = call[w].answer /\ C.loop = status
    BY <1>1, <1>f DEF CallRecord
  <2> HIDE DEF C
  <2> QED BY <1>f, <2>1, <2>2, <2>3
<1>8. ws'[b] = W
  BY <1>1, <1>f, <1>4, <1>5, Written
<1>9. CASE call' = [call EXCEPT ![w].pc = "report", ![w].loop = status, ![w].iteration = 0]
  <2>1. CallOK(w)'
    BY <1>0, <1>1, <1>f, <1>5, <1>7, <1>8, <1>9
       DEF CallOK, CallAt, Making, Knows, InWorkspace
  <2> QED BY <1>0, <1>1, <1>f, <1>3, <1>4, <1>5, <1>6, <1>7, <1>9, <2>1, RunnerWrites
<1>10. CASE Answer(w, Refused("failed"))
  <2>1. Refused("failed") \in Dismissals /\ Refused("failed") \in AnswerRecord
    BY DismissalTypes
  <2>2. /\ call' \in [Workers -> CallRecord]
        /\ \A v \in Workers : v # w => call'[v] = call[v]
        /\ call'[w].base = NoCommit /\ CallOK(w)' /\ AnswerOK(w)'
    BY <1>10, <1>f, <2>1, Answered, Dismissed
  <2> QED BY <1>0, <1>1, <1>f, <1>3, <1>4, <1>5, <1>6, <2>2, RunnerWrites
<1> QED BY <1>4, <1>9, <1>10

\* Calls that fail with nothing written.
LEMMA FailsStep ==
  ASSUME LoopInv, NEW w \in Workers, RunnerRaises(w) \/ EvidenceUnread(w) \/ IdentityRaises(w)
  PROVE  Kept
<1>0. ~CallAt(w, "idle") /\ UNCHANGED <<head, ws, crowd, raced>>
  BY DEF RunnerRaises, EvidenceUnread, IdentityRaises, CallAt, history
<1>1. PICK a \in Dismissals : Answer(w, a)
  BY DismissalTypes DEF RunnerRaises, EvidenceUnread, IdentityRaises
<1>2. a \in AnswerRecord
  BY DismissalTypes
<1>3. AnswerOK(w)'
  BY <1>1, <1>2, CallFacts, Answered, Dismissed
<1>4. crashes \in 0..MaxCrashes /\ orphaned \subseteq Commits /\ call[w].base \in Commits
  BY <1>0, CallFacts
<1>5. crashes' \in 0..MaxCrashes
  BY <1>4 DEF RunnerRaises, EvidenceUnread, IdentityRaises
<1>6. orphaned' \subseteq Commits
  BY <1>4 DEF RunnerRaises, EvidenceUnread, IdentityRaises, history, TokenOf
<1> QED BY <1>0, <1>1, <1>2, <1>3, <1>5, <1>6, Ends

LEMMA ReportStep ==
  ASSUME LoopInv, NEW w \in Workers, Report(w)
  PROVE  Kept
<1>0. /\ ~CallAt(w, "idle") /\ CallAt(w, "report") /\ UNCHANGED <<head, ws, orphaned, crowd, raced>>
      /\ crashes' = crashes
  BY DEF Report, CallAt, history
<1>1. PICK b \in Commits : b = call[w].base
  BY <1>0, CallFacts
<1>f. /\ LoopTypeOK /\ Here(w) = ws[b] /\ ws[b] \in Workspace /\ WorkspaceOK(b)
      /\ crashes \in 0..MaxCrashes /\ CallOK(w) /\ call[w] \in CallRecord
      /\ orphaned \subseteq Commits
  BY <1>0, <1>1, CallFacts
<1> DEFINE a == Returned(StatusOf(call[w].loop), call[w].loop, ws[b].at, ws[b].identity)
<1>2. Answer(w, a)
  BY <1>f DEF Report
<1>3. /\ StatusOf(call[w].loop) \in {"ok", "deferred", "error"}
      /\ StatusOf(call[w].loop) = "ok" => call[w].loop = "PASSED"
  BY DEF StatusOf
<1>4. a \in AnswerRecord
  BY <1>3, <1>f DEF Returned, AnswerRecord, CallRecord, Workspace
<1>5. /\ ws[b].identity = b /\ (ws[b].at = b \/ b \in raced)
      /\ b \notin crowd => ws[b].loop = call[w].loop
  BY <1>0, <1>1, <1>f DEF CallOK, CallAt, InWorkspace, WorkspaceOK, Knows
<1>6. a.base = b /\ a.at = ws[b].at /\ (a.status = "ok" => call[w].loop = "PASSED")
  BY <1>3, <1>5 DEF Returned
<1> HIDE DEF a
<1>7. call'[w].answer = a
  BY <1>2, <1>4, <1>f, Answered
<1>8. AnswerOK(w)'
  BY <1>0, <1>5, <1>6, <1>7 DEF AnswerOK
<1> QED BY <1>0, <1>2, <1>4, <1>8, <1>f, Ends

-----------------------------------------------------------------------------
(* Calls, deaths and the source *)

LEMMA CallStarts ==
  ASSUME LoopInv, NEW w \in Workers, Call(w)
  PROVE  Kept
<1> DEFINE C == [IdleCall EXCEPT !.pc = "prepare", !.base = head]
<1>f. /\ LoopTypeOK /\ crashes \in 0..MaxCrashes /\ crowd \subseteq Commits /\ head \in Commits
      /\ orphaned \subseteq Commits
      /\ call \in [Workers -> CallRecord] /\ ws \in [Commits -> Workspace] /\ WorkspaceOK(head)
  BY CallFacts, LoopTypes DEF LoopInv
<1>0. /\ UNCHANGED <<head, ws, crashes, crowd, raced, orphaned>>
      /\ call' = [call EXCEPT ![w] = C]
  BY DEF Call, history
<1>1. "prepare" \in CallPCs
  BY DEF CallPCs
<1>2. C \in CallRecord
  BY <1>1, <1>f, IdleCallType DEF CallRecord
<1>3. C.pc = "prepare" /\ C.base = head /\ C.answer = NoAnswer
  BY DEF IdleCall
<1> HIDE DEF C
<1>4. /\ call' \in [Workers -> CallRecord] /\ \A v \in Workers : v # w => call'[v] = call[v]
      /\ call'[w] = C
  BY <1>0, <1>2, <1>f
<1>5. CallOK(w)'
  BY <1>0, <1>3, <1>4, <1>f DEF CallOK, CallAt, Making, InWorkspace
<1>6. NoAnswer.base = NoCommit /\ NoAnswer.status = "none"
  BY DEF NoAnswer, Returned
<1>7. AnswerOK(w)'
  BY <1>3, <1>4, <1>6 DEF AnswerOK
<1>8. PICK b \in Commits : b = head
  BY <1>f
<1>9. WorkspaceOK(b)' /\ Progress(b)
  BY <1>0, <1>8, <1>f, StaysPut DEF WorkspaceOK
<1> QED BY <1>0, <1>3, <1>4, <1>5, <1>7, <1>8, <1>9, <1>f, Acts DEF Kept, Making, InWorkspace

LEMMA HeadUnreadStep ==
  ASSUME LoopInv, NEW w \in Workers, HeadUnread(w)
  PROVE  Kept
<1>f. /\ LoopTypeOK /\ crashes \in 0..MaxCrashes /\ crowd \subseteq Commits /\ head \in Commits
      /\ orphaned \subseteq Commits
      /\ call \in [Workers -> CallRecord] /\ ws \in [Commits -> Workspace] /\ WorkspaceOK(head)
  BY CallFacts, LoopTypes DEF LoopInv
<1>0. UNCHANGED <<head, ws, crashes, crowd, raced, orphaned>>
  BY DEF HeadUnread, history
<1>1. PICK a \in Dismissals : Answer(w, a)
  BY DismissalTypes DEF HeadUnread
<1>2. a \in AnswerRecord
  BY DismissalTypes
<1>3. /\ call' \in [Workers -> CallRecord] /\ \A v \in Workers : v # w => call'[v] = call[v]
      /\ call'[w].pc = "idle" /\ call'[w].base = NoCommit /\ CallOK(w)' /\ AnswerOK(w)'
  BY <1>1, <1>2, <1>f, Answered, Dismissed
<1>4. PICK b \in Commits : b = head
  BY <1>f
<1>5. WorkspaceOK(b)' /\ Progress(b)
  BY <1>0, <1>4, <1>f, StaysPut DEF WorkspaceOK
<1> QED BY <1>0, <1>3, <1>5, <1>f, Acts DEF Kept, Making, InWorkspace

LEMMA DieStep ==
  ASSUME LoopInv, NEW w \in Workers, Die(w)
  PROVE  Kept
<1>0. ~CallAt(w, "idle") /\ UNCHANGED <<head, crowd, raced>>
  BY DEF Die
<1>1. PICK b \in Commits : b = call[w].base
  BY <1>0, CallFacts
<1>f. /\ LoopTypeOK /\ Here(w) = ws[b] /\ ws[b] \in Workspace
      /\ crashes \in 0..MaxCrashes /\ CallOK(w) /\ orphaned \subseteq Commits
  BY <1>0, <1>1, CallFacts
<1>c. crashes' \in 0..MaxCrashes /\ orphaned' \subseteq Commits
  BY <1>1, <1>f DEF Die, TokenOf
<1>2. Answer(w, NoAnswer) /\ NoAnswer \in Dismissals /\ NoAnswer \in AnswerRecord
  BY DismissalTypes DEF Die
<1>3. /\ call' \in [Workers -> CallRecord] /\ \A v \in Workers : v # w => call'[v] = call[v]
      /\ call'[w].base = NoCommit /\ CallOK(w)' /\ AnswerOK(w)'
  BY <1>2, <1>f, Answered, Dismissed
<1>4. CASE UNCHANGED ws
  BY <1>0, <1>2, <1>3, <1>4, <1>c, Ends
<1>5. CASE CallAt(w, "running") /\ Write(w, [Here(w) EXCEPT !.loop = "torn"])
  <2> DEFINE W == [Here(w) EXCEPT !.loop = "torn"]
  <2>1. Write(w, W) /\ call[w].pc \in InWorkspace
    BY <1>5 DEF CallAt, InWorkspace
  <2>2. /\ W \in Workspace /\ W.loop = "torn" /\ W.iteration = ws[b].iteration
        /\ W.dir = ws[b].dir /\ W.at = ws[b].at /\ W.identity = ws[b].identity
    BY <1>f DEF Workspace, LoopStates
  <2> HIDE DEF W
  <2>3. b \notin crowd => ws[b].loop \notin Finished
    BY <1>1, <1>5, <1>f, <2>1 DEF CallOK, Knows, Finished
  <2>4. ws[b].iteration \in Nat
    BY <1>f DEF Workspace
  <2> QED BY <1>0, <1>1, <1>3, <1>c, <2>1, <2>2, <2>3, <2>4, RunnerWrites
<1> QED BY <1>4, <1>5 DEF Die

LEMMA SourceStep ==
  ASSUME LoopInv, SourceMoves
  PROVE  Kept
<1>f. /\ LoopTypeOK /\ head \in Commits /\ call \in [Workers -> CallRecord]
      /\ \A w \in Workers : CallOK(w) /\ AnswerOK(w)
  BY LoopTypes DEF LoopInv
<1>0. /\ UNCHANGED <<ws, call, crashes, crowd, orphaned>> /\ head' = head + 1 /\ head < MaxMoves
      /\ raced \subseteq raced'
      /\ \A w \in Workers : call[w].pc \in {"prepare", "clone", "cloning"} => call[w].base \in raced'
  BY DEF SourceMoves, TokenOf
<1>1. \A w \in Workers : call[w].pc \in {"prepare", "clone", "cloning"} => call[w].base \in Commits
  BY <1>f DEF CallOK, CallAt
<1>2. raced' \subseteq Commits
  BY <1>1, <1>f, LoopTypes DEF SourceMoves, TokenOf
<1>3. LoopTypeOK'
  BY <1>0, <1>2, <1>f DEF LoopTypeOK
<1>4. \A b \in Commits : WorkspaceOK(b)' /\ Progress(b)
  BY <1>0, <1>f, StaysPut DEF LoopInv, WorkspaceOK
<1>5. ASSUME NEW w \in Workers PROVE CallOK(w)' /\ AnswerOK(w)'
  BY <1>0, <1>f DEF CallOK, Knows, CallAt, AnswerOK
<1>6. \A v, w \in Workers : Apart(v, w)'
  BY <1>0 DEF LoopInv, Apart
<1> QED BY <1>3, <1>4, <1>5, <1>6 DEF LoopInv, Kept

LEMMA LoopStep ==
  ASSUME LoopInv, LoopNext
  PROVE  Kept
<1>1. ASSUME NEW w \in Workers, CallStep(w) PROVE Kept
  BY <1>1, PrepareSteps, CloneBeginStep, CloneEndStep, WriteIdentityStep, LoadStep, StartStep,
     IterateStep, EndStep, ReportStep DEF CallStep
<1>2. ASSUME NEW w \in Workers, Call(w) \/ Failure(w) \/ Die(w) PROVE Kept
  BY <1>2, CallStarts, HeadUnreadStep, FailsStep, DieStep DEF Failure
<1> QED BY <1>1, <1>2, SourceStep DEF LoopNext

LEMMA LoopInitially == LoopInit => LoopInv
<1> SUFFICES ASSUME LoopInit PROVE LoopInv
  OBVIOUS
<1>1. /\ head = 0 /\ crashes = 0 /\ crowd = {} /\ raced = {} /\ orphaned = {}
      /\ ws = [b \in Commits |-> NoWorkspace] /\ call = [w \in Workers |-> IdleCall]
  BY DEF LoopInit
<1>2. LoopTypeOK
  BY <1>1, NoWorkspaceType, IdleCallType, LoopTypes
<1>3. \A b \in Commits : WorkspaceOK(b)
  BY <1>1 DEF WorkspaceOK, NoWorkspace
<1>4. /\ IdleCall.pc = "idle" /\ IdleCall.answer.status = "none"
      /\ IdleCall.answer.base = NoCommit
  BY DEF IdleCall, NoAnswer, Returned
<1>5. \A w \in Workers : CallOK(w) /\ AnswerOK(w)
  BY <1>1, <1>4 DEF CallOK, CallAt, Making, InWorkspace, AnswerOK
<1>6. \A v, w \in Workers : Apart(v, w)
  BY <1>1, <1>4 DEF Apart, Making, InWorkspace
<1> QED BY <1>2, <1>3, <1>5, <1>6 DEF LoopInv

LEMMA LoopStutter ==
  ASSUME LoopInv, UNCHANGED loopVars
  PROVE  LoopInv'
<1>1. UNCHANGED <<head, ws, call, crashes, crowd, raced, orphaned>>
  BY DEF loopVars, history
<1>2. LoopTypeOK'
  BY <1>1 DEF LoopInv, LoopTypeOK
<1> QED BY <1>1, <1>2 DEF LoopInv, WorkspaceOK, CallOK, CallAt, Knows, AnswerOK, Apart

LEMMA LoopAlways == LoopSpec => []LoopInv
<1>1. LoopInv /\ [LoopNext]_loopVars => LoopInv'
  BY LoopStep, LoopStutter DEF Kept
<1> QED BY <1>1, LoopInitially, PTL DEF LoopSpec

-----------------------------------------------------------------------------
(* Theorems *)

\* The types of the workspaces and calls, for any number of processes and commits.
THEOREM LoopTypeCorrect == LoopSpec => []LoopTypeOK
BY LoopAlways, PTL DEF LoopInv

\* A call answers "ok" only for a loop that passed and stays so, unless calls overlap in
\* its workspace.
THEOREM OkIsEarned == LoopSpec => []OkEarned
<1>1. LoopInv => OkEarned
  BY DEF LoopInv, AnswerOK, OkEarned
<1> QED BY <1>1, LoopAlways, PTL

\* The evidence of a loop is compared with the commit it started from, unless the source
\* moved while the workspace was prepared.
THEOREM EvidenceIsOwn == LoopSpec => []EvidenceOwn
<1>1. LoopInv => EvidenceOwn
  BY DEF LoopInv, AnswerOK, EvidenceOwn
<1> QED BY <1>1, LoopAlways, PTL

\* No retry or death sets the iterations of a workspace back while calls do not overlap
\* in it.
THEOREM LoopBounded == LoopSpec => BoundedLoop
<1>1. LoopInv /\ [LoopNext]_loopVars =>
        [\A b \in Commits \ crowd' : ws'[b].iteration >= ws[b].iteration]_loopVars
  BY LoopStep DEF Kept, Progress
<1> QED BY <1>1, LoopAlways, PTL DEF LoopSpec, BoundedLoop

\* A loop that finished is final in its workspace while calls do not overlap there.
THEOREM FinishedForGood == LoopSpec => FinishedIsFinal
<1>1. LoopInv /\ [LoopNext]_loopVars =>
        [\A b \in Commits : b \notin crowd' /\ ws[b].loop \in Finished =>
           ws'[b].loop = ws[b].loop]_loopVars
  BY LoopStep DEF Kept, Progress
<1> QED BY <1>1, LoopAlways, PTL DEF LoopSpec, FinishedIsFinal

-----------------------------------------------------------------------------
(* Refused workspaces *)

\* A workspace without its identity is being made, or its maker is gone.
Unfinished(b) == ws[b].dir /\ ws[b].identity = NoCommit
Made ==
  \A b \in Commits : Unfinished(b) =>
    b \in orphaned \/ \E v \in Workers : call[v].pc \in Making /\ call[v].base = b

\* A step of w in the workspace of b.
LEMMA MakersKept ==
  ASSUME Made, NEW w \in Workers, NEW b \in Commits,
         \A v \in Workers : v # w => call'[v] = call[v],
         \A c \in Commits : c # b => ws'[c] = ws[c],
         orphaned \subseteq orphaned', call[w].pc \in Making => call[w].base = b,
         Unfinished(b)' =>
           \/ b \in orphaned'
           \/ (call'[w].pc \in Making /\ call'[w].base = b)
           \/ (Unfinished(b) /\ call[w].pc \notin Making)
  PROVE  Made'
<1> SUFFICES ASSUME NEW c \in Commits, Unfinished(c)'
             PROVE  c \in orphaned' \/ \E v \in Workers : call'[v].pc \in Making /\ call'[v].base = c
  BY DEF Made
<1>1. CASE c # b
  <2>1. Unfinished(c)
    BY <1>1 DEF Unfinished
  <2> QED BY <1>1, <2>1 DEF Made
<1>2. CASE c = b
  BY <1>2 DEF Made
<1> QED BY <1>1, <1>2

LEMMA MadeNext ==
  ASSUME LoopInv, Made, LoopNext
  PROVE  Made'
<1>f. /\ call \in [Workers -> CallRecord] /\ ws \in [Commits -> Workspace]
      /\ head \in Commits /\ LoopTypeOK
      /\ \A w \in Workers : ~CallAt(w, "idle") => call[w].base \in Commits /\ Here(w) = ws[call[w].base]
  BY CallFacts, LoopTypes DEF LoopInv
\* The workspaces stay, and a call that was making none goes on or answers.
<1>1. ASSUME NEW w \in Workers, ws' = ws, orphaned' = orphaned, call[w].pc \notin Making,
             \A v \in Workers : v # w => call'[v] = call[v]
      PROVE  Made'
  BY <1>1, <1>f, MakersKept DEF Unfinished
<1>2. ASSUME NEW w \in Workers, NEW W, Write(w, W), orphaned' = orphaned,
             call[w].pc \in InWorkspace, W.dir = Here(w).dir, W.identity = Here(w).identity,
             \A v \in Workers : v # w => call'[v] = call[v]
      PROVE  Made'
  <2>1. PICK b \in Commits : b = call[w].base /\ Here(w) = ws[b]
    BY <1>2, <1>f DEF CallAt, InWorkspace
  <2>2. ws' = [ws EXCEPT ![b] = W]
    BY <1>2, <2>1 DEF Write, TokenOf
  <2>3. call[w].pc \notin Making
    BY <1>2 DEF InWorkspace, Making
  <2>4. Unfinished(b)' => Unfinished(b)
    BY <1>2, <1>f, <2>1, <2>2 DEF Unfinished
  <2> QED BY <1>2, <1>f, <2>1, <2>2, <2>3, <2>4, MakersKept
<1>3. ASSUME NEW w \in Workers, call[w].pc \in Making, ws' = ws,
             orphaned' = orphaned \cup {TokenOf(call[w].base)},
             \A v \in Workers : v # w => call'[v] = call[v]
      PROVE  Made'
  <2>1. PICK b \in Commits : b = call[w].base
    BY <1>3, <1>f DEF CallAt, Making
  <2>2. orphaned \subseteq orphaned' /\ b \in orphaned'
    BY <1>3, <2>1 DEF TokenOf
  <2> SUFFICES ASSUME NEW c \in Commits, Unfinished(c)'
               PROVE  c \in orphaned' \/ \E v \in Workers : call'[v].pc \in Making /\ call'[v].base = c
    BY DEF Made
  <2>3. CASE c # b
    <3>1. Unfinished(c)
      BY <1>3 DEF Unfinished
    <3> QED BY <1>3, <2>1, <2>2, <2>3, <3>1 DEF Made
  <2> QED BY <2>2, <2>3
<1>4. ASSUME NEW w \in Workers, NEW a, Answer(w, a)
      PROVE  \A v \in Workers : v # w => call'[v] = call[v]
  BY <1>4, <1>f DEF Answer
<1>5. ASSUME NEW w \in Workers, NEW pc, Go(w, pc)
      PROVE  /\ \A v \in Workers : v # w => call'[v] = call[v]
             /\ call'[w].pc = pc /\ call'[w].base = call[w].base
  BY <1>5, <1>f DEF Go, CallRecord
<1>6. ASSUME NEW w \in Workers, Recognize(w) \/ Refuse(w) \/ NotThere(w) \/ Call(w) \/ HeadUnread(w)
      PROVE  Made'
  <2>1. ws' = ws /\ orphaned' = orphaned /\ call[w].pc \notin Making
    BY <1>6 DEF Recognize, Refuse, NotThere, Call, HeadUnread, history, CallAt, Making
  <2>2. \A v \in Workers : v # w => call'[v] = call[v]
    <3>1. CASE Call(w)
      BY <3>1, <1>f DEF Call
    <3>2. CASE Recognize(w) \/ NotThere(w)
      BY <3>2, <1>5 DEF Recognize, NotThere, Enter
    <3>3. CASE Refuse(w) \/ HeadUnread(w)
      BY <3>3, <1>4 DEF Refuse, HeadUnread
    <3> QED BY <1>6, <3>1, <3>2, <3>3
  <2> QED BY <1>1, <2>1, <2>2
<1>7. ASSUME NEW w \in Workers, Load(w) \/ Report(w) \/ RunnerRaises(w) \/ EvidenceUnread(w)
      PROVE  Made'
  <2>1. ws' = ws /\ orphaned' = orphaned /\ call[w].pc \notin Making
    BY <1>7 DEF Load, LoadWith, Report, RunnerRaises, EvidenceUnread, history, CallAt, Making
  <2>2. \A v \in Workers : v # w => call'[v] = call[v]
    <3>1. CASE Load(w)
      BY <3>1, <1>4, <1>f DEF Load, LoadWith
    <3>2. CASE Report(w) \/ RunnerRaises(w) \/ EvidenceUnread(w)
      BY <3>2, <1>4 DEF Report, RunnerRaises, EvidenceUnread
    <3> QED BY <1>7, <3>1, <3>2
  <2> QED BY <1>1, <2>1, <2>2
<1>8. ASSUME NEW w \in Workers, CloneBegin(w) PROVE Made'
  <2>1. PICK b \in Commits : b = call[w].base /\ Here(w) = ws[b]
    BY <1>8, <1>f DEF CloneBegin, CallAt
  <2>2. orphaned' = orphaned /\ call[w].pc \notin Making
    BY <1>8 DEF CloneBegin, history, CallAt, Making
  <2>3. CASE Here(w).dir
    BY <1>1, <1>4, <1>8, <2>2, <2>3 DEF CloneBegin
  <2>4. CASE ~Here(w).dir
    <3>1. Go(w, "cloning") /\ Write(w, [NoWorkspace EXCEPT !.dir = TRUE])
      BY <1>8, <2>4 DEF CloneBegin
    <3>2. \A c \in Commits : c # b => ws'[c] = ws[c]
      BY <1>f, <2>1, <3>1 DEF Write, TokenOf
    <3>3. call'[w].pc \in Making /\ call'[w].base = b
      BY <1>5, <2>1, <3>1 DEF Making
    <3> QED BY <1>5, <2>1, <2>2, <3>1, <3>2, <3>3, MakersKept
  <2> QED BY <2>3, <2>4
<1>9. ASSUME NEW w \in Workers, CloneEnd(w) PROVE Made'
  <2>1. PICK b \in Commits : b = call[w].base /\ Here(w) = ws[b]
    BY <1>9, <1>f DEF CloneEnd, CallAt
  <2>2. orphaned' = orphaned
    BY <1>9 DEF CloneEnd, history
  <2>3. CASE Go(w, "identity") /\ Write(w, [Here(w) EXCEPT !.at = head])
    <3>1. \A c \in Commits : c # b => ws'[c] = ws[c]
      BY <1>f, <2>1, <2>3 DEF Write, TokenOf
    <3>2. call'[w].pc \in Making /\ call'[w].base = b
      BY <1>5, <2>1, <2>3 DEF Making
    <3> QED BY <1>5, <2>1, <2>2, <2>3, <3>1, <3>2, MakersKept
  <2>4. CASE Answer(w, Refused("failed")) /\ Write(w, NoWorkspace)
    <3>1. ws'[b] = NoWorkspace /\ \A c \in Commits : c # b => ws'[c] = ws[c]
      BY <1>f, <2>1, <2>4 DEF Write, TokenOf
    <3>2. ~Unfinished(b)'
      BY <3>1 DEF Unfinished, NoWorkspace
    <3> QED BY <1>4, <2>1, <2>2, <2>4, <3>1, <3>2, MakersKept
  <2> QED BY <1>9, <2>3, <2>4 DEF CloneEnd
<1>10. ASSUME NEW w \in Workers, WriteIdentity(w) PROVE Made'
  <2>1. PICK b \in Commits : b = call[w].base /\ Here(w) = ws[b]
    BY <1>10, <1>f DEF WriteIdentity, CallAt
  <2>2. orphaned' = orphaned /\ \A v \in Workers : v # w => call'[v] = call[v]
    BY <1>5, <1>10 DEF WriteIdentity, Enter
  <2>3. ws' = [ws EXCEPT ![b] = [ws[b] EXCEPT !.identity = b]]
    BY <1>10, <2>1 DEF WriteIdentity, Write, TokenOf
  <2>4. ws'[b].identity = b /\ \A c \in Commits : c # b => ws'[c] = ws[c]
    BY <1>f, <2>3 DEF Workspace
  <2>5. ~Unfinished(b)'
    BY <2>4 DEF Unfinished
  <2> QED BY <2>1, <2>2, <2>4, <2>5, MakersKept
<1>11. ASSUME NEW w \in Workers, IdentityRaises(w) PROVE Made'
  BY <1>3, <1>4, <1>11 DEF IdentityRaises, CallAt, Making
<1>12. ASSUME NEW w \in Workers, Start(w) PROVE Made'
  <2> DEFINE W == [Here(w) EXCEPT !.loop = "RUNNING",
                                  !.iteration = IF call[w].resume THEN Here(w).iteration ELSE 0]
  <2>1. /\ Write(w, W) /\ orphaned' = orphaned /\ call[w].pc \in InWorkspace
        /\ \A v \in Workers : v # w => call'[v] = call[v]
    BY <1>12, <1>f DEF Start, history, CallAt, InWorkspace
  <2>2. W.dir = Here(w).dir /\ W.identity = Here(w).identity
    BY <2>1, <1>f DEF Workspace, CallAt, InWorkspace
  <2> HIDE DEF W
  <2> QED BY <1>2, <2>1, <2>2
<1>13. ASSUME NEW w \in Workers, Iterate(w) PROVE Made'
  <2> DEFINE W == [Here(w) EXCEPT !.iteration = call[w].iteration + 1, !.loop = "RUNNING"]
  <2>1. /\ Write(w, W) /\ orphaned' = orphaned /\ call[w].pc \in InWorkspace
        /\ \A v \in Workers : v # w => call'[v] = call[v]
    BY <1>13, <1>f DEF Iterate, history, CallAt, InWorkspace
  <2>2. W.dir = Here(w).dir /\ W.identity = Here(w).identity
    BY <2>1, <1>f DEF Workspace, CallAt, InWorkspace
  <2> HIDE DEF W
  <2> QED BY <1>2, <2>1, <2>2
<1>14. ASSUME NEW w \in Workers, NEW status \in Finished \cup {"STOPPED"}, End(w, status)
       PROVE  Made'
  <2> DEFINE W == [Here(w) EXCEPT !.loop = status]
  <2>1. /\ Write(w, W) /\ orphaned' = orphaned /\ call[w].pc \in InWorkspace
    BY <1>14 DEF End, history, CallAt, InWorkspace
  <2>2. W.dir = Here(w).dir /\ W.identity = Here(w).identity
    BY <2>1, <1>f DEF Workspace, CallAt, InWorkspace
  <2>3. \A v \in Workers : v # w => call'[v] = call[v]
    BY <1>4, <1>14, <1>f DEF End
  <2> HIDE DEF W
  <2> QED BY <1>2, <2>1, <2>2, <2>3
<1>15. ASSUME NEW w \in Workers, Die(w) PROVE Made'
  <2>0. \A v \in Workers : v # w => call'[v] = call[v]
    BY <1>4, <1>15 DEF Die
  <2>1. CASE call[w].pc \in Making
    <3>1. ws' = ws /\ orphaned' = orphaned \cup {TokenOf(call[w].base)}
      BY <1>15, <2>1 DEF Die, CallAt, Making
    <3> QED BY <1>3, <2>0, <2>1, <3>1
  <2>2. CASE call[w].pc \notin Making /\ ws' = ws
    BY <1>1, <1>15, <2>0, <2>2 DEF Die
  <2>3. CASE call[w].pc \notin Making /\ CallAt(w, "running")
             /\ Write(w, [Here(w) EXCEPT !.loop = "torn"])
    <3> DEFINE W == [Here(w) EXCEPT !.loop = "torn"]
    <3>1. call[w].pc \in InWorkspace /\ orphaned' = orphaned
      BY <1>15, <2>3 DEF Die, CallAt, InWorkspace
    <3>2. W.dir = Here(w).dir /\ W.identity = Here(w).identity
      BY <3>1, <1>f DEF Workspace, CallAt, InWorkspace
    <3>3. Write(w, W)
      BY <2>3
    <3> HIDE DEF W
    <3> QED BY <1>2, <2>0, <3>1, <3>2, <3>3
  <2> QED BY <1>15, <2>1, <2>2, <2>3 DEF Die
<1>16. CASE SourceMoves
  BY <1>16 DEF SourceMoves, Made, Unfinished
<1>17. ASSUME NEW w \in Workers, CallStep(w) PROVE Made'
  BY <1>6, <1>7, <1>8, <1>9, <1>10, <1>12, <1>13, <1>14, <1>17 DEF CallStep
<1>18. ASSUME NEW w \in Workers, Failure(w) PROVE Made'
  BY <1>6, <1>7, <1>11, <1>18 DEF Failure
<1> QED BY <1>6, <1>15, <1>16, <1>17, <1>18 DEF LoopNext

LEMMA MadeAlways == LoopSpec => [](LoopInv /\ Made)
<1>1. LoopInit => Made
  <2> SUFFICES ASSUME LoopInit PROVE Made
    OBVIOUS
  <2>1. \A b \in Commits : ~Unfinished(b)
    BY DEF LoopInit, Unfinished, NoWorkspace
  <2> QED BY <2>1 DEF Made
<1>2. Made /\ UNCHANGED loopVars => Made'
  BY DEF loopVars, history, Made, Unfinished
<1>3. LoopInv /\ Made /\ [LoopNext]_loopVars => Made'
  BY <1>2, MadeNext
<1> QED BY <1>1, <1>3, LoopAlways, PTL DEF LoopSpec

\* What an answer says when it does not refuse a workspace.
LEMMA OtherAnswers ==
  /\ NoAnswer.why = "none" /\ Raised.why = "none" /\ Refused("failed").why = "failed"
  /\ \A status, loop, at, base : Returned(status, loop, at, base).why = "none"
BY DEF NoAnswer, Raised, Refused, Returned

LEMMA RefusalCause ==
  ASSUME LoopInv, Made, LoopNext, NEW w \in Workers, call'[w].answer # call[w].answer
  PROVE  /\ call'[w].answer.why # "mismatch"
         /\ call'[w].answer.why = "unrecognized" =>
              \/ TokenOf(call[w].base) \in orphaned
              \/ \E v \in Workers \ {w} : /\ call[v].pc \in Making
                                          /\ TokenOf(call[v].base) = TokenOf(call[w].base)
<1> DEFINE Other == call'[w].answer.why \in {"none", "failed"}
<1>f. /\ call \in [Workers -> CallRecord]
      /\ ~CallAt(w, "idle") => /\ call[w].base \in Commits /\ WorkspaceOK(call[w].base)
                               /\ Here(w) = ws[call[w].base]
  BY CallFacts, LoopTypes
<1>a. ASSUME NEW v \in Workers, NEW a, Answer(v, a)
      PROVE  call'[w].answer = IF v = w THEN a ELSE call[w].answer
  BY <1>a, <1>f DEF Answer, IdleCall
<1>g. ASSUME NEW v \in Workers, NEW pc, Go(v, pc)
      PROVE  call'[w].answer = call[w].answer
  BY <1>g, <1>f DEF Go, CallRecord
<1>1. ASSUME NEW v \in Workers, Recognize(v) \/ NotThere(v) \/ WriteIdentity(v) PROVE FALSE
  BY <1>1, <1>g DEF Recognize, Enter, NotThere, WriteIdentity
<1>2. ASSUME NEW v \in Workers, Start(v) \/ Iterate(v) PROVE FALSE
  BY <1>2, <1>f DEF Start, Iterate, CallRecord
<1>3. ASSUME NEW v \in Workers, Call(v) PROVE Other
  BY <1>3, <1>f, OtherAnswers DEF Call, IdleCall
<1>4. ASSUME NEW v \in Workers, CloneBegin(v) \/ CloneEnd(v) PROVE Other
  BY <1>4, <1>a, <1>g, OtherAnswers DEF CloneBegin, CloneEnd
<1>5. ASSUME NEW v \in Workers, Load(v) PROVE Other
  <2>1. CASE Answer(v, Refused("failed"))
    BY <2>1, <1>a, OtherAnswers
  <2>2. CASE ~Answer(v, Refused("failed"))
    BY <1>5, <1>f, <2>2 DEF Load, LoadWith, CallRecord
  <2> QED BY <2>1, <2>2
<1>6. ASSUME NEW v \in Workers, NEW status \in Finished \cup {"STOPPED"}, End(v, status) PROVE Other
  <2>1. CASE Answer(v, Refused("failed"))
    BY <2>1, <1>a, OtherAnswers
  <2>2. CASE ~Answer(v, Refused("failed"))
    BY <1>6, <1>f, <2>2 DEF End, CallRecord
  <2> QED BY <2>1, <2>2
<1>7. ASSUME NEW v \in Workers, Report(v) \/ Failure(v) \/ Die(v) PROVE Other
  BY <1>7, <1>a, OtherAnswers
     DEF Report, Failure, HeadUnread, IdentityRaises, RunnerRaises, EvidenceUnread, Die
<1>8. ASSUME NEW v \in Workers, v # w, Refuse(v) PROVE FALSE
  BY <1>8, <1>a DEF Refuse
<1>9. ASSUME Refuse(w)
      PROVE  /\ call'[w].answer.why = "unrecognized"
             /\ \/ call[w].base \in orphaned
                \/ \E v \in Workers \ {w} : call[v].pc \in Making /\ call[v].base = call[w].base
  <2>1. /\ ~CallAt(w, "idle") /\ call[w].pc = "prepare"
        /\ Here(w).dir /\ Here(w).identity # call[w].base
    BY <1>9 DEF Refuse, CallAt
  <2>2. Here(w).identity = NoCommit /\ Unfinished(call[w].base)
    BY <1>f, <2>1 DEF WorkspaceOK, Unfinished
  <2>3. call'[w].answer = Refused("unrecognized")
    BY <1>9, <1>a, <2>2 DEF Refuse
  <2>4. call[w].pc \notin Making
    BY <2>1 DEF Making
  <2>5. call'[w].answer.why = "unrecognized"
    BY <2>3 DEF Refused
  <2> QED BY <1>f, <2>1, <2>2, <2>4, <2>5 DEF Made
<1>10. ASSUME SourceMoves PROVE FALSE
  BY <1>10 DEF SourceMoves
<1>11. Other \/ Refuse(w)
  <2> HIDE DEF Other
  <2>1. ~SourceMoves
    BY <1>10
  <2>2. PICK v \in Workers : Call(v) \/ CallStep(v) \/ Failure(v) \/ Die(v)
    BY <2>1 DEF LoopNext
  <2>3. CASE CallStep(v)
    <3>1. CASE \E status \in Finished \cup {"STOPPED"} : End(v, status)
      BY <1>6, <3>1
    <3>2. CASE Refuse(v)
      BY <1>8, <3>2
    <3> QED BY <1>1, <1>2, <1>4, <1>5, <1>7, <2>3, <3>1, <3>2 DEF CallStep
  <2> QED BY <1>3, <1>7, <2>2, <2>3
<1> QED BY <1>9, <1>11 DEF TokenOf

\* For any number of processes, whatever fails: an existing workspace is refused only
\* while another call is making it or when its maker died or failed, and never because
\* it is somebody else's.
THEOREM RefusedOnlyForCause == LoopSpec => RefusedForCause
<1>1. LoopInv /\ Made /\ [LoopNext]_loopVars =>
        [\A w \in Workers : call'[w].answer # call[w].answer =>
           /\ call'[w].answer.why # "mismatch"
           /\ call'[w].answer.why = "unrecognized" =>
                \/ TokenOf(call[w].base) \in orphaned
                \/ \E v \in Workers \ {w} :
                     /\ call[v].pc \in Making
                     /\ TokenOf(call[v].base) = TokenOf(call[w].base)]_loopVars
  BY RefusalCause
<1> QED BY <1>1, MadeAlways, PTL DEF LoopSpec, RefusedForCause
=============================================================================
