------------------------------ MODULE Gateway ------------------------------
(***************************************************************************)
(* The action gateway: gateway/gate.py with the approval store it is given *)
(* (gateway/approvals.py in memory, gateway/stores_pg.py on Postgres) and  *)
(* the tiers of gateway/policy.py.                                         *)
(*                                                                         *)
(* A session is a thread that is serving one call of decide or             *)
(* submit_approval; a call that returns leaves it idle, and only Mint      *)
(* returns "authorized".  The gateway holds no lock over a call, so a call *)
(* is cut into one action per access to state another session can change:  *)
(* the approval table, the call counters, the ledger.  An intent stands    *)
(* for its digest; a challenge stands for the 32 random bytes of one       *)
(* approval round and so names the round.                                  *)
(***************************************************************************)
EXTENDS Integers, FiniteSets

CONSTANTS
  Actions,      \* ids of the compiled action policies
  Policy,       \* action id -> [tool, risk, quorum, eligible]
  Bounds,       \* action id -> [max_amount, max_calls], None where unset
  Intents,      \* records [action_id, tool, amount, args]
  Principals,   \* who owns an enrolled credential
  Sessions,     \* threads that serve calls
  Replicas,     \* server processes
  Home,         \* session -> the replica it runs in
  Durable,      \* TRUE: PgApprovalStore, FALSE: ApprovalStore
  Challenges,   \* every challenge a run can draw (bounds the rounds)
  MaxAutos,     \* bound: automatic A1 authorizations per action
  MaxExpired,   \* bound: rounds that run out
  MayCrash,     \* whether replicas crash
  NoRound,      \* no approval round
  NoOne         \* signer of an assertion that no credential verifies

None == -1
Risks == {"observe", "bounded_internal", "external_reversible",
          "consequential", "prohibited"}

ASSUME GatewayAssumption ==
  /\ Policy \in [Actions -> [tool : STRING, risk : Risks, quorum : Nat,
                             eligible : SUBSET Principals]]
  /\ Bounds \in [Actions -> [max_amount : Nat \cup {None},
                             max_calls : Nat \cup {None}]]
  /\ Home \in [Sessions -> Replicas]
  /\ Durable \in BOOLEAN /\ MayCrash \in BOOLEAN
  /\ MaxAutos \in Nat /\ MaxExpired \in Nat
  /\ NoRound \notin Challenges \cup Intents
  /\ NoOne \notin Principals /\ IsFiniteSet(Principals)

VARIABLES
  rounds,    \* challenge -> the PendingApproval that drew it
  table,     \* store -> intent -> challenge of its current round, or NoRound
  calls,     \* replica -> action -> Gateway._calls
  sess,      \* session -> the call it serves
  verified,  \* approved approval_resolved events, as <<principal, challenge>>
  grants,    \* what capabilities were minted on: intent, round, approvers
  mints,     \* challenge -> capabilities minted on that round's quorum
  autos      \* action -> automatic A1 authorizations in the ledger

gwVars == <<rounds, table, calls, sess, verified, grants, mints, autos>>

-----------------------------------------------------------------------------
(* Policy *)

classify(risk) ==
  CASE risk = "observe"             -> "A0"
    [] risk = "bounded_internal"    -> "A1"
    [] risk = "external_reversible" -> "A2"
    [] risk = "consequential"       -> "A3"
    [] risk = "prohibited"          -> "A4"

ApprovalTiers == {"A2", "A3"}

Known(i) == i.action_id \in Actions
TierOf(i) == classify(Policy[i.action_id].risk)
QuorumOf(i) == Policy[i.action_id].quorum
EligibleOf(i) == Policy[i.action_id].eligible

\* The checks decide makes before any tier handler runs.
Denied(i) ==
  Known(i) => Policy[i.action_id].tool # i.tool \/ TierOf(i) = "A4"

\* Variants such as this one, each ahead of the definition it varies, are what the
\* properties are tried against; no action uses them.
withinOneMore(b, amount, calls_so_far) ==
  /\ b.max_amount # None /\ amount # None => amount <= b.max_amount
  /\ b.max_calls # None => calls_so_far <= b.max_calls

within(b, amount, calls_so_far) ==
  /\ b.max_amount # None /\ amount # None => amount <= b.max_amount
  /\ b.max_calls # None => calls_so_far < b.max_calls

\* The checks _open_approval makes; an escalated A1 action opens as A2.
Openable(i) ==
  /\ TierOf(i) = "A3" => QuorumOf(i) >= 2
  /\ EligibleOf(i) # {}

-----------------------------------------------------------------------------
(* Approval rounds and the two stores *)

Unissued == [intent |-> NoRound, approvers |-> {}, used |-> FALSE, expired |-> FALSE]
Round == [intent : Intents \cup {NoRound}, approvers : SUBSET Principals,
          used : BOOLEAN, expired : BOOLEAN]

Stores == IF Durable THEN {"postgres"} ELSE Replicas
StoreOf(s) == IF Durable THEN "postgres" ELSE Home[s]
Current(s, i) == table[StoreOf(s)][i]
Live(c) == c # NoRound /\ ~rounds[c].used /\ ~rounds[c].expired

\* A variant: approvers carry over into the next round.
FreshKeepingApprovers(s, i) ==
  [Unissued EXCEPT !.intent = i, !.approvers =
     IF Current(s, i) = NoRound THEN {} ELSE rounds[Current(s, i)].approvers]

\* What open writes: a new challenge and no approvers.
Fresh(s, i) == [Unissued EXCEPT !.intent = i]

\* A variant: retire leaves the round usable.
RetiredNever(s, i) == rounds

\* retire: UPDATE .. SET used=TRUE by digest, whatever round is current.
Retired(s, i) ==
  LET c == Current(s, i)
  IN  IF c = NoRound THEN rounds ELSE [rounds EXCEPT ![c].used = TRUE]

-----------------------------------------------------------------------------
(* Sessions *)

PCs == {"idle", "count", "bump", "open", "opening", "get", "reget", "check",
        "drop", "add", "tally", "retire", "mint"}

IdleSession ==
  [pc |-> "idle", op |-> "decide", intent |-> NoRound, by |-> NoOne,
   over |-> NoRound, ref |-> NoRound, view |-> Unissued, count |-> 0]

At(s, pc) == sess[s].pc = pc
Goto(s, pc) == sess' = [sess EXCEPT ![s].pc = pc]
Return(s) == sess' = [sess EXCEPT ![s] = IdleSession]

\* What a session sees of the round it holds: the row it read (Postgres), or
\* the object it shares with the store (memory).
Seen(s) == IF Durable THEN sess[s].view ELSE rounds[sess[s].ref]

\* PgApprovalStore serializes open, add_approver and retire within a process.
StoreLockFree(s) ==
  Durable => \A t \in Sessions \ {s} : Home[t] = Home[s] => ~At(t, "opening")

GatewayInit ==
  /\ rounds = [c \in Challenges |-> Unissued]
  /\ table = [d \in Stores |-> [i \in Intents |-> NoRound]]
  /\ calls = [r \in Replicas |-> [a \in Actions |-> 0]]
  /\ sess = [s \in Sessions |-> IdleSession]
  /\ verified = {}
  /\ grants = {}
  /\ mints = [c \in Challenges |-> 0]
  /\ autos = [a \in Actions |-> 0]

-----------------------------------------------------------------------------
(* decide *)

Decide(s, i) ==
  /\ At(s, "idle")
  /\ \/ Denied(i) /\ Return(s)
     \/ ~Denied(i) /\ TierOf(i) = "A0" /\ Return(s)
     \/ /\ ~Denied(i) /\ TierOf(i) # "A0"
        /\ sess' = [sess EXCEPT ![s] =
                      [IdleSession EXCEPT !.intent = i,
                         !.pc = IF TierOf(i) = "A1" THEN "count" ELSE "open"]]
  /\ UNCHANGED <<rounds, table, calls, verified, grants, mints, autos>>

\* _auto, A1: read the counter; outside the envelope the call opens an approval.
CountCalls(s) ==
  /\ At(s, "count")
  /\ LET i == sess[s].intent
         n == calls[Home[s]][i.action_id]
     IN  sess' = [sess EXCEPT
           ![s].count = n,
           ![s].pc = IF within(Bounds[i.action_id], i.amount, n)
                       THEN "bump" ELSE "open"]
  /\ UNCHANGED <<rounds, table, calls, verified, grants, mints, autos>>

\* .. and write back the count it read, plus one; then mint and receipt "auto".
BumpCalls(s) ==
  LET a == sess[s].intent.action_id
  IN  /\ At(s, "bump")
      /\ autos[a] < MaxAutos
      /\ calls' = [calls EXCEPT ![Home[s]][a] = sess[s].count + 1]
      /\ autos' = [autos EXCEPT ![a] = @ + 1]
      /\ Return(s)
      /\ UNCHANGED <<rounds, table, verified, grants, mints>>

-----------------------------------------------------------------------------
(* _open_approval and ApprovalStore.open *)

\* submit_approval looks the round up again; decide reports the request.
Opened(s) ==
  IF sess[s].op = "submit" THEN Goto(s, "reget") ELSE Return(s)

\* A variant: neither dual control nor eligibility is looked at.
OpenReadUnguarded(s) ==
  /\ At(s, "open") /\ StoreLockFree(s)
  /\ IF Live(Current(s, sess[s].intent)) THEN Opened(s) ELSE Goto(s, "opening")
  /\ UNCHANGED <<rounds, table, calls, verified, grants, mints, autos>>

\* The policy checks, then a round that is still live is used again.
OpenRead(s) ==
  LET i == sess[s].intent
  IN  /\ At(s, "open")
      /\ \/ ~Openable(i) /\ Return(s)
         \/ Openable(i) /\ StoreLockFree(s) /\ Live(Current(s, i)) /\ Opened(s)
         \/ Openable(i) /\ StoreLockFree(s) /\ ~Live(Current(s, i)) /\ Goto(s, "opening")
      /\ UNCHANGED <<rounds, table, calls, verified, grants, mints, autos>>

OpenWrite(s) ==
  LET i == sess[s].intent
  IN  /\ At(s, "opening")
      /\ \E c \in Challenges :
           /\ rounds[c] = Unissued
           /\ rounds' = [rounds EXCEPT ![c] = Fresh(s, i)]
           /\ table' = [table EXCEPT ![StoreOf(s)][i] = c]
      /\ Opened(s)
      /\ UNCHANGED <<calls, verified, grants, mints, autos>>

-----------------------------------------------------------------------------
(* submit_approval *)

\* An assertion is a signature by principal p over challenge c, which must have
\* been drawn; NoOne's is one that no credential verifies.
Assertions == (Principals \X Challenges) \cup {<<NoOne, NoRound>>}

Submit(s, i, p, c) ==
  /\ At(s, "idle")
  /\ c # NoRound => rounds[c] # Unissued
  /\ IF Known(i) /\ TierOf(i) \in ApprovalTiers
       THEN sess' = [sess EXCEPT ![s] =
                       [IdleSession EXCEPT !.pc = "get", !.op = "submit",
                          !.intent = i, !.by = p, !.over = c]]
       ELSE Return(s)
  /\ UNCHANGED <<rounds, table, calls, verified, grants, mints, autos>>

\* The first lookup opens a round when there is none; the second does not.
Lookup(s) ==
  /\ At(s, "get") \/ At(s, "reget")
  /\ LET c == Current(s, sess[s].intent)
     IN  IF c = NoRound
           THEN Goto(s, IF At(s, "get") THEN "open" ELSE "check")
           ELSE sess' = [sess EXCEPT ![s].pc = "check", ![s].ref = c,
                           ![s].view = IF Durable THEN rounds[c] ELSE Unissued]
  /\ UNCHANGED <<rounds, table, calls, verified, grants, mints, autos>>

\* The verifier's answer (the variant: it accepts everything) ..
RejectedNever(s) == FALSE
Rejected(s) == sess[s].by = NoOne \/ sess[s].over # sess[s].ref

\* .. and whether the principal it names counts anew.
Counts(s) == sess[s].by \in EligibleOf(sess[s].intent) \ Seen(s).approvers

\* used, expired, the verifier's answer, eligibility, duplicates: in this order.
Check(s) ==
  LET c == sess[s].ref
      p == sess[s].by
  IN  /\ At(s, "check")
      /\ IF c = NoRound \/ Seen(s).used
           THEN Return(s) /\ UNCHANGED verified
         ELSE IF rounds[c].expired
           THEN Goto(s, "drop") /\ UNCHANGED verified
         ELSE IF Rejected(s)
           THEN Return(s) /\ UNCHANGED verified
         ELSE /\ verified' = verified \cup {<<p, c>>}
              /\ IF Counts(s)
                   THEN sess' = [sess EXCEPT ![s] =
                           [IdleSession EXCEPT !.pc = "add", !.op = "submit",
                              !.intent = sess[s].intent, !.by = p]]
                   ELSE Return(s)
      /\ UNCHANGED <<rounds, table, calls, grants, mints, autos>>

\* An expired round is retired, by digest, before the call is denied.
Drop(s) ==
  /\ At(s, "drop") /\ StoreLockFree(s)
  /\ rounds' = Retired(s, sess[s].intent)
  /\ Return(s)
  /\ UNCHANGED <<table, calls, verified, grants, mints, autos>>

\* A variant: the first approver closes the round.
AddApproverRetiring(s) ==
  LET c == Current(s, sess[s].intent)
  IN  /\ At(s, "add") /\ StoreLockFree(s)
      /\ rounds' = [rounds EXCEPT ![c].approvers = @ \cup {sess[s].by}, ![c].used = TRUE]
      /\ sess' = [sess EXCEPT ![s].pc = "tally", ![s].ref = c, ![s].by = NoOne]
      /\ UNCHANGED <<table, calls, verified, grants, mints, autos>>

\* add_approver: the principal joins the round that is current now.
AddApprover(s) ==
  LET c == Current(s, sess[s].intent)
  IN  /\ At(s, "add") /\ StoreLockFree(s)
      /\ rounds' = [rounds EXCEPT ![c].approvers = @ \cup {sess[s].by}]
      /\ sess' = [sess EXCEPT ![s].pc = "tally", ![s].ref = c, ![s].by = NoOne]
      /\ UNCHANGED <<table, calls, verified, grants, mints, autos>>

\* The quorum (the variant: one approver too few).
satisfiedEarly(c) == Cardinality(rounds[c].approvers) + 1 >= QuorumOf(rounds[c].intent)
satisfied(c) == Cardinality(rounds[c].approvers) >= QuorumOf(rounds[c].intent)

\* satisfied: Postgres reads the row again, memory looks at the object.
Tally(s) ==
  LET i == sess[s].intent
      c == IF Durable THEN Current(s, i) ELSE sess[s].ref
  IN  /\ At(s, "tally")
      /\ IF satisfied(c)
           THEN sess' = [sess EXCEPT ![s].pc = "retire", ![s].ref = c,
                                     ![s].view = rounds[c]]
           ELSE Return(s)
      /\ UNCHANGED <<rounds, table, calls, verified, grants, mints, autos>>

RetireRound(s) ==
  /\ At(s, "retire") /\ StoreLockFree(s)
  /\ rounds' = Retired(s, sess[s].intent)
  /\ Goto(s, "mint")
  /\ UNCHANGED <<table, calls, verified, grants, mints, autos>>

Mint(s) ==
  /\ At(s, "mint")
  /\ grants' = grants \cup {[intent |-> sess[s].intent, round |-> sess[s].ref,
                             approvers |-> sess[s].view.approvers]}
  /\ mints' = [mints EXCEPT ![sess[s].ref] = @ + 1]
  /\ Return(s)
  /\ UNCHANGED <<rounds, table, calls, verified, autos>>

-----------------------------------------------------------------------------
(* The environment *)

\* The time-to-live of a round runs out.
Expire(c) ==
  /\ Cardinality({d \in Challenges : rounds[d].expired}) < MaxExpired
  /\ rounds[c] # Unissued /\ ~rounds[c].expired
  /\ rounds' = [rounds EXCEPT ![c].expired = TRUE]
  /\ UNCHANGED <<table, calls, sess, verified, grants, mints, autos>>

\* A replica dies: its calls are cut off, its counters and, unless they are on
\* Postgres, its approval rounds are gone.
GatewayCrash(r) ==
  /\ MayCrash
  /\ sess' = [s \in Sessions |-> IF Home[s] = r THEN IdleSession ELSE sess[s]]
  /\ calls' = [calls EXCEPT ![r] = [a \in Actions |-> 0]]
  /\ table' = IF Durable THEN table
              ELSE [table EXCEPT ![r] = [i \in Intents |-> NoRound]]
  /\ UNCHANGED <<rounds, verified, grants, mints, autos>>

\* The steps of a call that is under way.
GatewayStep(s) ==
  \/ CountCalls(s) \/ BumpCalls(s)
  \/ OpenRead(s) \/ OpenWrite(s)
  \/ Lookup(s) \/ Check(s) \/ Drop(s) \/ AddApprover(s)
  \/ Tally(s) \/ RetireRound(s) \/ Mint(s)

GatewayNext ==
  \/ \E s \in Sessions, i \in Intents : Decide(s, i)
  \/ \E s \in Sessions, i \in Intents, a \in Assertions : Submit(s, i, a[1], a[2])
  \/ \E s \in Sessions : GatewayStep(s)
  \/ \E c \in Challenges : Expire(c)
  \/ \E r \in Replicas : GatewayCrash(r)

GatewaySpec == GatewayInit /\ [][GatewayNext]_gwVars

-----------------------------------------------------------------------------
(* Properties *)

Session ==
  [pc : PCs, op : {"decide", "submit"}, intent : Intents \cup {NoRound},
   by : Principals \cup {NoOne}, over : Challenges \cup {NoRound},
   ref : Challenges \cup {NoRound}, view : Round,
   count : Nat]

Grant == [intent : Intents, round : Challenges, approvers : SUBSET Principals]

\* The types of the gateway's state.
TypeOK ==
  /\ rounds \in [Challenges -> Round]
  /\ table \in [Stores -> [Intents -> Challenges \cup {NoRound}]]
  /\ calls \in [Replicas -> [Actions -> Nat]]
  /\ sess \in [Sessions -> Session]
  /\ verified \subseteq Principals \X Challenges
  /\ grants \subseteq Grant
  /\ mints \in [Challenges -> Nat]
  /\ autos \in [Actions -> Nat]

\* Whatever calls interleave, crash or find an expired round, a capability of an
\* approval tier rests on the policy's quorum of distinct eligible principals,
\* each of whom had an assertion verified for this very intent; two of them for
\* A3 (dual control: approvals.py, gate.py submit_approval).
GrantedByQuorum ==
  \A g \in grants :
    /\ g.approvers \subseteq EligibleOf(g.intent)
    /\ Cardinality(g.approvers) >= QuorumOf(g.intent)
    /\ TierOf(g.intent) = "A3" => Cardinality(g.approvers) >= 2
    /\ \A p \in g.approvers : \E c \in Challenges :
         <<p, c>> \in verified /\ rounds[c].intent = g.intent

\* No intent of a tier without approval (A0, A1, A4) or of an unknown action is
\* ever granted through the approval path, and no round is opened for an action
\* without eligible approvers (fail closed: gate.py 93-105, 201-206).
NoApprovalWithoutPolicy ==
  /\ \A g \in grants : Known(g.intent) /\ TierOf(g.intent) \in ApprovalTiers
  /\ \A c \in Challenges : rounds[c].intent # NoRound =>
       Known(rounds[c].intent) /\ Openable(rounds[c].intent)

\* "Quorum met - authorize exactly once": one capability per approval round
\* (gate.py 165-168).
AuthorizedOnce == \A c \in Challenges : mints[c] <= 1

\* The approvers a capability rests on all signed the challenge of its own
\* round: consent to an earlier round never carries over (approvals.py 1-8).
SignedThisRound ==
  \A g \in grants : \A p \in g.approvers : <<p, g.round>> \in verified

\* A round is closed only because it ran out or because its capability is
\* minted: nobody's open approval is thrown away (gate.py 133-135, 165-167).
RetiredForCause ==
  \A c \in Challenges : rounds[c].used =>
    \/ rounds[c].expired \/ mints[c] > 0
    \/ \E s \in Sessions : At(s, "mint") /\ sess[s].ref = c

\* A round that an approver can still join has authorized nothing, however calls
\* of replicas overlap and crash, although retire closes whatever round the digest
\* names by then: only calls under way when a round authorized can authorize on it
\* again (gate.py 130-137, 158-168, stores_pg.py open and retire).
SpentIsClosed ==
  \A d \in Stores, i \in Intents : Live(table[d][i]) => mints[table[d][i]] = 0

\* The ledger never shows more automatic authorizations of a bounded A1 action
\* than its max_calls (policy.py Bounds, gate.py _auto).
BoundedAuto ==
  \A a \in Actions : Bounds[a].max_calls # None => autos[a] <= Bounds[a].max_calls
=============================================================================
