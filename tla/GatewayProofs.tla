--------------------------- MODULE GatewayProofs ---------------------------
(***************************************************************************)
(* Proofs about Gateway, for any number of sessions, replicas, intents,    *)
(* policies and rounds, either approval store, with or without crashes.    *)
(*                                                                         *)
(* GrantedByQuorum is not inductive: it speaks of grants only, and a grant *)
(* is built from what a session carried through half a dozen steps during  *)
(* which others change the table and the rounds.  The strengthening says   *)
(* what each round holds (RoundsOK), what the table points at (TableOK)    *)
(* and what each session may rely on at each program point (SessionOK).    *)
(***************************************************************************)
EXTENDS Gateway, FiniteSetTheorems, TLAPS

VerifiedFor(p, i) ==
  \E c \in Challenges : <<p, c>> \in verified /\ rounds[c].intent = i

Backed(A, i) == A \subseteq EligibleOf(i) /\ \A p \in A : VerifiedFor(p, i)

\* A drawn round belongs to an openable intent and holds only verified,
\* eligible approvers of it.
RoundsOK ==
  \A c \in Challenges : rounds[c].intent # NoRound =>
    /\ Known(rounds[c].intent) /\ Openable(rounds[c].intent)
    /\ Backed(rounds[c].approvers, rounds[c].intent)

UnissuedOK ==
  \A c \in Challenges : rounds[c].intent = NoRound => rounds[c] = Unissued

TableOK ==
  \A d \in Stores, i \in Intents :
    table[d][i] # NoRound => rounds[table[d][i]].intent = i

EarlyPCs == {"count", "open", "opening", "get", "reget"}
SubmitPCs == {"get", "reget", "check", "drop", "add", "tally", "retire", "mint"}

\* What a session relies on, by program point.
SessionOK(s) ==
  LET i == sess[s].intent
      c == sess[s].ref
  IN  /\ ~At(s, "idle") => i \in Intents /\ Known(i)
      /\ sess[s].pc \in SubmitPCs => sess[s].op = "submit"
      /\ sess[s].pc # "idle" /\ sess[s].op = "submit" => TierOf(i) \in ApprovalTiers
      /\ At(s, "opening") => Openable(i)
      /\ sess[s].pc \in EarlyPCs => c = NoRound
      /\ At(s, "check") /\ c # NoRound => rounds[c].intent = i /\ Current(s, i) # NoRound
      /\ At(s, "add") => /\ sess[s].by \in EligibleOf(i)
                         /\ VerifiedFor(sess[s].by, i)
                         /\ Current(s, i) # NoRound
      /\ At(s, "tally") => Current(s, i) # NoRound
      /\ sess[s].pc \in {"tally", "retire", "mint"} =>
           c # NoRound /\ rounds[c].intent = i
      /\ sess[s].pc \in {"retire", "mint"} =>
           /\ Backed(sess[s].view.approvers, i)
           /\ Cardinality(sess[s].view.approvers) >= QuorumOf(i)

IInv ==
  /\ TypeOK
  /\ UnissuedOK
  /\ RoundsOK
  /\ TableOK
  /\ \A s \in Sessions : SessionOK(s)
  /\ GrantedByQuorum
  /\ NoApprovalWithoutPolicy

-----------------------------------------------------------------------------

LEMMA StoreOfType ==
  ASSUME NEW s \in Sessions
  PROVE  StoreOf(s) \in Stores /\ Home[s] \in Replicas
BY GatewayAssumption DEF StoreOf, Stores, GatewayAssumption

LEMMA PolicyType ==
  ASSUME NEW i, Known(i)
  PROVE  /\ QuorumOf(i) \in Nat
         /\ EligibleOf(i) \in SUBSET Principals
BY GatewayAssumption DEF Known, QuorumOf, EligibleOf, GatewayAssumption

LEMMA InitIInv == GatewayInit => IInv
<1> SUFFICES ASSUME GatewayInit PROVE IInv
  OBVIOUS
<1>1. TypeOK
  BY GatewayAssumption DEF GatewayInit, TypeOK, GatewayAssumption, Round, Unissued,
     IdleSession, Session, PCs
<1>2. UnissuedOK /\ RoundsOK /\ TableOK /\ GrantedByQuorum /\ NoApprovalWithoutPolicy
  BY DEF GatewayInit, UnissuedOK, RoundsOK, TableOK, GrantedByQuorum,
     NoApprovalWithoutPolicy, Unissued
<1>3. \A s \in Sessions : SessionOK(s)
  BY DEF GatewayInit, SessionOK, IdleSession, At, SubmitPCs, EarlyPCs
<1> QED
  BY <1>1, <1>2, <1>3 DEF IInv

-----------------------------------------------------------------------------
(* Steps.  Kept says what no call ever takes back. *)

Kept ==
  /\ \A c \in Challenges :
       rounds[c].intent # NoRound => rounds'[c].intent = rounds[c].intent
  /\ verified \subseteq verified'
  /\ \A d \in Stores, i \in Intents : table[d][i] # NoRound => table'[d][i] # NoRound

\* Only session s moves.
Alone(s) == sess' = [sess EXCEPT ![s] = sess'[s]]

LEMMA OthersKept ==
  ASSUME TypeOK, Kept, NEW t \in Sessions, SessionOK(t), sess'[t] = sess[t]
  PROVE  SessionOK(t)'
<1> USE StoreOfType
<1>1. CASE sess[t].pc = "idle"
  BY <1>1 DEF SessionOK, At, SubmitPCs, EarlyPCs
<1>2. CASE sess[t].pc # "idle"
  <2> DEFINE i == sess[t].intent
             c == sess[t].ref
  <2>0. i \in Intents /\ Known(i)
    BY <1>2 DEF SessionOK, At
  <2>1. sess[t].pc = "add" => VerifiedFor(sess[t].by, i)'
    BY <2>0, GatewayAssumption DEF SessionOK, At, VerifiedFor, Kept, GatewayAssumption
  <2>2. sess[t].pc \in {"retire", "mint"} => Backed(sess[t].view.approvers, i)'
    BY <2>0, GatewayAssumption
    DEF SessionOK, Backed, VerifiedFor, Kept, EligibleOf, GatewayAssumption
  <2>3. Current(t, i) # NoRound => Current(t, i)' # NoRound
    BY <2>0 DEF Current, Kept, StoreOf
  <2>4. c # NoRound => c \in Challenges
    BY DEF TypeOK, Session
  <2>5. c # NoRound /\ rounds[c].intent = i => rounds'[c].intent = i
    BY <2>0, <2>4, GatewayAssumption DEF Kept, GatewayAssumption
  <2> QED
    BY <1>2, <2>0, <2>1, <2>2, <2>3, <2>4, <2>5
    DEF SessionOK, At, Backed, VerifiedFor, EligibleOf, QuorumOf, TierOf, Known, Openable
<1> QED
  BY <1>1, <1>2

LEMMA GrantsKept ==
  ASSUME TypeOK, Kept, GrantedByQuorum, grants' = grants
  PROVE  GrantedByQuorum'
<1> SUFFICES ASSUME NEW g \in grants
             PROVE  /\ g.approvers \subseteq EligibleOf(g.intent)
                    /\ Cardinality(g.approvers) >= QuorumOf(g.intent)
                    /\ TierOf(g.intent) = "A3" => Cardinality(g.approvers) >= 2
                    /\ \A p \in g.approvers : VerifiedFor(p, g.intent)'
  BY DEF GrantedByQuorum, VerifiedFor, EligibleOf, QuorumOf, TierOf
<1>1. g.intent \in Intents
  BY DEF TypeOK, Grant
<1>2. \A p \in g.approvers : VerifiedFor(p, g.intent)'
  BY <1>1, GatewayAssumption DEF GrantedByQuorum, VerifiedFor, Kept, GatewayAssumption
<1> QED
  BY <1>2 DEF GrantedByQuorum

LEMMA IdleType == IdleSession \in Session
BY DEF IdleSession, Session, PCs, Round, Unissued

LEMMA IdleOK ==
  ASSUME NEW s, sess'[s] = IdleSession
  PROVE  SessionOK(s)'
BY DEF SessionOK, IdleSession, At, SubmitPCs, EarlyPCs

\* A step that moves one session and leaves rounds, table, verified and grants
\* alone.
LEMMA QuietStep ==
  ASSUME IInv, NEW s \in Sessions, Alone(s), sess'[s] \in Session, SessionOK(s)',
         UNCHANGED <<rounds, table, verified, grants, mints>>,
         calls' \in [Replicas -> [Actions -> Nat]], autos' \in [Actions -> Nat]
  PROVE  IInv'
<1>0. TypeOK'
  BY DEF IInv, TypeOK, Alone
<1>1. Kept
  BY DEF Kept
<1>2. \A t \in Sessions : SessionOK(t)'
  <2> SUFFICES ASSUME NEW t \in Sessions, t # s PROVE SessionOK(t)'
    OBVIOUS
  <2>1. sess'[t] = sess[t]
    BY DEF Alone, IInv, TypeOK
  <2> QED
    BY <1>1, <2>1, OthersKept DEF IInv
<1>3. GrantedByQuorum'
  BY <1>1, GrantsKept DEF IInv
<1>4. UnissuedOK' /\ RoundsOK' /\ TableOK' /\ NoApprovalWithoutPolicy'
  BY DEF IInv, UnissuedOK, RoundsOK, TableOK, NoApprovalWithoutPolicy, Backed, VerifiedFor
<1> QED
  BY <1>0, <1>2, <1>3, <1>4 DEF IInv

-----------------------------------------------------------------------------
(* Steps that only move the session *)

LEMMA DecideStep ==
  ASSUME IInv, NEW s \in Sessions, NEW i \in Intents, Decide(s, i)
  PROVE  IInv'
<1> USE DEF TypeOK
<1>t. TypeOK
  BY DEF IInv
<1>1. Alone(s)
  BY <1>t DEF Decide, Return, Alone
<1>2. CASE sess'[s] = IdleSession
  BY <1>t, <1>1, <1>2, IdleType, IdleOK, QuietStep DEF Decide
<1>3. CASE sess'[s] # IdleSession
  <2>1. PICK pc \in {"count", "open"} :
          sess'[s] = [IdleSession EXCEPT !.intent = i, !.pc = pc]
    BY <1>t, <1>3 DEF Decide, Return
  <2>2. Known(i)
    BY <1>t, <1>3 DEF Decide, Return, Denied
  <2>3. sess'[s] \in Session
    BY <2>1, IdleType DEF Session, PCs
  <2>4. /\ sess'[s].intent = i /\ sess'[s].pc = pc /\ sess'[s].op = "decide"
        /\ sess'[s].ref = NoRound
    BY <2>1 DEF IdleSession
  <2>5. SessionOK(s)'
    BY <2>2, <2>4 DEF SessionOK, At, SubmitPCs, EarlyPCs, Known
  <2> QED
    BY <1>t, <1>1, <2>3, <2>5, QuietStep DEF Decide
<1> QED
  BY <1>2, <1>3

LEMMA CountStep ==
  ASSUME IInv, NEW s \in Sessions, CountCalls(s)
  PROVE  IInv'
<1> DEFINE i == sess[s].intent
<1>t. TypeOK /\ SessionOK(s)
  BY DEF IInv
<1>1. i \in Intents /\ Known(i)
  BY <1>t DEF SessionOK, CountCalls, At
<1>2. Alone(s)
  BY <1>t DEF TypeOK, CountCalls, Alone
<1>3. /\ sess'[s].intent = i /\ sess'[s].pc \in {"bump", "open"}
      /\ sess'[s].op = sess[s].op /\ sess'[s] \in Session
      /\ sess'[s].ref = sess[s].ref
  <2> DEFINE n == calls[Home[s]][i.action_id]
  <2>1. n \in Nat
    BY <1>t, <1>1, StoreOfType DEF TypeOK, Known
  <2>2. PICK pc \in {"bump", "open"} : sess'[s] = [sess[s] EXCEPT !.count = n, !.pc = pc]
    BY <1>t DEF TypeOK, CountCalls
  <2>3. sess[s] \in Session
    BY <1>t DEF TypeOK
  <2> HIDE DEF n
  <2> QED
    BY <2>1, <2>2, <2>3 DEF Session, PCs
<1>4. SessionOK(s)'
  BY <1>t, <1>1, <1>3 DEF SessionOK, CountCalls, At, SubmitPCs, EarlyPCs, Known, TierOf
<1> QED
  BY <1>t, <1>2, <1>3, <1>4, QuietStep DEF CountCalls, TypeOK

LEMMA BumpStep ==
  ASSUME IInv, NEW s \in Sessions, BumpCalls(s)
  PROVE  IInv'
<1> DEFINE a == sess[s].intent.action_id
<1>t. TypeOK /\ SessionOK(s)
  BY DEF IInv
<1>1. a \in Actions /\ Home[s] \in Replicas /\ sess[s].count \in Nat
  BY <1>t, StoreOfType DEF SessionOK, BumpCalls, At, Known, TypeOK, Session
<1>2. Alone(s) /\ sess'[s] = IdleSession
  BY <1>t DEF TypeOK, BumpCalls, Return, Alone
<1>3. calls' \in [Replicas -> [Actions -> Nat]] /\ autos' \in [Actions -> Nat]
  BY <1>t, <1>1 DEF TypeOK, BumpCalls
<1> QED
  BY <1>2, <1>3, IdleType, IdleOK, QuietStep DEF BumpCalls

\* Where a call goes when its round is open: back to its caller, or to a second
\* lookup.
LEMMA OpenedMoves ==
  ASSUME TypeOK, NEW s \in Sessions, Opened(s)
  PROVE  /\ Alone(s)
         /\ \/ sess'[s] = IdleSession
            \/ sess[s].op = "submit" /\ sess'[s] = [sess[s] EXCEPT !.pc = "reget"]
BY DEF TypeOK, Opened, Goto, Return, Alone

LEMMA OpenReadStep ==
  ASSUME IInv, NEW s \in Sessions, OpenRead(s)
  PROVE  IInv'
<1> DEFINE i == sess[s].intent
<1>t. TypeOK /\ SessionOK(s)
  BY DEF IInv
<1>1. i \in Intents /\ Known(i) /\ sess[s].pc = "open"
  BY <1>t DEF SessionOK, OpenRead, At
<1>2. Alone(s)
  BY <1>t, OpenedMoves DEF TypeOK, OpenRead, Goto, Return, Alone
<1>3. CASE sess'[s] = IdleSession
  BY <1>t, <1>2, <1>3, IdleType, IdleOK, QuietStep DEF OpenRead, TypeOK
<1>4. CASE sess'[s] # IdleSession
  <2>1. \/ sess'[s] = [sess[s] EXCEPT !.pc = "reget"] /\ sess[s].op = "submit"
        \/ sess'[s] = [sess[s] EXCEPT !.pc = "opening"] /\ Openable(i)
    BY <1>t, <1>4, OpenedMoves DEF TypeOK, OpenRead, Goto, Return
  <2>2. /\ sess'[s].intent = i /\ sess'[s].pc \in {"reget", "opening"}
        /\ sess'[s].op = sess[s].op /\ sess'[s] \in Session
        /\ sess'[s].ref = sess[s].ref
    <3>1. sess[s] \in Session
      BY <1>t DEF TypeOK
    <3> QED
      BY <2>1, <3>1 DEF Session, PCs
  <2>3. sess'[s].pc = "reget" => sess[s].op = "submit"
    BY <1>t, <2>1 DEF TypeOK, Session
  <2>4. sess'[s].pc = "opening" => Openable(i)
    BY <1>t, <2>1 DEF TypeOK, Session
  <2>5. SessionOK(s)'
    BY <1>t, <1>1, <2>2, <2>3, <2>4
    DEF SessionOK, At, SubmitPCs, EarlyPCs, Known, TierOf, Openable, QuorumOf, EligibleOf
  <2> QED
    BY <1>t, <1>2, <2>2, <2>5, QuietStep DEF OpenRead, TypeOK
<1> QED
  BY <1>3, <1>4

LEMMA SubmitStep ==
  ASSUME IInv, NEW s \in Sessions, NEW i \in Intents, NEW a \in Assertions,
         Submit(s, i, a[1], a[2])
  PROVE  IInv'
<1>t. TypeOK
  BY DEF IInv
<1>1. Alone(s)
  BY <1>t DEF TypeOK, Submit, Return, Alone
<1>2. CASE sess'[s] = IdleSession
  BY <1>t, <1>1, <1>2, IdleType, IdleOK, QuietStep DEF Submit, TypeOK
<1>3. CASE sess'[s] # IdleSession
  <2>1. /\ sess'[s] = [IdleSession EXCEPT !.pc = "get", !.op = "submit",
                          !.intent = i, !.by = a[1], !.over = a[2]]
        /\ Known(i) /\ TierOf(i) \in ApprovalTiers
    BY <1>t, <1>3 DEF TypeOK, Submit, Return
  <2>2. a[1] \in Principals \cup {NoOne} /\ a[2] \in Challenges \cup {NoRound}
    BY DEF Assertions
  <2>3. sess'[s] \in Session
    BY <2>1, <2>2, IdleType DEF Session, PCs
  <2>4. /\ sess'[s].intent = i /\ sess'[s].pc = "get" /\ sess'[s].op = "submit"
        /\ sess'[s].ref = NoRound
    BY <2>1 DEF IdleSession
  <2>5. SessionOK(s)'
    BY <2>1, <2>4 DEF SessionOK, At, SubmitPCs, EarlyPCs, Known, TierOf
  <2> QED
    BY <1>t, <1>1, <2>3, <2>5, QuietStep DEF Submit, TypeOK
<1> QED
  BY <1>2, <1>3

LEMMA LookupStep ==
  ASSUME IInv, NEW s \in Sessions, Lookup(s)
  PROVE  IInv'
<1> DEFINE i == sess[s].intent
           c == Current(s, i)
<1>t. TypeOK /\ SessionOK(s) /\ TableOK
  BY DEF IInv
<1>1. /\ i \in Intents /\ Known(i) /\ TierOf(i) \in ApprovalTiers
      /\ sess[s].op = "submit" /\ sess[s].pc \in {"get", "reget"}
  BY <1>t DEF SessionOK, Lookup, At, SubmitPCs, EarlyPCs
<1>2. c \in Challenges \cup {NoRound} /\ (c # NoRound => rounds[c].intent = i)
  BY <1>t, <1>1, StoreOfType DEF TypeOK, TableOK, Current
<1>3. Alone(s)
  BY <1>t DEF TypeOK, Lookup, Goto, Alone
<1>4. CASE c = NoRound
  <2>1. sess'[s] = [sess[s] EXCEPT !.pc = IF sess[s].pc = "get" THEN "open" ELSE "check"]
    BY <1>t, <1>4 DEF TypeOK, Lookup, Goto, At
  <2>2. sess[s].ref = NoRound
    BY <1>t, <1>1 DEF SessionOK, EarlyPCs
  <2>3. /\ sess'[s].intent = i /\ sess'[s].op = "submit" /\ sess'[s] \in Session
        /\ \/ sess'[s].pc = "open"
           \/ sess'[s].pc = "check"
        /\ sess'[s].ref = NoRound
    <3>1. sess[s] \in Session
      BY <1>t DEF TypeOK
    <3> QED
      BY <1>1, <2>1, <2>2, <3>1 DEF Session, PCs
  <2>4. SessionOK(s)'
    BY <1>1, <2>3 DEF SessionOK, At, SubmitPCs, EarlyPCs, Known, TierOf
  <2> QED
    BY <1>t, <1>3, <2>3, <2>4, QuietStep DEF Lookup, TypeOK
<1>5. CASE c # NoRound
  <2>1. sess'[s] = [sess[s] EXCEPT !.pc = "check", !.ref = c,
                      !.view = IF Durable THEN rounds[c] ELSE Unissued]
    BY <1>t, <1>5 DEF TypeOK, Lookup, Goto, At
  <2>2. rounds[c] \in Round /\ Unissued \in Round
    BY <1>t, <1>2, <1>5, GatewayAssumption DEF TypeOK, Unissued, Round
  <2>3. /\ sess'[s].intent = i /\ sess'[s].op = "submit" /\ sess'[s] \in Session
        /\ sess'[s].pc = "check" /\ sess'[s].ref = c
    BY <1>t, <1>1, <1>2, <2>1, <2>2 DEF TypeOK, Session, PCs
  <2>4. rounds'[c].intent = i /\ Current(s, i)' # NoRound
    BY <1>2, <1>5, <2>3 DEF Lookup, Current, StoreOf
  <2>5. SessionOK(s)'
    BY <1>1, <2>3, <2>4 DEF SessionOK, At, SubmitPCs, EarlyPCs, Known, TierOf
  <2> QED
    BY <1>t, <1>3, <2>3, <2>5, QuietStep DEF Lookup, TypeOK
<1> QED
  BY <1>4, <1>5

LEMMA TallyStep ==
  ASSUME IInv, NEW s \in Sessions, Tally(s)
  PROVE  IInv'
<1> DEFINE i == sess[s].intent
           c == IF Durable THEN Current(s, i) ELSE sess[s].ref
<1>t. TypeOK /\ SessionOK(s) /\ TableOK /\ RoundsOK
  BY DEF IInv
<1>1. /\ i \in Intents /\ Known(i) /\ TierOf(i) \in ApprovalTiers
      /\ sess[s].op = "submit" /\ sess[s].pc = "tally"
  BY <1>t DEF SessionOK, Tally, At, SubmitPCs
<1>2. c \in Challenges /\ rounds[c].intent = i
  <2>1. Current(s, i) \in Challenges /\ rounds[Current(s, i)].intent = i
    BY <1>t, <1>1, StoreOfType DEF TypeOK, TableOK, SessionOK, At, Current
  <2>2. sess[s].ref \in Challenges /\ rounds[sess[s].ref].intent = i
    BY <1>t, <1>1 DEF TypeOK, Session, SessionOK
  <2> QED
    BY <2>1, <2>2
<1>3. Backed(rounds[c].approvers, i)
  BY <1>t, <1>1, <1>2, GatewayAssumption DEF RoundsOK, GatewayAssumption
<1>4. /\ Alone(s)
      /\ \/ sess'[s] = IdleSession
         \/ /\ Cardinality(rounds[c].approvers) >= QuorumOf(i)
            /\ sess'[s] = [sess[s] EXCEPT !.pc = "retire", !.ref = c, !.view = rounds[c]]
  BY <1>t, <1>2 DEF TypeOK, Tally, satisfied, Return, Alone
<1> HIDE DEF c
<1>5. CASE sess'[s] = IdleSession
  BY <1>t, <1>4, <1>5, IdleType, IdleOK, QuietStep DEF Tally, TypeOK
<1>6. CASE sess'[s] # IdleSession
  <2>1. rounds[c] \in Round
    BY <1>t, <1>2 DEF TypeOK
  <2>2. /\ sess'[s].intent = i /\ sess'[s].op = "submit" /\ sess'[s] \in Session
        /\ sess'[s].pc = "retire" /\ sess'[s].ref = c
        /\ sess'[s].view.approvers = rounds[c].approvers
    BY <1>t, <1>1, <1>2, <1>4, <1>6, <2>1 DEF TypeOK, Session, PCs
  <2>3. c # NoRound /\ UNCHANGED <<rounds, verified>>
    BY <1>2, GatewayAssumption DEF Tally, GatewayAssumption
  <2>4. SessionOK(s)'
    BY <1>1, <1>2, <1>3, <1>4, <1>6, <2>2, <2>3
    DEF SessionOK, At, SubmitPCs, EarlyPCs, Known, TierOf, Backed, VerifiedFor, QuorumOf,
        EligibleOf
  <2> QED
    BY <1>t, <1>4, <2>2, <2>4, QuietStep DEF Tally, TypeOK
<1> QED
  BY <1>5, <1>6

-----------------------------------------------------------------------------
(* Steps that change rounds, the table, verified or grants *)

\* What a loud step of s has to show, beyond keeping what is Kept.
LEMMA LoudStep ==
  ASSUME IInv, NEW s \in Sessions, Alone(s), Kept, sess'[s] \in Session, SessionOK(s)',
         rounds' \in [Challenges -> Round],
         table' \in [Stores -> [Intents -> Challenges \cup {NoRound}]],
         verified' \subseteq Principals \X Challenges,
         UnissuedOK', RoundsOK', TableOK', UNCHANGED <<calls, autos, mints, grants>>
  PROVE  IInv'
<1>1. TypeOK'
  BY DEF IInv, TypeOK, Alone
<1>2. \A t \in Sessions : SessionOK(t)'
  <2> SUFFICES ASSUME NEW t \in Sessions, t # s PROVE SessionOK(t)'
    OBVIOUS
  <2>1. sess'[t] = sess[t]
    BY DEF Alone, IInv, TypeOK
  <2> QED
    BY <2>1, OthersKept DEF IInv
<1>3. GrantedByQuorum'
  BY GrantsKept DEF IInv
<1>4. NoApprovalWithoutPolicy'
  BY DEF IInv, RoundsOK, NoApprovalWithoutPolicy
<1> QED
  BY <1>1, <1>2, <1>3, <1>4 DEF IInv

LEMMA OpenWriteStep ==
  ASSUME IInv, NEW s \in Sessions, OpenWrite(s)
  PROVE  IInv'
<1> DEFINE i == sess[s].intent
<1>t. TypeOK /\ SessionOK(s) /\ TableOK /\ RoundsOK /\ UnissuedOK
  BY DEF IInv
<1>1. i \in Intents /\ Known(i) /\ Openable(i) /\ sess[s].pc = "opening"
  BY <1>t DEF SessionOK, OpenWrite, At
<1>2. PICK c \in Challenges :
        /\ rounds[c] = Unissued
        /\ rounds' = [rounds EXCEPT ![c] = [Unissued EXCEPT !.intent = i]]
        /\ table' = [table EXCEPT ![StoreOf(s)][i] = c]
  BY DEF OpenWrite, Fresh
<1>3. /\ rounds' \in [Challenges -> Round]
      /\ \A d \in Challenges : d # c => rounds'[d] = rounds[d]
      /\ rounds'[c].intent = i /\ rounds'[c].approvers = {}
  <2>1. rounds'[c] = [Unissued EXCEPT !.intent = i]
    BY <1>t, <1>2 DEF TypeOK
  <2>2. rounds'[c] \in Round /\ rounds'[c].intent = i /\ rounds'[c].approvers = {}
    BY <1>1, <2>1 DEF Round, Unissued
  <2> QED
    BY <1>t, <1>2, <2>2 DEF TypeOK
<1>4. /\ table' \in [Stores -> [Intents -> Challenges \cup {NoRound}]]
      /\ \A d \in Stores, j \in Intents : table'[d][j] = table[d][j] \/ (table'[d][j] = c /\ j = i)
  BY <1>t, <1>1, <1>2, StoreOfType DEF TypeOK
<1>5. Alone(s)
      /\ \/ sess'[s] = IdleSession
         \/ sess[s].op = "submit" /\ sess'[s] = [sess[s] EXCEPT !.pc = "reget"]
  BY <1>t, OpenedMoves DEF OpenWrite
<1>6. Kept
  BY <1>2, <1>3, <1>4, GatewayAssumption DEF Kept, OpenWrite, GatewayAssumption, Unissued
<1>7. UnissuedOK'
  BY <1>t, <1>1, <1>3, GatewayAssumption DEF UnissuedOK, GatewayAssumption
<1>8. RoundsOK'
  <2> SUFFICES ASSUME NEW d \in Challenges, rounds'[d].intent # NoRound
               PROVE  /\ Known(rounds'[d].intent) /\ Openable(rounds'[d].intent)
                      /\ Backed(rounds[d].approvers, rounds[d].intent)'
    BY DEF RoundsOK, Known, Openable, TierOf, QuorumOf, EligibleOf
  <2>1. CASE d = c
    BY <1>1, <1>3, <2>1 DEF Backed
  <2>2. CASE d # c
    <3>1. rounds'[d] = rounds[d] /\ rounds[d].intent \in Intents
      BY <1>t, <1>3, <2>2 DEF TypeOK, Round
    <3>2. \A p \in rounds[d].approvers : VerifiedFor(p, rounds[d].intent)
      BY <1>t, <3>1, GatewayAssumption DEF RoundsOK, Backed, GatewayAssumption
    <3>3. \A p \in rounds[d].approvers : \E e \in Challenges :
            <<p, e>> \in verified' /\ rounds'[e].intent = rounds[d].intent
      BY <1>6, <3>1, <3>2, GatewayAssumption DEF VerifiedFor, Kept, GatewayAssumption
    <3> QED
      BY <1>t, <3>1, <3>3, GatewayAssumption
      DEF RoundsOK, Backed, VerifiedFor, EligibleOf, GatewayAssumption, Known, Openable,
          TierOf, QuorumOf
  <2> QED
    BY <2>1, <2>2
<1>9. TableOK'
  <2> SUFFICES ASSUME NEW d \in Stores, NEW j \in Intents, table'[d][j] # NoRound
               PROVE  rounds'[table'[d][j]].intent = j
    BY DEF TableOK
  <2>1. table[d][j] \in Challenges \cup {NoRound}
    BY <1>t DEF TypeOK
  <2> QED
    BY <1>t, <1>2, <1>3, <1>4, <2>1, GatewayAssumption DEF TableOK, GatewayAssumption, Unissued
<1>10. sess'[s] \in Session /\ SessionOK(s)'
  <2>1. CASE sess'[s] = IdleSession
    BY <2>1, IdleType, IdleOK
  <2>2. CASE sess[s].op = "submit" /\ sess'[s] = [sess[s] EXCEPT !.pc = "reget"]
    <3>1. /\ sess'[s] \in Session /\ sess'[s].pc = "reget" /\ sess'[s].intent = i
          /\ sess'[s].ref = NoRound /\ sess'[s].op = "submit"
      BY <1>t, <1>1, <2>2 DEF TypeOK, Session, PCs, SessionOK, EarlyPCs
    <3>2. TierOf(i) \in ApprovalTiers
      BY <1>t, <1>1, <2>2 DEF SessionOK
    <3> QED
      BY <1>1, <3>1, <3>2 DEF SessionOK, At, SubmitPCs, EarlyPCs, Known, TierOf
  <2> QED
    BY <1>5, <2>1, <2>2
<1> QED
  BY <1>t, <1>3, <1>4, <1>5, <1>6, <1>7, <1>8, <1>9, <1>10, LoudStep DEF OpenWrite, TypeOK

\* used, expired and new verifications change nothing the invariant says of the
\* rounds and the table.
LEMMA FlagsOnly ==
  ASSUME IInv, rounds' \in [Challenges -> Round], table' = table,
         verified \subseteq verified',
         \A c \in Challenges :
           /\ rounds'[c].intent = rounds[c].intent
           /\ rounds'[c].approvers = rounds[c].approvers
           /\ rounds[c].intent = NoRound => rounds'[c] = rounds[c]
  PROVE  Kept /\ RoundsOK' /\ TableOK' /\ UnissuedOK'
<1>t. TypeOK /\ RoundsOK /\ TableOK /\ UnissuedOK
  BY DEF IInv
<1>1. Kept
  BY DEF Kept
<1>2. TableOK'
  BY <1>t, GatewayAssumption DEF TypeOK, TableOK, GatewayAssumption
<1>3. UnissuedOK'
  BY <1>t DEF UnissuedOK
<1>4. RoundsOK'
  BY <1>t DEF RoundsOK, Backed, VerifiedFor, EligibleOf, Known, Openable, TierOf, QuorumOf
<1> QED
  BY <1>1, <1>2, <1>3, <1>4

LEMMA CheckStep ==
  ASSUME IInv, NEW s \in Sessions, Check(s)
  PROVE  IInv'
<1> DEFINE i == sess[s].intent
           c == sess[s].ref
           p == sess[s].by
<1>t. TypeOK /\ SessionOK(s)
  BY DEF IInv
<1>1. /\ i \in Intents /\ Known(i) /\ TierOf(i) \in ApprovalTiers
      /\ sess[s].op = "submit" /\ sess[s].pc = "check"
      /\ c # NoRound => rounds[c].intent = i /\ Current(s, i) # NoRound
  BY <1>t DEF SessionOK, Check, At, SubmitPCs
<1>s. sess[s] \in Session
  BY <1>t DEF TypeOK
<1>2. /\ Alone(s)
      /\ \/ sess'[s] = IdleSession
         \/ sess'[s] = [sess[s] EXCEPT !.pc = "drop"]
         \/ /\ sess'[s] = [IdleSession EXCEPT !.pc = "add", !.op = "submit",
                              !.intent = i, !.by = p]
            /\ p \in EligibleOf(i) /\ c # NoRound /\ <<p, c>> \in verified'
  BY <1>t DEF TypeOK, Check, Counts, Goto, Return, Alone
<1>3. verified' \subseteq Principals \X Challenges /\ verified \subseteq verified'
  <2>1. \/ verified' = verified
        \/ verified' = verified \cup {<<p, c>>} /\ p # NoOne /\ c # NoRound
    BY DEF Check, Rejected
  <2> QED
    BY <1>t, <1>s, <2>1 DEF TypeOK, Session
<1>4. Kept /\ RoundsOK' /\ TableOK' /\ UnissuedOK'
  BY <1>t, <1>3, FlagsOnly DEF Check, TypeOK
<1>5. sess'[s] \in Session /\ SessionOK(s)'
  <2>1. CASE sess'[s] = IdleSession
    BY <2>1, IdleType, IdleOK
  <2>2. CASE sess'[s] = [sess[s] EXCEPT !.pc = "drop"]
    <3>1. /\ sess'[s] \in Session /\ sess'[s].pc = "drop" /\ sess'[s].intent = i
          /\ sess'[s].op = "submit"
      BY <1>1, <1>s, <2>2 DEF Session, PCs
    <3> QED
      BY <1>1, <3>1 DEF SessionOK, At, SubmitPCs, EarlyPCs, Known, TierOf
  <2>3. CASE /\ sess'[s] = [IdleSession EXCEPT !.pc = "add", !.op = "submit",
                              !.intent = i, !.by = p]
             /\ p \in EligibleOf(i) /\ c # NoRound /\ <<p, c>> \in verified'
    <3>1. /\ sess'[s].pc = "add" /\ sess'[s].intent = i
          /\ sess'[s].op = "submit" /\ sess'[s].by = p
      BY <2>3 DEF IdleSession
    <3>2. sess'[s] \in Session
      BY <1>1, <1>s, <2>3, IdleType DEF Session, PCs
    <3>3. \E e \in Challenges : <<p, e>> \in verified' /\ rounds'[e].intent = i
      BY <1>1, <1>s, <2>3 DEF Session, Check
    <3>4. Current(s, i)' # NoRound
      BY <1>1, <2>3, <3>1 DEF Current, StoreOf, Check
    <3> QED
      BY <1>1, <2>3, <3>1, <3>2, <3>3, <3>4
      DEF SessionOK, At, SubmitPCs, EarlyPCs, Known, TierOf, EligibleOf, VerifiedFor, Current,
          StoreOf
  <2> QED
    BY <1>2, <2>1, <2>2, <2>3
<1> QED
  BY <1>t, <1>2, <1>3, <1>4, <1>5, LoudStep DEF Check, TypeOK

\* retire touches no more than the used flag of a drawn round.
LEMMA RetiredFlag ==
  ASSUME IInv, NEW s \in Sessions, NEW i \in Intents, rounds' = Retired(s, i)
  PROVE  /\ rounds' \in [Challenges -> Round]
         /\ \A c \in Challenges :
              /\ rounds'[c].intent = rounds[c].intent
              /\ rounds'[c].approvers = rounds[c].approvers
              /\ rounds[c].intent = NoRound => rounds'[c] = rounds[c]
<1> DEFINE d == Current(s, i)
<1>1. d \in Challenges \cup {NoRound} /\ (d # NoRound => rounds[d].intent = i)
  BY StoreOfType DEF IInv, TypeOK, TableOK, Current
<1>2. CASE d = NoRound
  BY <1>2 DEF Retired, IInv, TypeOK
<1>3. CASE d # NoRound
  <2>1. rounds' = [rounds EXCEPT ![d].used = TRUE]
    BY <1>3 DEF Retired
  <2> HIDE DEF d
  <2>2. /\ d \in Challenges /\ rounds \in [Challenges -> Round] /\ rounds[d] \in Round
        /\ rounds[d].intent # NoRound
    BY <1>1, <1>3, GatewayAssumption DEF IInv, TypeOK, GatewayAssumption
  <2>3. rounds'[d] = [rounds[d] EXCEPT !.used = TRUE]
    BY <2>1, <2>2
  <2>4. /\ rounds'[d] \in Round /\ rounds'[d].intent = rounds[d].intent
        /\ rounds'[d].approvers = rounds[d].approvers
    BY <2>2, <2>3 DEF Round
  <2>5. \A c \in Challenges : c # d => rounds'[c] = rounds[c]
    BY <2>1, <2>2
  <2>6. rounds' \in [Challenges -> Round]
    BY <2>1, <2>2, <2>4
  <2> QED
    BY <2>2, <2>4, <2>5, <2>6
<1> QED
  BY <1>2, <1>3

LEMMA DropStep ==
  ASSUME IInv, NEW s \in Sessions, Drop(s)
  PROVE  IInv'
<1>t. TypeOK /\ SessionOK(s)
  BY DEF IInv
<1>1. sess[s].intent \in Intents
  BY <1>t DEF SessionOK, Drop, At
<1>2. Alone(s) /\ sess'[s] = IdleSession
  BY <1>t DEF Drop, TypeOK, Alone, Return
<1>3. Kept /\ RoundsOK' /\ TableOK' /\ UnissuedOK' /\ rounds' \in [Challenges -> Round]
  BY <1>1, RetiredFlag, FlagsOnly DEF Drop
<1> QED
  BY <1>t, <1>2, <1>3, IdleType, IdleOK, LoudStep DEF Drop, TypeOK

LEMMA RetireStep ==
  ASSUME IInv, NEW s \in Sessions, RetireRound(s)
  PROVE  IInv'
<1> DEFINE i == sess[s].intent
<1>t. TypeOK /\ SessionOK(s)
  BY DEF IInv
<1>1. /\ i \in Intents /\ Known(i) /\ TierOf(i) \in ApprovalTiers
      /\ sess[s].op = "submit" /\ sess[s].pc = "retire"
  BY <1>t DEF SessionOK, RetireRound, At, SubmitPCs
<1>2. Alone(s) /\ sess'[s] = [sess[s] EXCEPT !.pc = "mint"]
  BY <1>t DEF RetireRound, TypeOK, Alone, Goto
<1>3. /\ rounds' \in [Challenges -> Round]
      /\ \A c \in Challenges : /\ rounds'[c].intent = rounds[c].intent
                               /\ rounds'[c].approvers = rounds[c].approvers
                               /\ rounds[c].intent = NoRound => rounds'[c] = rounds[c]
  BY <1>1, RetiredFlag DEF RetireRound
<1>4. Kept /\ RoundsOK' /\ TableOK' /\ UnissuedOK'
  BY <1>3, FlagsOnly DEF RetireRound
<1>5. /\ sess'[s] \in Session /\ sess'[s].pc = "mint" /\ sess'[s].op = "submit"
      /\ sess'[s].intent = i /\ sess'[s].ref = sess[s].ref /\ sess'[s].view = sess[s].view
  BY <1>t, <1>1, <1>2 DEF TypeOK, Session, PCs
<1>6. sess[s].ref \in Challenges /\ rounds'[sess[s].ref].intent = i
  BY <1>t, <1>1, <1>3 DEF SessionOK, TypeOK, Session
<1>7. /\ sess[s].view.approvers \subseteq EligibleOf(i)
      /\ Cardinality(sess[s].view.approvers) >= QuorumOf(i)
      /\ \A p \in sess[s].view.approvers : \E e \in Challenges :
           <<p, e>> \in verified' /\ rounds'[e].intent = i
  BY <1>t, <1>1, <1>3 DEF SessionOK, Backed, VerifiedFor, RetireRound
<1>8. SessionOK(s)'
  BY <1>1, <1>5, <1>6, <1>7, GatewayAssumption
  DEF SessionOK, At, SubmitPCs, EarlyPCs, Known, TierOf, EligibleOf, QuorumOf, Backed,
      VerifiedFor, GatewayAssumption
<1> QED
  BY <1>t, <1>2, <1>3, <1>4, <1>5, <1>8, LoudStep DEF RetireRound, TypeOK

LEMMA AddStep ==
  ASSUME IInv, NEW s \in Sessions, AddApprover(s)
  PROVE  IInv'
<1> DEFINE i == sess[s].intent
           c == Current(s, i)
           p == sess[s].by
<1>t. TypeOK /\ SessionOK(s) /\ TableOK /\ RoundsOK /\ UnissuedOK
  BY DEF IInv
<1>1. /\ i \in Intents /\ Known(i) /\ TierOf(i) \in ApprovalTiers
      /\ sess[s].op = "submit" /\ sess[s].pc = "add" /\ c # NoRound
      /\ p \in EligibleOf(i) /\ VerifiedFor(p, i)
  BY <1>t DEF SessionOK, AddApprover, At, SubmitPCs
<1>2. c \in Challenges /\ rounds[c].intent = i /\ rounds[c] \in Round /\ p \in Principals
  BY <1>t, <1>1, StoreOfType, PolicyType DEF TypeOK, TableOK, Current
<1>3. /\ Alone(s) /\ sess'[s] = [sess[s] EXCEPT !.pc = "tally", !.ref = c, !.by = NoOne]
      /\ rounds' = [rounds EXCEPT ![c].approvers = @ \cup {p}]
      /\ UNCHANGED <<table, calls, verified, grants, mints, autos>>
  BY <1>t DEF AddApprover, TypeOK, Alone
<1> HIDE DEF c
<1>4. /\ rounds'[c] = [rounds[c] EXCEPT !.approvers = @ \cup {p}]
      /\ \A d \in Challenges : d # c => rounds'[d] = rounds[d]
  BY <1>t, <1>2, <1>3 DEF TypeOK
<1>5. /\ rounds'[c] \in Round /\ rounds'[c].intent = i
      /\ rounds'[c].approvers = rounds[c].approvers \cup {p}
  BY <1>2, <1>4 DEF Round
<1>6. rounds' \in [Challenges -> Round] /\ Kept
  BY <1>t, <1>2, <1>3, <1>4, <1>5 DEF TypeOK, Kept
<1>7. UnissuedOK'
  <2>1. i # NoRound
    BY <1>1, GatewayAssumption DEF GatewayAssumption
  <2> HIDE DEF i
  <2> QED
    BY <1>t, <1>4, <1>5, <2>1 DEF UnissuedOK
<1>8. TableOK'
  BY <1>t, <1>2, <1>3, <1>4, <1>5, GatewayAssumption DEF TypeOK, TableOK, GatewayAssumption
<1>9. RoundsOK'
  <2> SUFFICES ASSUME NEW d \in Challenges, rounds'[d].intent # NoRound
               PROVE  /\ Known(rounds'[d].intent) /\ Openable(rounds'[d].intent)
                      /\ Backed(rounds[d].approvers, rounds[d].intent)'
    BY DEF RoundsOK, Known, Openable, TierOf, QuorumOf, EligibleOf
  <2>1. /\ rounds'[d].intent = rounds[d].intent
        /\ rounds'[d].approvers \subseteq rounds[d].approvers \cup {p}
        /\ rounds[d].intent = i \/ rounds'[d].approvers = rounds[d].approvers
    BY <1>2, <1>4, <1>5
  <2>2. /\ Known(rounds[d].intent) /\ Openable(rounds[d].intent)
        /\ Backed(rounds[d].approvers, rounds[d].intent)
    BY <1>t, <2>1 DEF RoundsOK
  <2>3. rounds[d].intent \in Intents
    BY <1>t, <2>1 DEF TypeOK, Round
  <2>4. \A q \in rounds'[d].approvers : VerifiedFor(q, rounds[d].intent)
    BY <1>1, <2>1, <2>2 DEF Backed
  <2>5. \A q \in rounds'[d].approvers : \E e \in Challenges :
          <<q, e>> \in verified' /\ rounds'[e].intent = rounds[d].intent
    BY <1>6, <2>3, <2>4, GatewayAssumption DEF VerifiedFor, Kept, GatewayAssumption
  <2>6. rounds'[d].approvers \subseteq EligibleOf(rounds[d].intent)
    BY <1>1, <2>1, <2>2 DEF Backed
  <2> QED
    BY <2>1, <2>2, <2>5, <2>6 DEF Backed, VerifiedFor, EligibleOf
<1>10. /\ sess'[s] \in Session /\ sess'[s].pc = "tally" /\ sess'[s].op = "submit"
       /\ sess'[s].intent = i /\ sess'[s].ref = c
  BY <1>t, <1>1, <1>2, <1>3 DEF TypeOK, Session, PCs
<1>11. Current(s, i)' # NoRound
  BY <1>1, <1>3, <1>10 DEF Current, StoreOf, c
<1>12. SessionOK(s)'
  BY <1>1, <1>5, <1>10, <1>11
  DEF SessionOK, At, SubmitPCs, EarlyPCs, Known, TierOf, Current, StoreOf
<1> QED
  BY <1>t, <1>3, <1>6, <1>7, <1>8, <1>9, <1>10, <1>12, LoudStep DEF TypeOK

LEMMA MintStep ==
  ASSUME IInv, NEW s \in Sessions, Mint(s)
  PROVE  IInv'
<1> DEFINE i == sess[s].intent
           g == [intent |-> i, round |-> sess[s].ref, approvers |-> sess[s].view.approvers]
<1>t. TypeOK /\ SessionOK(s) /\ RoundsOK
  BY DEF IInv
<1>1. /\ i \in Intents /\ Known(i) /\ TierOf(i) \in ApprovalTiers
      /\ sess[s].pc = "mint"
  BY <1>t DEF SessionOK, Mint, At, SubmitPCs
<1>2. /\ sess[s].ref \in Challenges /\ rounds[sess[s].ref].intent = i
      /\ Backed(sess[s].view.approvers, i)
      /\ Cardinality(sess[s].view.approvers) >= QuorumOf(i)
  BY <1>t, <1>1 DEF SessionOK, TypeOK, Session
<1>3. /\ Alone(s) /\ sess'[s] = IdleSession
      /\ grants' = grants \cup {g} /\ mints' = [mints EXCEPT ![sess[s].ref] = @ + 1]
      /\ UNCHANGED <<rounds, table, calls, verified, autos>>
  BY <1>t DEF Mint, TypeOK, Alone, Return
<1>4. TypeOK'
  <2>1. g \in Grant
    BY <1>t, <1>1, <1>2 DEF Grant, TypeOK, Session, Round
  <2>2. mints' \in [Challenges -> Nat]
    BY <1>t, <1>2, <1>3 DEF TypeOK
  <2> QED
    BY <1>t, <1>3, <2>1, <2>2, IdleType DEF TypeOK, Alone
<1>5. Kept
  BY <1>3 DEF Kept
<1>6. \A t \in Sessions : SessionOK(t)'
  <2> SUFFICES ASSUME NEW t \in Sessions, t # s PROVE SessionOK(t)'
    BY <1>3, IdleOK
  <2>1. sess'[t] = sess[t]
    BY <1>t, <1>3 DEF Alone, TypeOK
  <2> QED
    BY <1>5, <2>1, OthersKept DEF IInv
<1>7. /\ g.approvers \subseteq EligibleOf(i) /\ Cardinality(g.approvers) >= QuorumOf(i)
      /\ TierOf(i) = "A3" => Cardinality(g.approvers) >= 2
      /\ \A p \in g.approvers : VerifiedFor(p, i)
  <2>1. TierOf(i) = "A3" => QuorumOf(i) >= 2
    BY <1>t, <1>1, <1>2, GatewayAssumption DEF RoundsOK, Openable, GatewayAssumption
  <2>2. QuorumOf(i) \in Nat
    BY <1>1, PolicyType
  <2>3. g.approvers \subseteq Principals
    BY <1>1, <1>2, PolicyType DEF Backed
  <2>4. Cardinality(g.approvers) \in Nat
    BY <2>3, FS_Subset, FS_CardinalityType, GatewayAssumption DEF GatewayAssumption
  <2>5. TierOf(i) = "A3" => Cardinality(g.approvers) >= 2
    BY <1>2, <2>1, <2>2, <2>4
  <2> QED
    BY <1>2, <2>5 DEF Backed
<1>8. GrantedByQuorum'
  <2> SUFFICES ASSUME NEW h \in grants'
               PROVE  /\ h.approvers \subseteq EligibleOf(h.intent)
                      /\ Cardinality(h.approvers) >= QuorumOf(h.intent)
                      /\ TierOf(h.intent) = "A3" => Cardinality(h.approvers) >= 2
                      /\ \A p \in h.approvers : \E c \in Challenges :
                           <<p, c>> \in verified /\ rounds[c].intent = h.intent
    BY <1>3 DEF GrantedByQuorum, EligibleOf, QuorumOf, TierOf
  <2>1. CASE h \in grants
    BY <2>1 DEF IInv, GrantedByQuorum
  <2>2. CASE h = g
    <3>1. h.intent = i /\ h.approvers = g.approvers
      BY <2>2
    <3> QED
      BY <1>7, <3>1 DEF VerifiedFor
  <2> QED
    BY <1>3, <2>1, <2>2
<1>9. NoApprovalWithoutPolicy'
  BY <1>1, <1>3 DEF IInv, NoApprovalWithoutPolicy, Known, TierOf, Openable, QuorumOf,
     EligibleOf
<1>10. UnissuedOK' /\ RoundsOK' /\ TableOK'
  BY <1>3 DEF IInv, UnissuedOK, RoundsOK, TableOK, Backed, VerifiedFor
<1> QED
  BY <1>4, <1>6, <1>8, <1>9, <1>10 DEF IInv

LEMMA ExpireStep ==
  ASSUME IInv, NEW c \in Challenges, Expire(c)
  PROVE  IInv'
<1>t. TypeOK
  BY DEF IInv
<1>1. rounds[c] \in Round /\ rounds[c].intent # NoRound
  BY <1>t DEF TypeOK, Expire, IInv, UnissuedOK
<1>2. rounds'[c] = [rounds[c] EXCEPT !.expired = TRUE]
  BY <1>t DEF TypeOK, Expire
<1>3. /\ rounds'[c] \in Round /\ rounds'[c].intent = rounds[c].intent
      /\ rounds'[c].approvers = rounds[c].approvers
  BY <1>1, <1>2 DEF Round
<1>4. /\ rounds' \in [Challenges -> Round]
      /\ \A d \in Challenges : d # c => rounds'[d] = rounds[d]
  BY <1>t, <1>3 DEF TypeOK, Expire
<1>5. Kept /\ RoundsOK' /\ TableOK' /\ UnissuedOK'
  BY <1>1, <1>3, <1>4, FlagsOnly DEF Expire
<1>6. TypeOK'
  BY <1>t, <1>4 DEF TypeOK, Expire
<1>7. \A t \in Sessions : SessionOK(t)'
  BY <1>5, OthersKept DEF IInv, Expire
<1>8. GrantedByQuorum' /\ NoApprovalWithoutPolicy'
  BY <1>5, GrantsKept DEF IInv, Expire, RoundsOK, NoApprovalWithoutPolicy
<1> QED
  BY <1>5, <1>6, <1>7, <1>8 DEF IInv

\* A crash forgets rounds of a memory store, so it does not keep the table; but
\* it also ends every call that relied on them.
LEMMA CrashStep ==
  ASSUME IInv, NEW r \in Replicas, GatewayCrash(r)
  PROVE  IInv'
<1>t. TypeOK /\ TableOK
  BY DEF IInv
<1>1. /\ table' \in [Stores -> [Intents -> Challenges \cup {NoRound}]]
      /\ \A d \in Stores, i \in Intents :
           table'[d][i] = table[d][i] \/ (d = r /\ ~Durable /\ table'[d][i] = NoRound)
  BY <1>t DEF GatewayCrash, TypeOK
<1>2. TypeOK'
  BY <1>t, <1>1, IdleType DEF GatewayCrash, TypeOK
<1>3. TableOK'
  BY <1>t, <1>1 DEF GatewayCrash, TableOK
<1>4. UnissuedOK' /\ RoundsOK' /\ GrantedByQuorum' /\ NoApprovalWithoutPolicy'
  BY DEF IInv, GatewayCrash, UnissuedOK, RoundsOK, Backed, VerifiedFor, GrantedByQuorum,
     NoApprovalWithoutPolicy
<1>5. ASSUME NEW t \in Sessions PROVE SessionOK(t)'
  <2>1. CASE Home[t] = r
    BY <2>1, IdleOK DEF GatewayCrash
  <2>2. CASE Home[t] # r
    <3>1. sess'[t] = sess[t] /\ SessionOK(t) /\ UNCHANGED <<rounds, verified>>
      BY <2>2 DEF GatewayCrash, IInv
    <3>2. \A i \in Intents : table'[StoreOf(t)][i] = table[StoreOf(t)][i]
      BY <1>1, <2>2, StoreOfType DEF StoreOf
    <3> QED
      BY <3>1, <3>2
      DEF SessionOK, At, Backed, VerifiedFor, Current, StoreOf, EligibleOf, QuorumOf, TierOf,
          Known, Openable
  <2> QED
    BY <2>1, <2>2
<1> QED
  BY <1>2, <1>3, <1>4, <1>5 DEF IInv

-----------------------------------------------------------------------------
(* The theorems *)

LEMMA NextIInv == IInv /\ [GatewayNext]_gwVars => IInv'
<1> SUFFICES ASSUME IInv, [GatewayNext]_gwVars PROVE IInv'
  OBVIOUS
<1>1. ASSUME NEW s \in Sessions, NEW i \in Intents, Decide(s, i) PROVE IInv'
  BY <1>1, DecideStep
<1>2. ASSUME NEW s \in Sessions, NEW i \in Intents, NEW a \in Assertions,
             Submit(s, i, a[1], a[2])
      PROVE  IInv'
  BY <1>2, SubmitStep
<1>3. ASSUME NEW s \in Sessions, GatewayStep(s) PROVE IInv'
  BY <1>3, CountStep, BumpStep, OpenReadStep, OpenWriteStep, LookupStep, CheckStep, DropStep,
     AddStep, TallyStep, RetireStep, MintStep DEF GatewayStep
<1>4. ASSUME NEW c \in Challenges, Expire(c) PROVE IInv'
  BY <1>4, ExpireStep
<1>5. ASSUME NEW r \in Replicas, GatewayCrash(r) PROVE IInv'
  BY <1>5, CrashStep
<1>6. CASE UNCHANGED gwVars
  <2> USE <1>6 DEF gwVars
  <2>1. TypeOK' /\ UnissuedOK' /\ TableOK' /\ NoApprovalWithoutPolicy'
    BY DEF IInv, TypeOK, UnissuedOK, TableOK, NoApprovalWithoutPolicy
  <2>2. RoundsOK' /\ GrantedByQuorum'
    BY DEF IInv, RoundsOK, Backed, VerifiedFor, GrantedByQuorum
  <2>3. Kept
    BY DEF Kept
  <2>4. \A s \in Sessions : SessionOK(s)'
    BY <2>3, OthersKept DEF IInv
  <2> QED
    BY <2>1, <2>2, <2>4 DEF IInv
<1> QED
  BY <1>1, <1>2, <1>3, <1>4, <1>5, <1>6 DEF GatewayNext

LEMMA SpecIInv == GatewaySpec => []IInv
<1>1. GatewayInit => IInv
  BY InitIInv
<1>2. IInv /\ [GatewayNext]_gwVars => IInv'
  BY NextIInv
<1> QED
  BY <1>1, <1>2, PTL DEF GatewaySpec

\* The gateway's variables keep their types.
THEOREM TypeCorrect == GatewaySpec => []TypeOK
BY SpecIInv, PTL DEF IInv

\* No interleaving of calls, no crash, no expiry and no store makes the gateway
\* mint a capability short of its policy's quorum of distinct, eligible, verified
\* approvers; for A3 that is dual control.
THEOREM QuorumSafety == GatewaySpec => []GrantedByQuorum
BY SpecIInv, PTL DEF IInv

\* Nothing is granted, and no round is opened, without a policy that allows it.
THEOREM FailClosed == GatewaySpec => []NoApprovalWithoutPolicy
BY SpecIInv, PTL DEF IInv

-----------------------------------------------------------------------------
(* A round that has authorized is closed *)

LatePCs == {"tally", "retire", "mint"}

\* A round is in one store at most, a call counts and retires rounds of its own store,
\* and once it comes to mint it has left no round of its own open.
SpentInv ==
  /\ SpentIsClosed
  /\ \A c \in Challenges : rounds[c].intent = NoRound => mints[c] = 0
  /\ \A d, e \in Stores, i \in Intents :
       table[d][i] # NoRound /\ table[d][i] = table[e][i] => d = e
  /\ \A s \in Sessions, d \in Stores, i \in Intents :
       sess[s].pc \in LatePCs /\ table[d][i] = sess[s].ref =>
         /\ d = StoreOf(s)
         /\ At(s, "mint") => ~Live(sess[s].ref)

\* A step that opens no round and mints nothing: the rounds keep their intents and none
\* comes to life again, the tables at most lose rounds ..
OnlyCloses ==
  /\ mints' = mints
  /\ \A c \in Challenges :
       /\ rounds'[c].intent = rounds[c].intent
       /\ rounds[c].used => rounds'[c].used
       /\ rounds[c].expired => rounds'[c].expired
  /\ \A d \in Stores, i \in Intents : table'[d][i] \in {table[d][i], NoRound}

\* .. and what the calls do meanwhile.
CallGoes(s) ==
  \/ sess'[s].ref = sess[s].ref /\ sess'[s].pc = sess[s].pc
  \/ sess'[s].pc \notin LatePCs
  \/ /\ sess'[s].pc \in {"tally", "retire"}
     /\ \E i \in Intents :
          sess'[s].ref = table[StoreOf(s)][i] /\ table[StoreOf(s)][i] # NoRound
  \/ sess'[s].ref = sess[s].ref /\ At(s, "tally") /\ sess'[s].pc = "retire"
  \/ /\ sess'[s].ref = sess[s].ref /\ At(s, "retire")
     /\ \A i \in Intents : table[StoreOf(s)][i] = sess[s].ref => rounds'[sess[s].ref].used

LEMMA SpentKept ==
  ASSUME IInv, SpentInv, OnlyCloses, \A s \in Sessions : CallGoes(s)
  PROVE  SpentInv'
<1>t. /\ table \in [Stores -> [Intents -> Challenges \cup {NoRound}]]
      /\ \A d \in Stores, i \in Intents :
           table[d][i] # NoRound => table[d][i] \in Challenges /\ rounds[table[d][i]].intent = i
  BY DEF IInv, TypeOK, TableOK
<1>1. SpentIsClosed'
  BY <1>t DEF SpentInv, SpentIsClosed, OnlyCloses, Live
<1>2. \A c \in Challenges : rounds'[c].intent = NoRound => mints'[c] = 0
  BY DEF SpentInv, OnlyCloses
<1>3. \A d, e \in Stores, i \in Intents :
        table'[d][i] # NoRound /\ table'[d][i] = table'[e][i] => d = e
  BY DEF SpentInv, OnlyCloses
<1>4. ASSUME NEW s \in Sessions, NEW d \in Stores, NEW i \in Intents,
             sess'[s].pc \in LatePCs, table'[d][i] = sess'[s].ref
      PROVE  /\ d = StoreOf(s)
             /\ sess'[s].pc = "mint" =>
                  ~(~rounds'[sess'[s].ref].used /\ ~rounds'[sess'[s].ref].expired)
  <2>1. sess[s].pc \in LatePCs => sess[s].ref # NoRound
    BY DEF IInv, SessionOK, LatePCs
  <2>2. sess'[s].ref # NoRound
    BY <1>4, <2>1 DEF CallGoes, At, LatePCs
  <2>3. table[d][i] = sess'[s].ref /\ sess'[s].ref \in Challenges
    BY <1>t, <1>4, <2>2 DEF OnlyCloses
  <2>4. ASSUME sess'[s].ref = sess[s].ref, sess[s].pc \in LatePCs
        PROVE  d = StoreOf(s) /\ (At(s, "mint") => ~Live(sess[s].ref))
    BY <2>3, <2>4 DEF SpentInv
  <2>5. ASSUME sess'[s].ref = sess[s].ref, sess'[s].pc = sess[s].pc
        PROVE  /\ d = StoreOf(s)
               /\ sess'[s].pc = "mint" =>
                    ~(~rounds'[sess'[s].ref].used /\ ~rounds'[sess'[s].ref].expired)
    <3>1. d = StoreOf(s) /\ (At(s, "mint") => ~Live(sess[s].ref))
      BY <1>4, <2>4, <2>5
    <3>2. rounds \in [Challenges -> Round]
      BY DEF IInv, TypeOK
    <3> QED BY <2>2, <2>3, <2>5, <3>1, <3>2 DEF At, Live, OnlyCloses, Round
  <2>6. ASSUME NEW j \in Intents, sess'[s].ref = table[StoreOf(s)][j]
        PROVE  d = StoreOf(s)
    <3>1. i = j
      BY <1>t, <2>2, <2>3, <2>6, StoreOfType
    <3> QED BY <2>2, <2>3, <2>6, <3>1, StoreOfType DEF SpentInv
  <2> QED BY <1>4, <2>3, <2>4, <2>5, <2>6 DEF CallGoes, At, LatePCs
<1> QED BY <1>1, <1>2, <1>3, <1>4 DEF SpentInv, At, StoreOf, Live

LEMMA SpentNext ==
  ASSUME IInv, SpentInv, [GatewayNext]_gwVars
  PROVE  SpentInv'
<1>t. TypeOK /\ (\A s \in Sessions : SessionOK(s))
  BY DEF IInv
<1>r. ASSUME rounds' = rounds, table' = table, mints' = mints PROVE OnlyCloses
  BY <1>r DEF OnlyCloses
<1>o. \A s, t \in Sessions : s # t /\ Alone(s) => CallGoes(t)
  BY <1>t DEF Alone, CallGoes, TypeOK
<1>1. ASSUME NEW s \in Sessions, NEW i \in Intents, Decide(s, i) PROVE SpentInv'
  <2>a. Alone(s)
    BY <1>t, <1>1 DEF Decide, Return, Alone, TypeOK
  <2>b. sess'[s].pc \notin LatePCs
    <3>1. \/ sess'[s] = IdleSession
          \/ \E pc \in {"count", "open"} : sess'[s] = [IdleSession EXCEPT !.intent = i, !.pc = pc]
      BY <1>t, <1>1 DEF Decide, Return, TypeOK
    <3>2. ASSUME sess'[s] = IdleSession PROVE sess'[s].pc = "idle"
      BY <3>2 DEF IdleSession
    <3>3. ASSUME NEW pc \in {"count", "open"},
                 sess'[s] = [IdleSession EXCEPT !.intent = i, !.pc = pc]
          PROVE  sess'[s].pc = pc
      BY <3>3 DEF IdleSession
    <3> QED BY <3>1, <3>2, <3>3 DEF LatePCs
  <2>1. Alone(s) /\ CallGoes(s)
    BY <2>a, <2>b DEF CallGoes
  <2> QED BY <1>1, <1>r, <1>o, <2>1, SpentKept DEF Decide
<1>2. ASSUME NEW s \in Sessions, NEW i \in Intents, NEW a \in Assertions,
             Submit(s, i, a[1], a[2])
      PROVE  SpentInv'
  <2>a. Alone(s)
    BY <1>t, <1>2 DEF Submit, Return, Alone, TypeOK
  <2>b. sess'[s].pc \notin LatePCs
    <3>1. \/ sess'[s] = IdleSession
          \/ sess'[s] = [IdleSession EXCEPT !.pc = "get", !.op = "submit",
                            !.intent = i, !.by = a[1], !.over = a[2]]
      BY <1>t, <1>2 DEF Submit, Return, TypeOK
    <3>2. ASSUME sess'[s] = IdleSession PROVE sess'[s].pc = "idle"
      BY <3>2 DEF IdleSession
    <3>3. ASSUME sess'[s] = [IdleSession EXCEPT !.pc = "get", !.op = "submit",
                               !.intent = i, !.by = a[1], !.over = a[2]]
          PROVE  sess'[s].pc = "get"
      BY <3>3 DEF IdleSession
    <3> QED BY <3>1, <3>2, <3>3 DEF LatePCs
  <2>1. Alone(s) /\ CallGoes(s)
    BY <2>a, <2>b DEF CallGoes
  <2> QED BY <1>2, <1>r, <1>o, <2>1, SpentKept DEF Submit
<1>3. ASSUME NEW s \in Sessions, CountCalls(s) PROVE SpentInv'
  <2>a. Alone(s)
    BY <1>t, <1>3 DEF CountCalls, Alone, TypeOK
  <2>b. sess'[s].pc \notin LatePCs
    BY <1>t, <1>3 DEF CountCalls, TypeOK, Session, IdleSession, LatePCs
  <2>1. Alone(s) /\ CallGoes(s)
    BY <2>a, <2>b DEF CallGoes
  <2> QED BY <1>3, <1>r, <1>o, <2>1, SpentKept DEF CountCalls
<1>4. ASSUME NEW s \in Sessions, BumpCalls(s) PROVE SpentInv'
  <2>1. Alone(s) /\ CallGoes(s)
    BY <1>t, <1>4 DEF BumpCalls, Return, Alone, CallGoes, TypeOK, IdleSession, LatePCs
  <2> QED BY <1>4, <1>r, <1>o, <2>1, SpentKept DEF BumpCalls
<1>5. ASSUME NEW s \in Sessions, OpenRead(s) PROVE SpentInv'
  <2>a. Alone(s)
    BY <1>t, <1>5 DEF OpenRead, Opened, Goto, Return, Alone, TypeOK
  <2>b. sess'[s].pc \notin LatePCs
    BY <1>t, <1>5 DEF OpenRead, Opened, Goto, Return, TypeOK, Session, IdleSession, LatePCs
  <2>1. Alone(s) /\ CallGoes(s)
    BY <2>a, <2>b DEF CallGoes
  <2> QED BY <1>5, <1>r, <1>o, <2>1, SpentKept DEF OpenRead
<1>6. ASSUME NEW s \in Sessions, Lookup(s) PROVE SpentInv'
  <2>a. Alone(s)
    BY <1>t, <1>6 DEF Lookup, Goto, Alone, TypeOK
  <2>b. sess'[s].pc \notin LatePCs
    BY <1>t, <1>6 DEF Lookup, Goto, TypeOK, Session, IdleSession, LatePCs
  <2>1. Alone(s) /\ CallGoes(s)
    BY <2>a, <2>b DEF CallGoes
  <2> QED BY <1>6, <1>r, <1>o, <2>1, SpentKept DEF Lookup
<1>7. ASSUME NEW s \in Sessions, Check(s) PROVE SpentInv'
  <2>a. Alone(s)
    BY <1>t, <1>7 DEF Check, Goto, Return, Alone, TypeOK
  <2>b. sess'[s].pc \notin LatePCs
    <3>1. \/ sess'[s] = IdleSession
          \/ sess'[s] = [sess[s] EXCEPT !.pc = "drop"]
          \/ sess'[s] = [IdleSession EXCEPT !.pc = "add", !.op = "submit",
                            !.intent = sess[s].intent, !.by = sess[s].by]
      BY <1>t, <1>7 DEF Check, Goto, Return, TypeOK
    <3>2. sess[s] \in Session
      BY <1>t DEF TypeOK
    <3>3. ASSUME sess'[s] = IdleSession PROVE sess'[s].pc = "idle"
      BY <3>3 DEF IdleSession
    <3>4. ASSUME sess'[s] = [sess[s] EXCEPT !.pc = "drop"] PROVE sess'[s].pc = "drop"
      BY <3>2, <3>4 DEF Session
    <3>5. ASSUME sess'[s] = [IdleSession EXCEPT !.pc = "add", !.op = "submit",
                               !.intent = sess[s].intent, !.by = sess[s].by]
          PROVE  sess'[s].pc = "add"
      BY <3>5 DEF IdleSession
    <3> QED BY <3>1, <3>3, <3>4, <3>5 DEF LatePCs
  <2>1. Alone(s) /\ CallGoes(s)
    BY <2>a, <2>b DEF CallGoes
  <2> QED BY <1>7, <1>r, <1>o, <2>1, SpentKept DEF Check
<1>8. ASSUME NEW s \in Sessions, Drop(s) PROVE SpentInv'
  <2>1. Alone(s) /\ CallGoes(s)
    BY <1>t, <1>8 DEF Drop, Return, Alone, CallGoes, TypeOK, IdleSession, LatePCs
  <2>2. sess[s].intent \in Intents
    BY <1>t, <1>8 DEF Drop, SessionOK, At
  <2>3. OnlyCloses
    BY <1>t, <1>8, <2>2, RetiredFlag DEF Drop, OnlyCloses, Retired, TypeOK, Round
  <2> QED BY <1>o, <2>1, <2>3, SpentKept
<1>9. ASSUME NEW s \in Sessions, AddApprover(s) PROVE SpentInv'
  <2> DEFINE i == sess[s].intent
             c == Current(s, i)
  <2>1. i \in Intents /\ c # NoRound /\ c \in Challenges
    BY <1>t, <1>9, StoreOfType DEF AddApprover, SessionOK, At, TypeOK, Current
  <2>2. Alone(s) /\ sess'[s].pc = "tally" /\ sess'[s].ref = c
    BY <1>t, <1>9 DEF AddApprover, Alone, TypeOK, Session
  <2>3. CallGoes(s)
    BY <2>1, <2>2 DEF CallGoes, Current
  <2>4. OnlyCloses
    BY <1>t, <1>9, <2>1 DEF AddApprover, OnlyCloses, TypeOK, Round
  <2> QED BY <1>o, <2>2, <2>3, <2>4, SpentKept
<1>10. ASSUME NEW s \in Sessions, Tally(s) PROVE SpentInv'
  <2> DEFINE i == sess[s].intent
  <2>1. i \in Intents /\ Current(s, i) # NoRound /\ sess[s].pc = "tally"
    BY <1>t, <1>10 DEF Tally, SessionOK, At
  <2>2. Alone(s)
    BY <1>t, <1>10 DEF Tally, Return, Alone, TypeOK
  <2>3. \/ sess'[s].pc = "idle"
        \/ sess'[s].pc = "retire" /\ sess'[s].ref = Current(s, i)
        \/ sess'[s].pc = "retire" /\ sess'[s].ref = sess[s].ref
    BY <1>t, <1>10 DEF Tally, Return, IdleSession, TypeOK, Session
  <2>4. CallGoes(s)
    BY <2>1, <2>3 DEF CallGoes, At, Current, LatePCs
  <2> QED BY <1>10, <1>r, <1>o, <2>2, <2>4, SpentKept DEF Tally
<1>11. ASSUME NEW s \in Sessions, RetireRound(s) PROVE SpentInv'
  <2> DEFINE i == sess[s].intent
             c == sess[s].ref
  <2>1. i \in Intents /\ sess[s].pc = "retire" /\ c # NoRound /\ rounds[c].intent = i
    BY <1>t, <1>11 DEF RetireRound, SessionOK, At
  <2>2. Alone(s) /\ sess'[s].pc = "mint" /\ sess'[s].ref = c
    BY <1>t, <1>11 DEF RetireRound, Goto, Alone, TypeOK, Session
  <2>3. OnlyCloses
    BY <1>t, <1>11, <2>1, RetiredFlag DEF RetireRound, OnlyCloses, Retired, TypeOK, Round
  <2>4. ASSUME NEW j \in Intents, table[StoreOf(s)][j] = c PROVE rounds'[c].used
    <3>1. j = i
      BY <2>1, <2>4, StoreOfType DEF IInv, TableOK
    <3>2. Current(s, i) = c /\ c \in Challenges
      BY <1>t, <2>1, <2>4, <3>1 DEF Current, TypeOK, Session
    <3> QED BY <1>t, <1>11, <2>1, <3>2 DEF RetireRound, Retired, TypeOK, Round
  <2>5. CallGoes(s)
    BY <2>1, <2>2, <2>4 DEF CallGoes, At
  <2> QED BY <1>o, <2>2, <2>3, <2>5, SpentKept
<1>12. ASSUME NEW c \in Challenges, Expire(c) PROVE SpentInv'
  <2>1. OnlyCloses
    BY <1>t, <1>12 DEF Expire, OnlyCloses, TypeOK, Round
  <2>2. \A s \in Sessions : CallGoes(s)
    BY <1>12 DEF Expire, CallGoes
  <2> QED BY <2>1, <2>2, SpentKept
<1>13. ASSUME NEW r \in Replicas, GatewayCrash(r) PROVE SpentInv'
  <2>1. OnlyCloses
    BY <1>t, <1>13 DEF GatewayCrash, OnlyCloses, TypeOK
  <2>2. \A s \in Sessions : CallGoes(s)
    BY <1>13 DEF GatewayCrash, CallGoes, IdleSession, LatePCs
  <2> QED BY <2>1, <2>2, SpentKept
<1>14. ASSUME NEW s \in Sessions, OpenWrite(s) PROVE SpentInv'
  <2> DEFINE i == sess[s].intent
  <2>1. i \in Intents /\ sess[s].pc = "opening" /\ StoreOf(s) \in Stores
    BY <1>t, <1>14, StoreOfType DEF OpenWrite, SessionOK, At
  <2>2. PICK c \in Challenges : /\ rounds[c] = Unissued
                               /\ rounds' = [rounds EXCEPT ![c] = Fresh(s, i)]
                               /\ table' = [table EXCEPT ![StoreOf(s)][i] = c]
    BY <1>14 DEF OpenWrite
  <2>3. /\ rounds[c].intent = NoRound /\ rounds'[c].intent = i /\ NoRound \notin Intents
        /\ \A e \in Challenges \ {c} : rounds'[e] = rounds[e]
        /\ c # NoRound
    BY <1>t, <2>2, GatewayAssumption DEF Unissued, Fresh, TypeOK, GatewayAssumption
  <2>4. mints[c] = 0 /\ mints' = mints
    BY <1>14, <2>3 DEF SpentInv, OpenWrite
  <2>5. ASSUME NEW d \in Stores, NEW j \in Intents
        PROVE  /\ table[d][j] # c /\ table[d][j] \in Challenges \cup {NoRound}
               /\ table'[d][j] # c => table'[d][j] = table[d][j]
               /\ table'[d][j] = c => d = StoreOf(s) /\ j = i
    <3>1. table[d][j] # c /\ table[d][j] \in Challenges \cup {NoRound}
      BY <1>t, <2>3 DEF IInv, TypeOK, TableOK
    <3> QED BY <1>t, <2>1, <2>2, <3>1 DEF TypeOK
  <2>6. ASSUME NEW t \in Sessions, sess'[t].pc \in LatePCs
        PROVE  /\ sess'[t].pc = sess[t].pc /\ sess'[t].ref = sess[t].ref
               /\ sess[t].ref # c /\ sess[t].ref # NoRound
    <3>1. /\ Alone(s)
          /\ \/ sess'[s] = IdleSession
             \/ sess'[s] = [sess[s] EXCEPT !.pc = "reget"]
      BY <1>t, <1>14, OpenedMoves DEF OpenWrite
    <3>2. sess'[s].pc \notin LatePCs
      BY <1>t, <3>1 DEF IdleSession, LatePCs, TypeOK, Session
    <3>3. sess'[t] = sess[t]
      BY <1>t, <2>6, <3>1, <3>2 DEF Alone, TypeOK
    <3>4. rounds[sess[t].ref].intent = sess[t].intent /\ sess[t].ref # NoRound
          /\ sess[t].intent \in Intents
      BY <1>t, <2>6, <3>3 DEF SessionOK, LatePCs, At
    <3> QED BY <2>3, <3>3, <3>4
  <2>7. SpentIsClosed'
    <3>1. ASSUME NEW d \in Stores, NEW j \in Intents, Live(table[d][j])', table'[d][j] # c
          PROVE  mints[table'[d][j]] = 0
      <4>1. table'[d][j] = table[d][j] /\ table[d][j] \in Challenges \ {c}
        BY <2>5, <3>1 DEF Live
      <4>2. Live(table[d][j])
        BY <2>3, <3>1, <4>1 DEF Live
      <4> QED BY <4>1, <4>2 DEF SpentInv, SpentIsClosed
    <3> QED BY <2>4, <3>1 DEF SpentIsClosed
  <2>8. \A e \in Challenges : rounds'[e].intent = NoRound => mints'[e] = 0
    BY <2>1, <2>3, <2>4 DEF SpentInv
  <2>9. ASSUME NEW d \in Stores, NEW e \in Stores, NEW j \in Intents,
               table'[d][j] # NoRound, table'[d][j] = table'[e][j]
        PROVE  d = e
    <3>1. ASSUME table'[d][j] # c PROVE d = e
      <4>1. table'[d][j] = table[d][j] /\ table'[e][j] = table[e][j]
        BY <2>5, <2>9, <3>1
      <4> QED BY <2>9, <4>1 DEF SpentInv
    <3> QED BY <2>5, <2>9, <3>1
  <2>10. ASSUME NEW t \in Sessions, NEW d \in Stores, NEW j \in Intents,
                sess'[t].pc \in LatePCs, table'[d][j] = sess'[t].ref
         PROVE  /\ d = StoreOf(t)
                /\ sess'[t].pc = "mint" =>
                     ~(~rounds'[sess'[t].ref].used /\ ~rounds'[sess'[t].ref].expired)
    <3>1. table[d][j] = sess[t].ref /\ sess[t].pc \in LatePCs /\ sess[t].ref # NoRound
      BY <2>5, <2>6, <2>10
    <3>2. sess[t].ref \in Challenges \ {c}
      BY <2>5, <2>6, <2>10, <3>1
    <3> QED BY <2>3, <2>6, <2>10, <3>1, <3>2 DEF SpentInv, At, Live
  <2> QED BY <2>7, <2>8, <2>9, <2>10 DEF SpentInv, At, StoreOf, Live
<1>15. ASSUME NEW s \in Sessions, Mint(s) PROVE SpentInv'
  <2> DEFINE c == sess[s].ref
  <2>1. sess[s].pc = "mint" /\ c # NoRound /\ rounds[c].intent = sess[s].intent
    BY <1>t, <1>15 DEF Mint, SessionOK, At
  <2>2. /\ rounds' = rounds /\ table' = table /\ mints' = [mints EXCEPT ![c] = @ + 1]
        /\ sess' = [sess EXCEPT ![s] = IdleSession] /\ c \in Challenges
        /\ rounds[c].intent # NoRound
    BY <1>t, <1>15, <2>1, GatewayAssumption
    DEF Mint, Return, TypeOK, Session, SessionOK, At, GatewayAssumption
  <2>3. \A d \in Stores, i \in Intents : table[d][i] = c => ~Live(c)
    BY <2>1 DEF SpentInv, At, LatePCs
  <2>4. SpentIsClosed'
    BY <1>t, <2>2, <2>3 DEF SpentInv, SpentIsClosed, Live, TypeOK
  <2>5. \A e \in Challenges : rounds'[e].intent = NoRound => mints'[e] = 0
    BY <1>t, <2>2 DEF SpentInv, TypeOK
  <2>6. \A t \in Sessions : sess'[t].pc \in LatePCs => sess'[t] = sess[t]
    BY <1>t, <2>2 DEF TypeOK, IdleSession, LatePCs
  <2>7. ASSUME NEW t \in Sessions, NEW d \in Stores, NEW i \in Intents,
               sess'[t].pc \in LatePCs, table'[d][i] = sess'[t].ref
        PROVE  /\ d = StoreOf(t)
               /\ sess'[t].pc = "mint" =>
                    ~(~rounds'[sess'[t].ref].used /\ ~rounds'[sess'[t].ref].expired)
    <3>1. sess[t].pc \in LatePCs /\ table[d][i] = sess[t].ref /\ sess[t].ref # NoRound
      BY <1>t, <2>2, <2>6, <2>7 DEF SessionOK, LatePCs
    <3> QED BY <2>2, <2>6, <2>7, <3>1 DEF SpentInv, At, Live
  <2>8. \A d, e \in Stores, i \in Intents :
          table'[d][i] # NoRound /\ table'[d][i] = table'[e][i] => d = e
    BY <2>2 DEF SpentInv
  <2> HIDE DEF c
  <2> QED BY <2>4, <2>5, <2>7, <2>8 DEF SpentInv, At, StoreOf, Live
<1>16. CASE UNCHANGED gwVars
  BY <1>16, <1>r, SpentKept DEF gwVars, CallGoes
<1> QED
  BY <1>1, <1>2, <1>3, <1>4, <1>5, <1>6, <1>7, <1>8, <1>9, <1>10, <1>11, <1>12, <1>13,
     <1>14, <1>15, <1>16 DEF GatewayNext, GatewayStep

\* Whatever calls overlap or crash, on either store, a round that an approver can still
\* join has authorized nothing.
THEOREM SpentStaysClosed == GatewaySpec => []SpentIsClosed
<1>1. GatewayInit => SpentInv
  BY DEF GatewayInit, SpentInv, SpentIsClosed, Live, IdleSession, LatePCs, Unissued
<1>2. IInv /\ SpentInv /\ [GatewayNext]_gwVars => SpentInv'
  BY SpentNext
<1>3. SpentInv => SpentIsClosed
  BY DEF SpentInv
<1> QED BY <1>1, <1>2, <1>3, SpecIInv, PTL DEF GatewaySpec
====
