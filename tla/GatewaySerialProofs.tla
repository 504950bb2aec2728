------------------------ MODULE GatewaySerialProofs ------------------------
(***************************************************************************)
(* Proofs about Gateway while one call is served at a time: for any        *)
(* intents, policies, rounds and expiries, on either store.                *)
(*                                                                         *)
(* What a call read of its round is then still so when it acts on it       *)
(* (SerialOK), which is all that keeps a round from being minted twice, a  *)
(* signature from counting for another round, an open round from being     *)
(* replaced and the automatic calls within their envelope.                 *)
(***************************************************************************)
EXTENDS GatewayProofs

\* One call is served at a time.
OneCall == \A s, t \in Sessions : s = t

\* What the call relies on, by program point: the round it holds is the current one,
\* as it saw it.
SerialOK(s) ==
  LET now == Current(s, sess[s].intent)
      c == sess[s].ref
  IN  /\ At(s, "opening") => ~Live(now)
      /\ At(s, "check") /\ c # NoRound =>
           /\ c = now
           /\ Durable => /\ sess[s].view.used = rounds[c].used
                         /\ sess[s].view.approvers = rounds[c].approvers
      /\ At(s, "drop") => c \in Challenges /\ c = now /\ rounds[c].expired
      /\ At(s, "add") => ~rounds[now].used /\ <<sess[s].by, now>> \in verified
      /\ sess[s].pc \in {"tally", "retire"} => c = now /\ ~rounds[c].used
      /\ At(s, "mint") => rounds[c].used /\ mints[c] = 0
      /\ sess[s].pc \in {"retire", "mint"} =>
           \A p \in sess[s].view.approvers : <<p, c>> \in verified

MintedUsed == \A c \in Challenges : mints[c] > 0 => rounds[c].used

ApproversSigned == \A c \in Challenges : \A p \in rounds[c].approvers : <<p, c>> \in verified

SerialInv ==
  /\ MintedUsed
  /\ ApproversSigned
  /\ AuthorizedOnce
  /\ SignedThisRound
  /\ \A s \in Sessions : SerialOK(s)

RelyPCs == {"opening", "check", "drop", "add", "tally", "retire", "mint"}

LEMMA SerialFree ==
  ASSUME NEW s, sess'[s].pc \notin RelyPCs
  PROVE  SerialOK(s)'
BY DEF SerialOK, At, RelyPCs

LEMMA SerialInit == GatewayInit => SerialInv
<1> SUFFICES ASSUME GatewayInit PROVE SerialInv
  OBVIOUS
<1>1. \A s \in Sessions : sess[s].pc = "idle"
  BY DEF GatewayInit, IdleSession
<1>2. \A s \in Sessions : SerialOK(s)
  BY <1>1 DEF SerialOK, At
<1>3. MintedUsed /\ ApproversSigned /\ AuthorizedOnce /\ SignedThisRound
  BY DEF GatewayInit, MintedUsed, ApproversSigned, AuthorizedOnce, SignedThisRound, Unissued
<1> QED BY <1>2, <1>3 DEF SerialInv

\* A step that leaves the rounds, the signatures and the capabilities alone.
LEMMA SerialQuiet ==
  ASSUME OneCall, SerialInv, NEW s \in Sessions, SerialOK(s)',
         UNCHANGED <<rounds, verified, grants, mints>>
  PROVE  SerialInv'
<1>1. \A t \in Sessions : SerialOK(t)'
  BY DEF OneCall
<1>2. MintedUsed' /\ ApproversSigned' /\ AuthorizedOnce' /\ SignedThisRound'
  BY DEF SerialInv, MintedUsed, ApproversSigned, AuthorizedOnce, SignedThisRound
<1> QED BY <1>1, <1>2 DEF SerialInv

LEMMA CurrentType ==
  ASSUME IInv, NEW s \in Sessions, NEW i \in Intents
  PROVE  /\ Current(s, i) \in Challenges \cup {NoRound}
         /\ Current(s, i) # NoRound => rounds[Current(s, i)].intent = i
BY StoreOfType DEF IInv, TypeOK, TableOK, Current

\* Where each kind of session update leads.
LEMMA SessTo ==
  ASSUME TypeOK, NEW s \in Sessions, NEW pc \in PCs
  PROVE  /\ Goto(s, pc) => /\ sess'[s].pc = pc /\ sess'[s].intent = sess[s].intent
                           /\ sess'[s].ref = sess[s].ref /\ sess'[s].by = sess[s].by
                           /\ sess'[s].view = sess[s].view /\ sess'[s].count = sess[s].count
         /\ Return(s) => sess'[s].pc = "idle"
BY DEF TypeOK, Goto, Return, Session, IdleSession

LEMMA SerialEarlySteps ==
  ASSUME OneCall, IInv, SerialInv, NEW s \in Sessions,
         \/ \E i \in Intents : Decide(s, i)
         \/ \E i \in Intents, a \in Assertions : Submit(s, i, a[1], a[2])
         \/ CountCalls(s) \/ BumpCalls(s) \/ OpenRead(s)
  PROVE  SerialInv'
<1>t. TypeOK /\ sess[s] \in Session /\ sess \in [Sessions -> Session]
  BY DEF IInv, TypeOK
<1>1. ASSUME NEW i \in Intents, Decide(s, i) PROVE sess'[s].pc \in {"idle", "count", "open"}
  <2>1. IdleSession.pc = "idle" /\ \A pc : [IdleSession EXCEPT !.intent = i, !.pc = pc].pc = pc
    BY DEF IdleSession
  <2> QED BY <1>1, <1>t, <2>1 DEF Decide, Return
<1>2. ASSUME NEW i \in Intents, NEW a \in Assertions, Submit(s, i, a[1], a[2])
      PROVE  sess'[s].pc \in {"idle", "get"}
  <2>1. IdleSession.pc = "idle" /\ [IdleSession EXCEPT !.pc = "get", !.op = "submit",
                          !.intent = i, !.by = a[1], !.over = a[2]].pc = "get"
    BY DEF IdleSession
  <2> QED BY <1>2, <1>t, <2>1 DEF Submit, Return
<1>3. CountCalls(s) => sess'[s].pc \in {"bump", "open"}
  BY <1>t DEF CountCalls, Session
<1>4. BumpCalls(s) => sess'[s].pc = "idle"
  BY <1>t, SessTo DEF BumpCalls, PCs
<1>5. OpenRead(s) => \/ sess'[s].pc \in {"idle", "reget"}
                     \/ /\ sess'[s].pc = "opening" /\ sess'[s].intent = sess[s].intent
                        /\ ~Live(Current(s, sess[s].intent))
  BY <1>t, SessTo DEF OpenRead, Opened, PCs
<1>6. UNCHANGED <<rounds, table, verified, grants, mints>>
  BY DEF Decide, Submit, CountCalls, BumpCalls, OpenRead
<1>7. CASE sess'[s].pc \notin RelyPCs
  BY <1>6, <1>7, SerialFree, SerialQuiet
<1>8. CASE sess'[s].pc \in RelyPCs
  <2>1. /\ sess'[s].pc = "opening" /\ sess'[s].intent = sess[s].intent
        /\ ~Live(Current(s, sess[s].intent))
    BY <1>1, <1>2, <1>3, <1>4, <1>5, <1>8 DEF RelyPCs
  <2>2. SerialOK(s)'
    BY <1>6, <2>1 DEF SerialOK, At, Live, Current, StoreOf
  <2> QED BY <1>6, <2>2, SerialQuiet
<1> QED BY <1>7, <1>8

LEMMA SerialLookupStep ==
  ASSUME OneCall, IInv, SerialInv, NEW s \in Sessions, Lookup(s)
  PROVE  SerialInv'
<1> DEFINE i == sess[s].intent
           c == Current(s, i)
<1>t. TypeOK /\ sess[s] \in Session /\ sess \in [Sessions -> Session] /\ SessionOK(s)
  BY DEF IInv, TypeOK
<1>0. UNCHANGED <<rounds, table, verified, grants, mints>>
  BY DEF Lookup
<1>1. CASE c = NoRound /\ sess[s].pc = "get"
  BY <1>0, <1>1, <1>t, SessTo, SerialFree, SerialQuiet DEF Lookup, At, PCs, RelyPCs
<1>2. CASE c = NoRound /\ sess[s].pc # "get"
  <2>1. sess'[s].pc = "check" /\ sess'[s].ref = sess[s].ref
    BY <1>2, <1>t, SessTo DEF Lookup, At, PCs
  <2>2. sess[s].ref = NoRound
    BY <1>t DEF Lookup, SessionOK, EarlyPCs, At
  <2> QED BY <1>0, <2>1, <2>2, SerialQuiet DEF SerialOK, At
<1>3. CASE c # NoRound
  <2>1. /\ sess'[s].pc = "check" /\ sess'[s].ref = c /\ sess'[s].intent = i
        /\ sess'[s].view = IF Durable THEN rounds[c] ELSE Unissued
    BY <1>3, <1>t DEF Lookup, Session
  <2>2. SerialOK(s)'
    BY <1>0, <2>1 DEF SerialOK, At, Current, StoreOf
  <2> QED BY <1>0, <2>2, SerialQuiet
<1> QED BY <1>1, <1>2, <1>3

LEMMA SerialCheckStep ==
  ASSUME OneCall, IInv, SerialInv, NEW s \in Sessions, Check(s)
  PROVE  SerialInv'
<1> DEFINE c == sess[s].ref
           p == sess[s].by
           S == [IdleSession EXCEPT !.pc = "add", !.op = "submit",
                   !.intent = sess[s].intent, !.by = p]
<1>t. /\ TypeOK /\ sess[s] \in Session /\ sess \in [Sessions -> Session] /\ SessionOK(s)
      /\ SerialOK(s)
  BY DEF IInv, TypeOK, SerialInv
<1>0. UNCHANGED <<rounds, table, grants, mints>> /\ At(s, "check") /\ verified \subseteq verified'
  BY DEF Check
<1>1. MintedUsed' /\ ApproversSigned' /\ AuthorizedOnce' /\ SignedThisRound'
  BY <1>0 DEF SerialInv, MintedUsed, ApproversSigned, AuthorizedOnce, SignedThisRound
<1>2. S.pc = "add" /\ S.intent = sess[s].intent /\ S.by = p
  BY DEF IdleSession
<1>3. ASSUME Return(s) PROVE SerialOK(s)'
  BY <1>3, <1>t, SessTo, SerialFree DEF PCs, RelyPCs
<1>4. ASSUME Goto(s, "drop"), c # NoRound, rounds[c].expired PROVE SerialOK(s)'
  <2>1. sess'[s].pc = "drop" /\ sess'[s].ref = c /\ sess'[s].intent = sess[s].intent
    BY <1>4, <1>t, SessTo DEF PCs
  <2>2. c = Current(s, sess[s].intent) /\ c \in Challenges
    BY <1>0, <1>4, <1>t DEF SerialOK, Session
  <2> QED BY <1>0, <1>4, <2>1, <2>2 DEF SerialOK, At, Current, StoreOf
<1>5. ASSUME c # NoRound, ~Seen(s).used, verified' = verified \cup {<<p, c>>},
             sess' = [sess EXCEPT ![s] = S]
      PROVE  SerialOK(s)'
  <2>1. sess'[s] = S
    BY <1>5, <1>t
  <2>2. c = Current(s, sess[s].intent) /\ ~rounds[c].used
    BY <1>0, <1>5, <1>t DEF SerialOK, Seen
  <2>3. sess'[s].pc = "add" /\ sess'[s].intent = sess[s].intent /\ sess'[s].by = p
    <3> HIDE DEF S
    <3> QED BY <1>2, <2>1
  <2>4. <<p, c>> \in verified'
    BY <1>5
  <2> QED BY <1>0, <2>2, <2>3, <2>4 DEF SerialOK, At, Current, StoreOf
<1>6. SerialOK(s)'
  BY <1>3, <1>4, <1>5 DEF Check
<1> QED BY <1>1, <1>6 DEF SerialInv, OneCall

LEMMA SerialOpenStep ==
  ASSUME OneCall, IInv, SerialInv, NEW s \in Sessions, OpenWrite(s)
  PROVE  SerialInv'
<1> DEFINE i == sess[s].intent
<1>t. TypeOK /\ rounds \in [Challenges -> Round] /\ mints \in [Challenges -> Nat]
  BY DEF IInv, TypeOK
<1>1. PICK c \in Challenges : rounds[c] = Unissued /\ rounds' = [rounds EXCEPT ![c] = Fresh(s, i)]
  BY DEF OpenWrite
<1>2. /\ rounds'[c].used = FALSE /\ rounds'[c].approvers = {}
      /\ \A d \in Challenges : d # c => rounds'[d] = rounds[d]
  BY <1>1, <1>t DEF Fresh, Unissued
<1>3. UNCHANGED <<verified, grants, mints>> /\ sess'[s].pc \in {"idle", "reget"}
  BY <1>t, SessTo DEF OpenWrite, Opened, PCs
<1>4. mints[c] = 0
  BY <1>1, <1>t DEF SerialInv, MintedUsed, Unissued
<1>5. MintedUsed' /\ ApproversSigned' /\ AuthorizedOnce' /\ SignedThisRound'
  BY <1>2, <1>3, <1>4 DEF SerialInv, MintedUsed, ApproversSigned, AuthorizedOnce, SignedThisRound
<1>6. SerialOK(s)'
  BY <1>3, SerialFree DEF RelyPCs
<1> QED BY <1>5, <1>6 DEF SerialInv, OneCall

\* retire closes the current round, and no other.
LEMMA RetiredUsed ==
  ASSUME IInv, NEW s \in Sessions, NEW i \in Intents, rounds' = Retired(s, i)
  PROVE  /\ \A c \in Challenges :
              /\ rounds'[c].expired = rounds[c].expired
              /\ rounds'[c].used = IF c = Current(s, i) THEN TRUE ELSE rounds[c].used
<1> DEFINE d == Current(s, i)
<1>t. rounds \in [Challenges -> Round]
  BY DEF IInv, TypeOK
<1>1. d \in Challenges \cup {NoRound} /\ NoRound \notin Challenges
  BY CurrentType, GatewayAssumption
<1>2. CASE d = NoRound
  BY <1>1, <1>2 DEF Retired
<1>3. CASE d # NoRound
  <2>1. rounds' = [rounds EXCEPT ![d].used = TRUE]
    BY <1>3 DEF Retired
  <2> HIDE DEF d
  <2>2. rounds'[d] = [rounds[d] EXCEPT !.used = TRUE] /\ rounds[d] \in Round
        /\ \A c \in Challenges : c # d => rounds'[c] = rounds[c]
    BY <1>1, <1>3, <1>t, <2>1
  <2>3. rounds'[d].used = TRUE /\ rounds'[d].expired = rounds[d].expired
    BY <2>2 DEF Round
  <2>4. \A c \in Challenges :
          /\ rounds'[c].expired = rounds[c].expired
          /\ rounds'[c].used = IF c = d THEN TRUE ELSE rounds[c].used
    BY <2>2, <2>3
  <2> QED BY <2>4 DEF d
<1> QED BY <1>2, <1>3

\* Rounds that are closed stay minted at most once.
LEMMA ClosedKept ==
  ASSUME SerialInv, UNCHANGED <<verified, grants, mints>>,
         \A c \in Challenges : /\ rounds'[c].approvers = rounds[c].approvers
                               /\ rounds[c].used => rounds'[c].used
  PROVE  MintedUsed' /\ ApproversSigned' /\ AuthorizedOnce' /\ SignedThisRound'
BY DEF SerialInv, MintedUsed, ApproversSigned, AuthorizedOnce, SignedThisRound

LEMMA SerialRetireStep ==
  ASSUME OneCall, IInv, SerialInv, NEW s \in Sessions, Drop(s) \/ RetireRound(s)
  PROVE  SerialInv'
<1> DEFINE i == sess[s].intent
           c == sess[s].ref
<1>t. TypeOK /\ SessionOK(s) /\ SerialOK(s) /\ mints \in [Challenges -> Nat] /\ sess[s] \in Session
  BY DEF IInv, TypeOK, SerialInv
<1>1. i \in Intents /\ rounds' = Retired(s, i) /\ UNCHANGED <<table, verified, grants, mints>>
  BY <1>t DEF Drop, RetireRound, SessionOK, At
<1>2. \A d \in Challenges : rounds'[d].used = IF d = Current(s, i) THEN TRUE ELSE rounds[d].used
  BY <1>1, RetiredUsed
<1>3. \A d \in Challenges : rounds'[d].approvers = rounds[d].approvers
  BY <1>1, RetiredFlag
<1>4. MintedUsed' /\ ApproversSigned' /\ AuthorizedOnce' /\ SignedThisRound'
  BY <1>1, <1>2, <1>3, ClosedKept
<1>5. CASE Drop(s)
  <2>1. SerialOK(s)'
    BY <1>5, <1>t, SessTo, SerialFree DEF Drop, PCs, RelyPCs
  <2> QED BY <1>4, <2>1 DEF SerialInv, OneCall
<1>6. CASE RetireRound(s)
  <2>1. /\ sess'[s].pc = "mint" /\ sess'[s].ref = c /\ sess'[s].view = sess[s].view
        /\ At(s, "retire")
    BY <1>6, <1>t, SessTo DEF RetireRound, PCs
  <2>2. /\ c \in Challenges /\ c = Current(s, i) /\ ~rounds[c].used
        /\ \A p \in sess[s].view.approvers : <<p, c>> \in verified
    BY <2>1, <1>t DEF SessionOK, SerialOK, At, Session
  <2>3. rounds'[c].used /\ mints[c] = 0
    <3>1. mints[c] \in Nat /\ ~(mints[c] > 0)
      BY <1>t, <2>2 DEF SerialInv, MintedUsed
    <3>2. rounds'[c].used = TRUE
      BY <1>2, <2>2
    <3> QED BY <3>1, <3>2
  <2>4. SerialOK(s)'
    BY <1>1, <2>1, <2>2, <2>3 DEF SerialOK, At
  <2> QED BY <1>4, <2>4 DEF SerialInv, OneCall
<1> QED BY <1>5, <1>6

LEMMA SerialAddStep ==
  ASSUME OneCall, IInv, SerialInv, NEW s \in Sessions, AddApprover(s)
  PROVE  SerialInv'
<1> DEFINE i == sess[s].intent
           c == Current(s, i)
           p == sess[s].by
<1>t. /\ rounds \in [Challenges -> Round] /\ SessionOK(s) /\ SerialOK(s) /\ sess[s] \in Session
      /\ sess \in [Sessions -> Session]
  BY DEF IInv, TypeOK, SerialInv
<1>1. /\ At(s, "add") /\ rounds' = [rounds EXCEPT ![c].approvers = @ \cup {p}]
      /\ sess' = [sess EXCEPT ![s].pc = "tally", ![s].ref = c, ![s].by = NoOne]
      /\ UNCHANGED <<table, verified, grants, mints>>
  BY DEF AddApprover
<1>2. c \in Challenges /\ ~rounds[c].used /\ <<p, c>> \in verified
  BY <1>1, <1>t, CurrentType DEF SessionOK, SerialOK, At
<1>3. sess'[s].pc = "tally" /\ sess'[s].ref = c /\ sess'[s].intent = i
  BY <1>1, <1>t DEF Session
<1>4. Current(s, i)' = c
  BY <1>1, <1>3 DEF Current, StoreOf
<1> HIDE DEF c, p
<1>5. /\ rounds'[c].approvers = rounds[c].approvers \cup {p} /\ rounds'[c].used = rounds[c].used
      /\ \A d \in Challenges : d # c => rounds'[d] = rounds[d]
  BY <1>1, <1>2, <1>t DEF Round
<1>6. MintedUsed' /\ ApproversSigned' /\ AuthorizedOnce' /\ SignedThisRound'
  BY <1>1, <1>2, <1>5
  DEF SerialInv, MintedUsed, ApproversSigned, AuthorizedOnce, SignedThisRound
<1>7. SerialOK(s)'
  BY <1>2, <1>3, <1>4, <1>5 DEF SerialOK, At
<1> QED BY <1>6, <1>7 DEF SerialInv, OneCall

LEMMA SerialTallyStep ==
  ASSUME OneCall, IInv, SerialInv, NEW s \in Sessions, Tally(s)
  PROVE  SerialInv'
<1> DEFINE i == sess[s].intent
           c == sess[s].ref
<1>t. /\ TypeOK /\ SessionOK(s) /\ SerialOK(s) /\ sess[s] \in Session
      /\ sess \in [Sessions -> Session]
  BY DEF IInv, TypeOK, SerialInv
<1>1. UNCHANGED <<rounds, table, verified, grants, mints>> /\ At(s, "tally")
  BY DEF Tally
<1>2. c \in Challenges /\ c = Current(s, i) /\ ~rounds[c].used
  BY <1>1, <1>t DEF SessionOK, SerialOK, At, Session
<1>3. CASE Return(s)
  BY <1>1, <1>3, <1>t, SessTo, SerialFree, SerialQuiet DEF PCs, RelyPCs
<1>4. CASE sess' = [sess EXCEPT ![s].pc = "retire", ![s].ref = c, ![s].view = rounds[c]]
  <2>1. /\ sess'[s].pc = "retire" /\ sess'[s].ref = c /\ sess'[s].intent = i
        /\ sess'[s].view.approvers = rounds[c].approvers
    BY <1>4, <1>t DEF Session
  <2>2. \A p \in rounds[c].approvers : <<p, c>> \in verified
    BY <1>2 DEF SerialInv, ApproversSigned
  <2>3. SerialOK(s)'
    BY <1>1, <1>2, <2>1, <2>2 DEF SerialOK, At, Current, StoreOf
  <2> QED BY <1>1, <2>3, SerialQuiet
<1> QED BY <1>2, <1>3, <1>4 DEF Tally

LEMMA SerialMintStep ==
  ASSUME OneCall, IInv, SerialInv, NEW s \in Sessions, Mint(s)
  PROVE  SerialInv'
<1> DEFINE c == sess[s].ref
           g == [intent |-> sess[s].intent, round |-> c, approvers |-> sess[s].view.approvers]
<1>t. /\ TypeOK /\ SessionOK(s) /\ SerialOK(s) /\ sess[s] \in Session
      /\ mints \in [Challenges -> Nat]
  BY DEF IInv, TypeOK, SerialInv
<1>1. /\ At(s, "mint") /\ grants' = grants \cup {g} /\ mints' = [mints EXCEPT ![c] = @ + 1]
      /\ Return(s) /\ UNCHANGED <<rounds, verified>>
  BY DEF Mint
<1>2. /\ c \in Challenges /\ rounds[c].used /\ mints[c] = 0
      /\ \A p \in sess[s].view.approvers : <<p, c>> \in verified
  BY <1>1, <1>t DEF SessionOK, SerialOK, At, Session
<1>3. g.approvers = sess[s].view.approvers /\ g.round = c
  OBVIOUS
<1> HIDE DEF c, g
<1>4. mints'[c] = 1 /\ \A d \in Challenges : d # c => mints'[d] = mints[d]
  BY <1>1, <1>2, <1>t
<1>5. MintedUsed' /\ AuthorizedOnce' /\ ApproversSigned'
  BY <1>1, <1>2, <1>4 DEF SerialInv, MintedUsed, AuthorizedOnce, ApproversSigned
<1>6. SignedThisRound'
  BY <1>1, <1>2, <1>3 DEF SerialInv, SignedThisRound
<1>7. SerialOK(s)'
  BY <1>1, <1>t, SessTo, SerialFree DEF PCs, RelyPCs
<1> QED BY <1>5, <1>6, <1>7 DEF SerialInv, OneCall

\* What an expiry leaves of the rounds.
LEMMA ExpiryOnly ==
  ASSUME IInv, NEW c \in Challenges, Expire(c), NEW d \in Challenges
  PROVE  /\ rounds'[d].intent = rounds[d].intent /\ rounds'[d].approvers = rounds[d].approvers
         /\ rounds'[d].used = rounds[d].used /\ (rounds[d].expired => rounds'[d].expired)
BY DEF IInv, TypeOK, Expire, Round

LEMMA SerialExpireStep ==
  ASSUME OneCall, IInv, SerialInv, NEW c \in Challenges, Expire(c)
  PROVE  SerialInv'
<1>1. UNCHANGED <<table, sess, verified, grants, mints>>
  BY DEF Expire
<1>2. MintedUsed' /\ ApproversSigned' /\ AuthorizedOnce' /\ SignedThisRound'
  BY <1>1, ExpiryOnly, ClosedKept
<1>3. ASSUME NEW s \in Sessions PROVE SerialOK(s)'
  <2> DEFINE i == sess[s].intent
             now == Current(s, i)
  <2>t. SessionOK(s) /\ SerialOK(s) /\ sess[s] \in Session
    BY DEF IInv, TypeOK, SerialInv
  <2>1. sess[s].pc # "idle" => i \in Intents
    BY <2>t DEF SessionOK, At
  <2>2. sess[s].pc # "idle" => now \in Challenges \cup {NoRound}
    BY <2>1, CurrentType
  <2>3. sess[s].ref \in Challenges \cup {NoRound} /\ NoRound \notin Challenges
    BY <2>t, GatewayAssumption DEF Session
  <2>4. Current(s, i)' = now
    BY <1>1 DEF Current, StoreOf
  <2>5. At(s, "add") => now # NoRound
    BY <2>t DEF SessionOK
  <2>6. sess[s].pc \in {"tally", "retire", "mint"} => sess[s].ref # NoRound
    BY <2>t DEF SessionOK
  <2>8. \A d \in Challenges :
          /\ rounds'[d].approvers = rounds[d].approvers /\ rounds'[d].used = rounds[d].used
          /\ rounds[d].expired => rounds'[d].expired
    BY ExpiryOnly
  <2>7. At(s, "opening") => now = NoRound \/ rounds'[now].used \/ rounds'[now].expired
    BY <2>t, <2>2, <2>8 DEF SerialOK, At, Live
  <2>9. /\ At(s, "check") /\ sess[s].ref # NoRound =>
             /\ sess[s].ref = now
             /\ Durable => /\ sess[s].view.used = rounds'[sess[s].ref].used
                           /\ sess[s].view.approvers = rounds'[sess[s].ref].approvers
        /\ At(s, "drop") => sess[s].ref = now /\ rounds'[sess[s].ref].expired
                            /\ sess[s].ref \in Challenges
        /\ At(s, "mint") => rounds'[sess[s].ref].used
        /\ sess[s].pc \in {"tally", "retire"} => sess[s].ref = now /\ ~rounds'[sess[s].ref].used
    BY <2>t, <2>3, <2>6, <2>8 DEF SerialOK, At
  <2>10. At(s, "add") => ~rounds'[now].used
    BY <2>t, <2>2, <2>5, <2>8 DEF SerialOK, At
  <2> HIDE DEF now
  <2>11. /\ sess[s].pc \in {"retire", "mint"} =>
              \A p \in sess[s].view.approvers : <<p, sess[s].ref>> \in verified
         /\ At(s, "mint") => mints[sess[s].ref] = 0
         /\ At(s, "add") => <<sess[s].by, now>> \in verified
    BY <2>t DEF SerialOK, At, now
  <2>12. sess'[s] = sess[s] /\ UNCHANGED <<verified, mints>>
         /\ Current(s, sess[s].intent)' = now
    BY <1>1, <2>4
  <2> QED BY <2>7, <2>9, <2>10, <2>11, <2>12 DEF SerialOK, At, Live
<1> QED BY <1>2, <1>3 DEF SerialInv

LEMMA SerialCrashStep ==
  ASSUME OneCall, IInv, SerialInv, NEW r \in Replicas, GatewayCrash(r)
  PROVE  SerialInv'
<1>1. UNCHANGED <<rounds, verified, grants, mints>>
  BY DEF GatewayCrash
<1>2. MintedUsed' /\ ApproversSigned' /\ AuthorizedOnce' /\ SignedThisRound'
  BY <1>1, ClosedKept
<1>3. ASSUME NEW s \in Sessions, Home[s] = r PROVE SerialOK(s)'
  <2>1. sess'[s].pc = "idle"
    BY <1>3 DEF GatewayCrash, IdleSession
  <2> QED BY <2>1, SerialFree DEF RelyPCs
<1>4. ASSUME NEW s \in Sessions, Home[s] # r PROVE SerialOK(s)'
  <2>1. sess'[s] = sess[s] /\ SerialOK(s) /\ SessionOK(s)
    BY <1>4 DEF GatewayCrash, SerialInv, IInv
  <2>2. table'[StoreOf(s)] = table[StoreOf(s)]
    BY <1>4, StoreOfType DEF GatewayCrash, StoreOf, IInv, TypeOK
  <2>3. \A i : Current(s, i)' = Current(s, i)
    BY <2>2 DEF Current, StoreOf
  <2> QED BY <1>1, <2>1, <2>3 DEF SerialOK, At, Live
<1> QED BY <1>2, <1>3, <1>4 DEF SerialInv

LEMMA SerialNext ==
  ASSUME OneCall, IInv, SerialInv, [GatewayNext]_gwVars
  PROVE  SerialInv'
<1>1. CASE UNCHANGED gwVars
  BY <1>1 DEF gwVars, SerialInv, MintedUsed, ApproversSigned, AuthorizedOnce, SignedThisRound,
     SerialOK, At, Live, Current, StoreOf
<1>2. ASSUME NEW s \in Sessions, GatewayStep(s) PROVE SerialInv'
  BY <1>2, SerialEarlySteps, SerialOpenStep, SerialLookupStep, SerialCheckStep,
     SerialRetireStep, SerialAddStep, SerialTallyStep, SerialMintStep DEF GatewayStep
<1>3. ASSUME NEW s \in Sessions,
             \/ \E i \in Intents : Decide(s, i)
             \/ \E i \in Intents, a \in Assertions : Submit(s, i, a[1], a[2])
      PROVE  SerialInv'
  BY <1>3, SerialEarlySteps
<1> QED BY <1>1, <1>2, <1>3, SerialExpireStep, SerialCrashStep DEF GatewayNext

LEMMA SerialAlways ==
  ASSUME OneCall
  PROVE  GatewaySpec => []SerialInv
<1>1. IInv /\ SerialInv /\ [GatewayNext]_gwVars => SerialInv'
  BY SerialNext
<1> QED BY <1>1, SerialInit, SpecIInv, PTL DEF GatewaySpec

\* With one call at a time, an approval round is minted at most once, even if the
\* process dies anywhere between the quorum and the capability.
THEOREM MintedAtMostOnce ==
  ASSUME OneCall
  PROVE  GatewaySpec => []AuthorizedOnce
BY SerialAlways, PTL DEF SerialInv

\* With one call at a time, every approver a capability rests on signed the challenge of
\* that capability's round.
THEOREM ConsentNotCarriedOver ==
  ASSUME OneCall
  PROVE  GatewaySpec => []SignedThisRound
BY SerialAlways, PTL DEF SerialInv

-----------------------------------------------------------------------------
(* Rounds are closed for cause, and open ones are kept *)

\* A step that closes no round and mints nothing, of a call that is not about to mint.
LEMMA CauseKept ==
  ASSUME RetiredForCause, mints' = mints,
         \A c \in Challenges : /\ rounds'[c].used => rounds[c].used
                               /\ rounds[c].expired => rounds'[c].expired,
         \A t \in Sessions : At(t, "mint") => sess'[t] = sess[t]
  PROVE  RetiredForCause'
BY DEF RetiredForCause, At

LEMMA CauseStep ==
  ASSUME OneCall, ~MayCrash, IInv, SerialInv, RetiredForCause, [GatewayNext]_gwVars
  PROVE  RetiredForCause'
<1>t. TypeOK /\ rounds \in [Challenges -> Round]
  BY DEF IInv, TypeOK
<1>1. CASE UNCHANGED gwVars
  BY <1>1 DEF gwVars, RetiredForCause, At
<1>2. ASSUME NEW s \in Sessions, ~At(s, "mint"), mints' = mints,
             \A c \in Challenges : /\ rounds'[c].used => rounds[c].used
                                   /\ rounds[c].expired => rounds'[c].expired
      PROVE  RetiredForCause'
  <2>1. \A t \in Sessions : At(t, "mint") => sess'[t] = sess[t]
    BY <1>2 DEF OneCall, At
  <2> QED BY <1>2, <2>1, CauseKept
<1>3. ASSUME NEW s \in Sessions,
             \/ \E i \in Intents : Decide(s, i)
             \/ \E i \in Intents, a \in Assertions : Submit(s, i, a[1], a[2])
             \/ CountCalls(s) \/ BumpCalls(s) \/ OpenRead(s) \/ Lookup(s) \/ Check(s) \/ Tally(s)
      PROVE  RetiredForCause'
  <2>1. UNCHANGED <<rounds, mints>> /\ ~At(s, "mint")
    BY <1>3 DEF Decide, Submit, CountCalls, BumpCalls, OpenRead, Lookup, Check, Tally, At
  <2> QED BY <1>2, <2>1
<1>4. ASSUME NEW s \in Sessions, OpenWrite(s) PROVE RetiredForCause'
  <2>1. mints' = mints /\ ~At(s, "mint")
    BY <1>4 DEF OpenWrite, At
  <2>2. \A c \in Challenges : /\ rounds'[c].used => rounds[c].used
                              /\ rounds[c].expired => rounds'[c].expired
    BY <1>4, <1>t DEF OpenWrite, Fresh, Unissued
  <2> QED BY <1>2, <2>1, <2>2
<1>5. ASSUME NEW s \in Sessions, AddApprover(s) PROVE RetiredForCause'
  <2>1. mints' = mints /\ ~At(s, "mint")
    BY <1>5 DEF AddApprover, At
  <2>2. \A c \in Challenges : /\ rounds'[c].used => rounds[c].used
                              /\ rounds[c].expired => rounds'[c].expired
    BY <1>5, <1>t DEF AddApprover, Round
  <2> QED BY <1>2, <2>1, <2>2
<1>6. ASSUME NEW s \in Sessions, Drop(s) \/ RetireRound(s) PROVE RetiredForCause'
  <2> DEFINE i == sess[s].intent
             c == sess[s].ref
  <2>t. SessionOK(s) /\ SerialOK(s)
    BY DEF IInv, SerialInv
  <2>1. /\ rounds' = Retired(s, i) /\ mints' = mints /\ i \in Intents /\ c = Current(s, i)
        /\ ~At(s, "mint")
    BY <1>6, <2>t DEF Drop, RetireRound, SessionOK, SerialOK, At
  <2>0. \A d \in Challenges :
          /\ rounds'[d].expired = rounds[d].expired
          /\ rounds'[d].used = IF d = Current(s, i) THEN TRUE ELSE rounds[d].used
    BY <2>1, RetiredUsed
  <2>2. \A d \in Challenges :
          /\ rounds'[d].expired = rounds[d].expired
          /\ rounds'[d].used = IF d = c THEN TRUE ELSE rounds[d].used
    <3> HIDE DEF c, i
    <3> QED BY <2>0, <2>1
  <2>3. rounds[c].expired \/ (sess'[s].pc = "mint" /\ sess'[s].ref = c)
    BY <1>6, <1>t, <2>t, SessTo DEF Drop, RetireRound, SerialOK, At, PCs
  <2>4. \A t \in Sessions : ~At(t, "mint")
    BY <2>1 DEF OneCall
  <2> HIDE DEF c, i
  <2>5. \A d \in Challenges : rounds'[d].used =>
          \/ rounds[d].used \/ rounds'[d].expired
          \/ At(s, "mint")' /\ (sess[s].ref)' = d
    BY <2>2, <2>3 DEF At
  <2> QED BY <2>1, <2>2, <2>4, <2>5 DEF RetiredForCause
<1>7. ASSUME NEW s \in Sessions, Mint(s) PROVE RetiredForCause'
  <2>1. /\ rounds' = rounds /\ mints' = [mints EXCEPT ![sess[s].ref] = @ + 1]
        /\ mints \in [Challenges -> Nat] /\ \A t \in Sessions : t = s
    BY <1>7 DEF Mint, IInv, TypeOK, OneCall
  <2> QED BY <2>1 DEF RetiredForCause
<1>8. ASSUME NEW c \in Challenges, Expire(c) PROVE RetiredForCause'
  <2>1. UNCHANGED <<sess, mints>>
    BY <1>8 DEF Expire
  <2> QED BY <1>8, <2>1, ExpiryOnly, CauseKept
<1>9. ~(\E r \in Replicas : GatewayCrash(r))
  BY DEF GatewayCrash
<1> QED BY <1>1, <1>3, <1>4, <1>5, <1>6, <1>7, <1>8, <1>9 DEF GatewayNext, GatewayStep

\* With one call at a time and no crash, a round is closed only because it ran out or
\* because its capability is minted.
THEOREM ClosedForCause ==
  ASSUME OneCall, ~MayCrash
  PROVE  GatewaySpec => []RetiredForCause
<1>1. GatewayInit => RetiredForCause
  BY DEF GatewayInit, RetiredForCause, Unissued
<1>2. IInv /\ SerialInv /\ RetiredForCause /\ [GatewayNext]_gwVars => RetiredForCause'
  BY CauseStep
<1> QED BY <1>1, <1>2, SerialAlways, SpecIInv, PTL DEF GatewaySpec

-----------------------------------------------------------------------------
(* Automatic calls *)

\* The counter of the call's replica is what the ledger shows, and a call that was let
\* through has it still.
AutoInv ==
  /\ BoundedAuto
  /\ \A s \in Sessions :
       /\ \A a \in Actions : calls[Home[s]][a] = autos[a]
       /\ At(s, "bump") =>
            /\ sess[s].count = calls[Home[s]][sess[s].intent.action_id]
            /\ within(Bounds[sess[s].intent.action_id], sess[s].intent.amount, sess[s].count)

LEMMA AutoStep ==
  ASSUME OneCall, ~MayCrash, IInv, AutoInv, [GatewayNext]_gwVars
  PROVE  AutoInv'
<1>t. /\ TypeOK /\ calls \in [Replicas -> [Actions -> Nat]] /\ autos \in [Actions -> Nat]
      /\ sess \in [Sessions -> Session]
  BY DEF IInv, TypeOK
<1>1. ASSUME UNCHANGED <<calls, autos>>,
             \A s \in Sessions : sess'[s].pc # "bump" \/ sess'[s] = sess[s]
      PROVE  AutoInv'
  BY <1>1 DEF AutoInv, BoundedAuto, At
<1>2. CASE UNCHANGED gwVars
  BY <1>1, <1>2 DEF gwVars
<1>3. ASSUME NEW s \in Sessions, BumpCalls(s) PROVE AutoInv'
  <2> DEFINE a == sess[s].intent.action_id
             r == Home[s]
  <2>1. /\ a \in Actions /\ r \in Replicas
        /\ calls' = [calls EXCEPT ![r][a] = sess[s].count + 1]
        /\ autos' = [autos EXCEPT ![a] = @ + 1] /\ sess'[s].pc = "idle"
    BY <1>3, <1>t, StoreOfType, SessTo DEF BumpCalls, IInv, SessionOK, At, Known, PCs
  <2>2. /\ sess[s].count = calls[r][a] /\ calls[r][a] = autos[a]
        /\ within(Bounds[a], sess[s].intent.amount, sess[s].count)
    BY <1>3, <2>1 DEF AutoInv, BumpCalls, At
  <2> HIDE DEF a, r
  <2>3. Bounds[a].max_calls # None => autos'[a] <= Bounds[a].max_calls
    <3>1. Bounds[a].max_calls \in Nat \cup {None} /\ None = -1 /\ autos[a] \in Nat
      BY <2>1, <1>t, GatewayAssumption DEF None
    <3>2. Bounds[a].max_calls # None => autos[a] < Bounds[a].max_calls
      BY <2>2 DEF within
    <3> QED BY <2>1, <3>1, <3>2, <1>t
  <2>4. BoundedAuto'
    BY <2>1, <2>3, <1>t DEF AutoInv, BoundedAuto
  <2>5. \A b \in Actions : calls'[r][b] = autos'[b]
    BY <2>1, <2>2, <1>t DEF AutoInv, r
  <2> QED BY <2>1, <2>4, <2>5 DEF AutoInv, OneCall, At, r
<1>4. ASSUME NEW s \in Sessions, CountCalls(s) PROVE AutoInv'
  <2> DEFINE i == sess[s].intent
             n == calls[Home[s]][i.action_id]
  <2>1. UNCHANGED <<calls, autos>>
    BY <1>4 DEF CountCalls
  <2>2. /\ sess'[s].intent = i /\ sess'[s].count = n
        /\ sess'[s].pc = "bump" => within(Bounds[i.action_id], i.amount, n)
    BY <1>4, <1>t DEF CountCalls, Session
  <2> QED BY <2>1, <2>2 DEF AutoInv, BoundedAuto, OneCall, At
<1>5. ASSUME NEW s \in Sessions,
             \/ \E i \in Intents : Decide(s, i)
             \/ \E i \in Intents, a \in Assertions : Submit(s, i, a[1], a[2])
             \/ OpenRead(s) \/ OpenWrite(s) \/ Lookup(s) \/ Check(s) \/ Drop(s)
             \/ AddApprover(s) \/ Tally(s) \/ RetireRound(s) \/ Mint(s)
      PROVE  AutoInv'
  <2>1. UNCHANGED <<calls, autos>>
    BY <1>5 DEF Decide, Submit, OpenRead, OpenWrite, Lookup, Check, Drop, AddApprover, Tally,
       RetireRound, Mint
  <2>2. sess'[s].pc # "bump"
    <3>2. ASSUME NEW i \in Intents, Decide(s, i) PROVE sess'[s].pc # "bump"
      <4>1. IdleSession.pc = "idle" /\ \A pc : [IdleSession EXCEPT !.intent = i, !.pc = pc].pc = pc
        BY DEF IdleSession
      <4> QED BY <3>2, <1>t, <4>1 DEF Decide, Return
    <3>3. ASSUME NEW i \in Intents, NEW a \in Assertions, Submit(s, i, a[1], a[2])
          PROVE  sess'[s].pc # "bump"
      <4>1. IdleSession.pc = "idle" /\ [IdleSession EXCEPT !.pc = "get", !.op = "submit",
                              !.intent = i, !.by = a[1], !.over = a[2]].pc = "get"
        BY DEF IdleSession
      <4> QED BY <3>3, <1>t, <4>1 DEF Submit, Return
    <3>8. CASE Check(s)
      <4>1. [IdleSession EXCEPT !.pc = "add", !.op = "submit",
               !.intent = sess[s].intent, !.by = sess[s].by].pc = "add"
        BY DEF IdleSession
      <4>2. Return(s) => sess'[s].pc = "idle"
        BY <1>t, SessTo DEF PCs
      <4>3. Goto(s, "drop") => sess'[s].pc = "drop"
        BY <1>t, SessTo DEF PCs
      <4> QED BY <3>8, <1>t, <4>1, <4>2, <4>3 DEF Check
    <3>4. CASE OpenRead(s) \/ OpenWrite(s) \/ Drop(s) \/ RetireRound(s) \/ Mint(s)
      BY <3>4, <1>t, SessTo DEF OpenRead, OpenWrite, Opened, Drop, RetireRound, Mint, PCs
    <3>5. CASE Lookup(s)
      BY <3>5, <1>t, SessTo DEF Lookup, Session, PCs
    <3>6. CASE AddApprover(s)
      BY <3>6, <1>t DEF AddApprover, Session
    <3>7. CASE Tally(s)
      BY <3>7, <1>t, SessTo DEF Tally, Session, PCs
    <3> QED BY <1>5, <3>2, <3>3, <3>4, <3>5, <3>6, <3>7, <3>8
  <2> QED BY <1>1, <2>1, <2>2 DEF OneCall
<1>6. ASSUME NEW c \in Challenges, Expire(c) PROVE AutoInv'
  BY <1>1, <1>6 DEF Expire
<1>7. ~(\E r \in Replicas : GatewayCrash(r))
  BY DEF GatewayCrash
<1> QED BY <1>2, <1>3, <1>4, <1>5, <1>6, <1>7 DEF GatewayNext, GatewayStep

\* With one call at a time and no restart, the ledger never shows more automatic
\* authorizations of a bounded action than its envelope allows.
THEOREM EnvelopeKept ==
  ASSUME OneCall, ~MayCrash
  PROVE  GatewaySpec => []BoundedAuto
<1>1. GatewayInit => AutoInv
  <2> SUFFICES ASSUME GatewayInit PROVE AutoInv
    OBVIOUS
  <2>1. \A s \in Sessions : ~At(s, "bump") /\ \A a \in Actions : calls[Home[s]][a] = autos[a]
    BY StoreOfType DEF GatewayInit, IdleSession, At
  <2>2. BoundedAuto
    BY GatewayAssumption DEF GatewayInit, BoundedAuto, None
  <2> QED BY <2>1, <2>2 DEF AutoInv
<1>2. IInv /\ AutoInv /\ [GatewayNext]_gwVars => AutoInv'
  BY AutoStep
<1>3. AutoInv => BoundedAuto
  BY DEF AutoInv
<1> QED BY <1>1, <1>2, <1>3, SpecIInv, PTL DEF GatewaySpec
=============================================================================
