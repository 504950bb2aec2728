---------------------------- MODULE Credentials ----------------------------
(***************************************************************************)
(* Who may sign: enrollment of passkeys (server/service.py,                *)
(* gateway/enrollment.py, PgCredentialStore) and the check of an assertion *)
(* against them (gateway/webauthn_verifier.py).                            *)
(*                                                                         *)
(* Enrollment challenges are kept by each server process, per company and  *)
(* principal; credentials in Postgres or, without it, by each process too, *)
(* and per principal only: the companies share them.  Whoever calls names  *)
(* the company and the principal himself.  A verification reads the        *)
(* credential, has the assertion checked and then stores the new sign      *)
(* count, and several run at once.  The cryptography (package webauthn)    *)
(* and the authenticators are not part of the repository: a key signs what *)
(* it is asked to, counting its signatures or not, and a copied            *)
(* authenticator counts on its own.                                        *)
(***************************************************************************)
EXTENDS Naturals, FiniteSets

CONSTANTS
  Companies,    \* companies of the service
  Principals,   \* who enrolls
  Keys,         \* passkeys; each is made in one registration
  Devices,      \* authenticators
  KeyOf,        \* device -> its key; two devices of one key are copies
  Counting,     \* devices that count their signatures
  Processes,    \* server processes
  Sessions,     \* request threads
  Home,         \* session -> its process
  Durable,      \* credentials are kept in Postgres
  Challenges,   \* enrollment challenges that may be drawn
  MaxCount,     \* bound: signatures of a device, and a new key's sign count
  None          \* nothing there

ASSUME CredentialAssumption ==
  /\ KeyOf \in [Devices -> Keys] /\ Counting \subseteq Devices
  /\ Home \in [Sessions -> Processes]
  /\ Durable \in BOOLEAN /\ MaxCount \in Nat
  /\ None \notin Keys \cup Principals \cup (Companies \X Principals)
  /\ None \notin [principal : Principals, sign_count : Nat, via : Challenges]

\* f"{company}:{principal}"
Applicants == Companies \X Principals

VARIABLES
  issued,   \* challenge -> the applicant it was drawn for
  made,     \* key -> the challenge its registration answers
  birth,    \* key -> the sign count in its registration
  pending,  \* process -> applicant -> enrollment challenge (_enroll_challenges)
  creds,    \* store -> key -> enrolled credential
  signed,   \* device -> signatures made
  sess,     \* session -> the request it serves
  top,      \* key -> highest sign count accepted so far
  raced     \* keys of which two verifications overlapped

credVars == <<issued, made, birth, pending, creds, signed, sess, top, raced>>

Postgres == "postgres"
Stores == IF Durable THEN {Postgres} ELSE Processes
StoreAt(s) == IF Durable THEN Postgres ELSE Home[s]

\* via: the registration's challenge, kept for the properties only.
Credential(p, n, c) == [principal |-> p, sign_count |-> n, via |-> c]

IdleRequest ==
  [pc |-> "idle", by |-> None, key |-> None, count |-> 0, expected |-> None, seen |-> 0]
Serving(s, pc) == sess[s].pc = pc
Done(s) == sess' = [sess EXCEPT ![s] = IdleRequest]
Accept(k, n) == top' = [top EXCEPT ![k] = IF @ < n THEN n ELSE @]

CredInit ==
  /\ issued = [c \in Challenges |-> None]
  /\ made = [k \in Keys |-> None] /\ birth = [k \in Keys |-> 0]
  /\ pending = [r \in Processes |-> [a \in Applicants |-> None]]
  /\ creds = [st \in Stores |-> [k \in Keys |-> None]]
  /\ signed = [d \in Devices |-> 0]
  /\ sess = [s \in Sessions |-> IdleRequest]
  /\ top = [k \in Keys |-> 0] /\ raced = {}

-----------------------------------------------------------------------------
(* Enrollment *)

\* A variant: one challenge for the whole process.
EnrollOptionsShared(r, a, c) ==
  /\ issued[c] = None
  /\ issued' = [issued EXCEPT ![c] = a]
  /\ pending' = [pending EXCEPT ![r] = c]
  /\ UNCHANGED <<made, birth, creds, signed, sess, top, raced>>

\* enroll_options: a new challenge, in place of one requested before.
EnrollOptions(r, a, c) ==
  /\ issued[c] = None
  /\ issued' = [issued EXCEPT ![c] = a]
  /\ pending' = [pending EXCEPT ![r][a] = c]
  /\ UNCHANGED <<made, birth, creds, signed, sess, top, raced>>

\* The browser has a new key made for the challenge it was given; an authenticator
\* that counts may have counted before.
Create(k, c, n) ==
  /\ made[k] = None /\ issued[c] # None
  /\ n > 0 => \E d \in Counting : KeyOf[d] = k
  /\ made' = [made EXCEPT ![k] = c]
  /\ birth' = [birth EXCEPT ![k] = n]
  /\ UNCHANGED <<issued, pending, creds, signed, sess, top, raced>>

\* Variants: the challenge stays until somebody asks for another one; the one of any
\* applicant will do.
EnrollVerifyKeeping(s, a, k) ==
  LET c == pending[Home[s]][a]
  IN  /\ Serving(s, "idle") /\ made[k] # None /\ c # None
      /\ sess' = [sess EXCEPT ![s] = [IdleRequest EXCEPT !.pc = "enroll", !.by = a[2],
                                        !.key = k, !.expected = c]]
      /\ UNCHANGED <<issued, made, birth, pending, creds, signed, top, raced>>
EnrollVerifyAnyones(s, a, k) ==
  \E b \in Applicants : LET c == pending[Home[s]][b]
    IN  /\ Serving(s, "idle") /\ made[k] # None /\ c # None
        /\ pending' = [pending EXCEPT ![Home[s]][b] = None]
        /\ sess' = [sess EXCEPT ![s] = [IdleRequest EXCEPT !.pc = "enroll", !.by = a[2],
                                          !.key = k, !.expected = c]]
        /\ UNCHANGED <<issued, made, birth, creds, signed, top, raced>>

\* enroll_verify takes the challenge of the applicant the request names out before it
\* looks at the answer; without one it raises.  Any answer arrives at any process, in
\* anybody's name, and more than once.
EnrollVerify(s, a, k) ==
  LET c == pending[Home[s]][a]
  IN  /\ Serving(s, "idle") /\ made[k] # None /\ c # None
      /\ pending' = [pending EXCEPT ![Home[s]][a] = None]
      /\ sess' = [sess EXCEPT ![s] = [IdleRequest EXCEPT !.pc = "enroll", !.by = a[2],
                                        !.key = k, !.expected = c]]
      /\ UNCHANGED <<issued, made, birth, creds, signed, top, raced>>

\* enroll_registration: the key is stored for whom the request names, with the count
\* of its registration, if it answers the expected challenge.
EnrollRegistration(s) ==
  LET k == sess[s].key
  IN  /\ Serving(s, "enroll")
      /\ IF made[k] = sess[s].expected
           THEN /\ creds' = [creds EXCEPT ![StoreAt(s)][k] =
                                Credential(sess[s].by, birth[k], made[k])]
                /\ Accept(k, birth[k])
           ELSE UNCHANGED <<creds, top>>
      /\ Done(s)
      /\ UNCHANGED <<issued, made, birth, pending, signed, raced>>

-----------------------------------------------------------------------------
(* WebAuthnVerifier.verify *)

Verifying(k) == {s \in Sessions : sess[s].key = k /\ sess[s].pc \in {"check", "update"}}

\* The device signs, and its assertion arrives: the credential is read.
Get(s, d) ==
  LET k == KeyOf[d]
      n == IF d \in Counting THEN birth[k] + signed[d] + 1 ELSE 0
  IN  /\ Serving(s, "idle") /\ creds[StoreAt(s)][k] # None
      /\ signed[d] < MaxCount
      /\ signed' = [signed EXCEPT ![d] = @ + 1]
      /\ sess' = [sess EXCEPT ![s] = [IdleRequest EXCEPT !.pc = "check", !.key = k, !.count = n,
                                        !.seen = creds[StoreAt(s)][k].sign_count]]
      /\ raced' = IF Verifying(k) # {} THEN raced \cup {k} ELSE raced
      /\ UNCHANGED <<issued, made, birth, pending, creds, top>>

\* In memory the credential is shared, and its count is read at the check.
SignCount(s) ==
  IF Durable \/ creds[StoreAt(s)][sess[s].key] = None THEN sess[s].seen
  ELSE creds[StoreAt(s)][sess[s].key].sign_count

\* verify_authentication_response: a count must rise, where there is one.
CountRejected(count, current) == (count > 0 \/ current > 0) /\ count <= current

Check(s) ==
  /\ Serving(s, "check")
  /\ IF CountRejected(sess[s].count, SignCount(s)) THEN Done(s)
     ELSE sess' = [sess EXCEPT ![s].pc = "update"]
  /\ UNCHANGED <<issued, made, birth, pending, creds, signed, top, raced>>

\* A variant: the count is not stored.
UpdateSignCountNot(s) ==
  /\ Serving(s, "update")
  /\ Accept(sess[s].key, sess[s].count)
  /\ Done(s)
  /\ UNCHANGED <<issued, made, birth, pending, creds, signed, raced>>

\* update_sign_count; the approver is then taken as verified.
UpdateSignCount(s) ==
  LET k == sess[s].key
      st == StoreAt(s)
  IN  /\ Serving(s, "update")
      /\ creds' = IF creds[st][k] = None THEN creds
                  ELSE [creds EXCEPT ![st][k].sign_count = sess[s].count]
      /\ Accept(k, sess[s].count)
      /\ Done(s)
      /\ UNCHANGED <<issued, made, birth, pending, signed, raced>>

\* A process dies with its requests, its challenges and, without Postgres, its
\* credentials.
ProcessDies(r) ==
  /\ pending' = [pending EXCEPT ![r] = [a \in Applicants |-> None]]
  /\ sess' = [s \in Sessions |-> IF Home[s] = r THEN IdleRequest ELSE sess[s]]
  /\ creds' = IF Durable THEN creds ELSE [creds EXCEPT ![r] = [k \in Keys |-> None]]
  /\ UNCHANGED <<issued, made, birth, signed, top, raced>>

CredNext ==
  \/ \E r \in Processes, a \in Applicants, c \in Challenges : EnrollOptions(r, a, c)
  \/ \E k \in Keys, c \in Challenges, n \in 0..MaxCount : Create(k, c, n)
  \/ \E s \in Sessions, a \in Applicants, k \in Keys : EnrollVerify(s, a, k)
  \/ \E s \in Sessions, d \in Devices : Get(s, d)
  \/ \E s \in Sessions : EnrollRegistration(s) \/ Check(s) \/ UpdateSignCount(s)
  \/ \E r \in Processes : ProcessDies(r)

CredSpec == CredInit /\ [][CredNext]_credVars

-----------------------------------------------------------------------------
(* Properties *)

MaybeChallenge == Challenges \cup {None}

\* The types of the credential state.
CredTypeOK ==
  /\ issued \in [Challenges -> Applicants \cup {None}]
  /\ made \in [Keys -> MaybeChallenge] /\ birth \in [Keys -> Nat]
  /\ pending \in [Processes -> [Applicants -> MaybeChallenge]]
  /\ creds \in [Stores -> [Keys ->
       [principal : Principals, sign_count : Nat, via : Challenges] \cup {None}]]
  /\ signed \in [Devices -> 0..MaxCount]
  /\ sess \in [Sessions ->
       [pc : {"idle", "enroll", "check", "update"}, by : Principals \cup {None},
        key : Keys \cup {None}, count : Nat, expected : MaybeChallenge, seen : Nat]]
  /\ top \in [Keys -> Nat] /\ raced \subseteq Keys

\* A credential is enrolled for the principal to whom the challenge it answers was
\* given, and no challenge enrolls two of them, whatever requests overlap, arrive
\* twice, at another process or in another's name: the name a request gives finds
\* only a challenge drawn for it (service.py 150-165, enrollment.py 40-55).
EnrolledByCeremony ==
  \A st \in Stores, k \in Keys : creds[st][k] # None =>
    /\ creds[st][k].via = made[k] /\ creds[st][k].principal = issued[made[k]][2]
    /\ \A other \in Stores, l \in Keys :
         creds[other][l] # None /\ creds[other][l].via = creds[st][k].via => l = k

\* "Monotonically increasing sign count (clone detection)" (enrollment.py 6): of a
\* key whose verifications do not overlap, no assertion is accepted whose count is
\* not above all accepted before, so a copy that lags behind is noticed, at every
\* process that shares the store.
CountsRise ==
  [][\A s \in Sessions : Check(s) /\ sess'[s].pc = "update" /\ sess[s].key \notin raced =>
       \/ sess[s].count > top[sess[s].key]
       \/ sess[s].count = 0 /\ top[sess[s].key] = 0]_credVars
=============================================================================
