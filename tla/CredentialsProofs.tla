------------------------- MODULE CredentialsProofs -------------------------
(***************************************************************************)
(* For any principals, keys, devices, processes and requests, and for      *)
(* either store, a credential is enrolled only in the ceremony of its own  *)
(* principal; with the shared store the sign counts that are accepted of a *)
(* key whose verifications do not overlap rise.                            *)
(***************************************************************************)
EXTENDS Credentials, TLAPS

Record == [principal : Principals, sign_count : Nat, via : Challenges]
SessType ==
  [pc : {"idle", "enroll", "check", "update"}, by : Principals \cup {None},
   key : Keys \cup {None}, count : Nat, expected : MaybeChallenge, seen : Nat]
Enrolling(s) == sess[s].pc = "enroll"

\* A key is made for a challenge that somebody was given.
MadeOK == \A k \in Keys : made[k] # None => made[k] \in Challenges /\ issued[made[k]] # None

\* A challenge waits at one process at most, for the applicant it was given to.
PendingOK ==
  /\ \A r \in Processes, p \in Applicants : pending[r][p] # None =>
       pending[r][p] \in Challenges /\ issued[pending[r][p]] = p
  /\ \A q, r \in Processes, o, p \in Applicants :
       pending[q][o] = pending[r][p] /\ pending[r][p] # None => q = r

\* A request works on a key, and one that enrolls took its challenge, which was drawn
\* for the principal it names, for itself.
RequestOK ==
  \A s \in Sessions :
    /\ sess[s].pc # "idle" => sess[s].key \in Keys
    /\ Enrolling(s) =>
         /\ made[sess[s].key] # None
         /\ sess[s].expected \in Challenges /\ sess[s].expected # None
         /\ issued[sess[s].expected] # None
         /\ sess[s].by \in Principals /\ issued[sess[s].expected][2] = sess[s].by
         /\ \A r \in Processes, p \in Applicants : pending[r][p] # sess[s].expected
         /\ \A t \in Sessions : Enrolling(t) /\ sess[t].expected = sess[s].expected => t = s

\* A stored credential answers its challenge, which nobody can use again.
StoredOK ==
  /\ \A st \in Stores, k \in Keys : creds[st][k] # None =>
       /\ made[k] # None /\ creds[st][k].via = made[k]
       /\ creds[st][k].principal = issued[made[k]][2]
       /\ \A r \in Processes, p \in Applicants : pending[r][p] # made[k]
       /\ \A s \in Sessions : Enrolling(s) => sess[s].expected # made[k]
  /\ \A st, other \in Stores, k, l \in Keys :
       creds[st][k] # None /\ creds[other][l] # None /\ made[k] = made[l] => k = l

CeremonyInv == CredTypeOK /\ MadeOK /\ PendingOK /\ RequestOK /\ StoredOK

-----------------------------------------------------------------------------

LEMMA StoreOfSession == ASSUME NEW s \in Sessions PROVE StoreAt(s) \in Stores
BY CredentialAssumption DEF StoreAt, Stores, Postgres

LEMMA CeremonyInit == CredInit => CeremonyInv
<1> SUFFICES ASSUME CredInit PROVE CeremonyInv
  OBVIOUS
<1> USE DEF CredInit
<1>1. CredTypeOK
  BY CredentialAssumption DEF CredTypeOK, MaybeChallenge, IdleRequest
<1>2. MadeOK /\ PendingOK
  BY DEF MadeOK, PendingOK
<1>3. RequestOK
  BY DEF RequestOK, Enrolling, IdleRequest
<1>4. StoredOK
  BY DEF StoredOK
<1> QED BY <1>1, <1>2, <1>3, <1>4 DEF CeremonyInv

\* A challenge that is drawn now was never in use.
LEMMA EnrollOptionsStep ==
  ASSUME CeremonyInv, NEW r \in Processes, NEW p \in Applicants, NEW c \in Challenges,
         EnrollOptions(r, p, c)
  PROVE  CeremonyInv'
<1>0. /\ issued[c] = None /\ issued' = [issued EXCEPT ![c] = p]
      /\ pending' = [pending EXCEPT ![r][p] = c]
      /\ UNCHANGED <<made, birth, creds, signed, sess, top, raced>>
  BY DEF EnrollOptions
<1>t. CredTypeOK
  BY DEF CeremonyInv
<1>n. None \notin Applicants
  BY CredentialAssumption DEF Applicants
<1>1. CredTypeOK'
  BY <1>0, <1>t DEF CredTypeOK, MaybeChallenge
<1>i. \A d \in Challenges : issued'[d] = IF d = c THEN p ELSE issued[d]
  BY <1>0, <1>t DEF CredTypeOK
<1>2. MadeOK'
  BY <1>0, <1>i, <1>n DEF CeremonyInv, MadeOK
<1>p. \A q \in Processes, o \in Applicants :
        pending'[q][o] = IF q = r /\ o = p THEN c ELSE pending[q][o]
  BY <1>0, <1>t DEF CredTypeOK
<1>f. \A q \in Processes, o \in Applicants : pending[q][o] # None => pending[q][o] # c
  BY <1>0, <1>n DEF CeremonyInv, PendingOK
<1>3. PendingOK'
  BY <1>p, <1>f, <1>i DEF CeremonyInv, PendingOK
<1>4. RequestOK'
  BY <1>0, <1>p, <1>i, <1>n DEF CeremonyInv, RequestOK, Enrolling
<1>5. StoredOK'
  BY <1>0, <1>p, <1>i, <1>n DEF CeremonyInv, StoredOK, Enrolling, Stores, MadeOK
<1> QED BY <1>1, <1>2, <1>3, <1>4, <1>5 DEF CeremonyInv

\* A key of its own is made for every registration.
LEMMA CreateStep ==
  ASSUME CeremonyInv, NEW k \in Keys, NEW c \in Challenges, NEW n \in Nat, Create(k, c, n)
  PROVE  CeremonyInv'
<1>0. /\ made[k] = None /\ issued[c] # None /\ made' = [made EXCEPT ![k] = c]
      /\ birth' = [birth EXCEPT ![k] = n]
      /\ UNCHANGED <<issued, pending, creds, signed, sess, top, raced>>
  BY DEF Create
<1>t. CredTypeOK
  BY DEF CeremonyInv
<1>1. CredTypeOK'
  BY <1>0, <1>t DEF CredTypeOK, MaybeChallenge
<1>m. \A l \in Keys : made'[l] = IF l = k THEN c ELSE made[l]
  BY <1>0, <1>t DEF CredTypeOK
<1>2. MadeOK' /\ PendingOK'
  BY <1>0, <1>m DEF CeremonyInv, MadeOK, PendingOK
<1>3. RequestOK'
  BY <1>0, <1>m DEF CeremonyInv, RequestOK, Enrolling
<1>4. StoredOK'
  BY <1>0, <1>m DEF CeremonyInv, StoredOK, Enrolling, Stores
<1> QED BY <1>1, <1>2, <1>3, <1>4 DEF CeremonyInv

\* Taking the challenge out of the process leaves it to this request alone.
LEMMA EnrollVerifyStep ==
  ASSUME CeremonyInv, NEW s \in Sessions, NEW p \in Applicants, NEW k \in Keys,
         EnrollVerify(s, p, k)
  PROVE  CeremonyInv'
<1> DEFINE c == pending[Home[s]][p]
<1>0. /\ made[k] # None /\ c # None
      /\ pending' = [pending EXCEPT ![Home[s]][p] = None]
      /\ sess' = [sess EXCEPT ![s] = [IdleRequest EXCEPT !.pc = "enroll", !.by = p[2],
                                        !.key = k, !.expected = c]]
      /\ UNCHANGED <<issued, made, birth, creds, signed, top, raced>>
  BY DEF EnrollVerify
<1>t. CredTypeOK
  BY DEF CeremonyInv
<1>h. /\ Home[s] \in Processes /\ p[2] \in Principals
      /\ c \in Challenges /\ issued[c] = p /\ issued[c] # None
  <2>1. Home[s] \in Processes /\ p[2] \in Principals /\ p # None
    BY CredentialAssumption DEF Applicants
  <2> QED BY <2>1, <1>0 DEF CeremonyInv, PendingOK
<1>p. \A q \in Processes, o \in Applicants :
        pending'[q][o] = IF q = Home[s] /\ o = p THEN None ELSE pending[q][o]
  BY <1>0, <1>h, <1>t DEF CredTypeOK
<1>s. /\ \A t \in Sessions \ {s} : sess'[t] = sess[t]
      /\ sess'[s].pc = "enroll" /\ sess'[s].key = k /\ sess'[s].expected = c
      /\ sess'[s].by = p[2]
  BY <1>0, <1>t DEF CredTypeOK, IdleRequest
<1>1. CredTypeOK'
  <2>1. sess' \in [Sessions -> SessType]
    BY <1>0, <1>h, <1>t DEF CredTypeOK, SessType, MaybeChallenge, IdleRequest
  <2>2. pending' \in [Processes -> [Applicants -> MaybeChallenge]]
    BY <1>0, <1>h, <1>t DEF CredTypeOK, MaybeChallenge
  <2> QED BY <1>0, <2>1, <2>2, <1>t DEF CredTypeOK, SessType
<1>2. MadeOK'
  BY <1>0 DEF CeremonyInv, MadeOK
<1>3. PendingOK'
  BY <1>0, <1>p DEF CeremonyInv, PendingOK
<1>u. \A q \in Processes, o \in Applicants : pending'[q][o] # c
  BY <1>0, <1>h, <1>p DEF CeremonyInv, PendingOK
<1>4. RequestOK'
  <2>1. \A t \in Sessions : Enrolling(t) => sess[t].expected # c
    BY <1>h DEF CeremonyInv, RequestOK
  <2>2. ASSUME NEW t \in Sessions \ {s}, Enrolling(t)
        PROVE  /\ \A q \in Processes, o \in Applicants : pending'[q][o] # sess[t].expected
               /\ \A u \in Sessions : Enrolling(u)' /\ sess'[u].expected = sess[t].expected => u = t
    BY <2>1, <2>2, <1>p, <1>s DEF CeremonyInv, RequestOK, Enrolling
  <2>3. \A u \in Sessions : Enrolling(u)' /\ sess'[u].expected = c => u = s
    BY <2>1, <1>s DEF Enrolling
  <2>4. /\ made'[k] # None /\ c \in Challenges /\ c # None /\ issued'[c] # None
        /\ p[2] \in Principals /\ issued'[c][2] = p[2]
        /\ \A l : made'[l] = made[l] /\ issued'[l] = issued[l]
    BY <1>0, <1>h
  <2>5. \A t \in Sessions \ {s} :
          /\ sess[t].pc # "idle" => sess[t].key \in Keys
          /\ Enrolling(t) => /\ made[sess[t].key] # None
                             /\ sess[t].expected \in Challenges /\ sess[t].expected # None
                             /\ issued[sess[t].expected] # None
                             /\ sess[t].by \in Principals
                             /\ issued[sess[t].expected][2] = sess[t].by
    BY DEF CeremonyInv, RequestOK
  <2> QED BY <2>2, <2>3, <2>4, <2>5, <1>s, <1>u DEF RequestOK, Enrolling
<1>5. StoredOK'
  BY <1>0, <1>h, <1>p, <1>s DEF CeremonyInv, StoredOK, Enrolling, Stores, MadeOK
<1> QED BY <1>1, <1>2, <1>3, <1>4, <1>5 DEF CeremonyInv

\* The request's challenge is spent with it, whether or not the key answers it.
LEMMA EnrollRegistrationStep ==
  ASSUME CeremonyInv, NEW s \in Sessions, EnrollRegistration(s)
  PROVE  CeremonyInv'
<1> DEFINE k == sess[s].key
           st == StoreAt(s)
<1>0. /\ Enrolling(s)
      /\ creds' = IF made[k] = sess[s].expected
                    THEN [creds EXCEPT ![st][k] = Credential(sess[s].by, birth[k], made[k])]
                    ELSE creds
      /\ top' = IF made[k] = sess[s].expected
                  THEN [top EXCEPT ![k] = IF @ < birth[k] THEN birth[k] ELSE @] ELSE top
      /\ sess' = [sess EXCEPT ![s] = IdleRequest]
      /\ UNCHANGED <<issued, made, birth, pending, signed, raced>>
  BY DEF EnrollRegistration, Serving, Done, Enrolling, Accept
<1>t. CredTypeOK
  BY DEF CeremonyInv
<1>h. k \in Keys /\ st \in Stores
  BY <1>0, StoreOfSession DEF CeremonyInv, RequestOK, Enrolling
<1>s. /\ \A t \in Sessions \ {s} : sess'[t] = sess[t]
      /\ sess'[s] = IdleRequest
  BY <1>0, <1>t DEF CredTypeOK
<1>m. /\ made[k] # None => made[k] \in Challenges
      /\ sess[s].by \in Principals /\ issued[sess[s].expected][2] = sess[s].by
      /\ birth[k] \in Nat /\ top[k] \in Nat
  BY <1>0, <1>h, <1>t DEF CeremonyInv, MadeOK, RequestOK, CredTypeOK
<1>c. \A other \in Stores, l \in Keys :
        creds'[other][l] = IF other = st /\ l = k /\ made[k] = sess[s].expected
                             THEN Credential(sess[s].by, birth[k], made[k]) ELSE creds[other][l]
  BY <1>0, <1>h, <1>t DEF CredTypeOK
<1>1. CredTypeOK'
  <2>1. sess' \in [Sessions -> SessType]
    BY <1>0, <1>t DEF CredTypeOK, SessType, MaybeChallenge, IdleRequest
  <2>2. made[k] # None
    BY <1>0, <1>h DEF CeremonyInv, RequestOK, Enrolling
  <2>3. Credential(sess[s].by, birth[k], made[k]) \in Record
    BY <1>m, <2>2 DEF Credential, Record
  <2>4. creds' \in [Stores -> [Keys -> Record \cup {None}]]
    BY <1>0, <1>h, <2>3, <1>t DEF CredTypeOK, Record
  <2>5. top' \in [Keys -> Nat]
    BY <1>0, <1>h, <1>m, <1>t DEF CredTypeOK
  <2> QED BY <1>0, <2>1, <2>4, <2>5, <1>t DEF CredTypeOK, SessType, Record, MaybeChallenge
<1>2. MadeOK' /\ PendingOK'
  BY <1>0 DEF CeremonyInv, MadeOK, PendingOK
<1>3. RequestOK'
  BY <1>0, <1>s DEF CeremonyInv, RequestOK, Enrolling, IdleRequest
<1>4. StoredOK'
  <2> SUFFICES ASSUME made[k] = sess[s].expected
               PROVE  StoredOK'
    <3> SUFFICES ASSUME made[k] # sess[s].expected PROVE StoredOK'
      OBVIOUS
    <3>1. creds' = creds
      BY <1>0
    <3> QED BY <3>1, <1>0, <1>s DEF CeremonyInv, StoredOK, Enrolling, IdleRequest
  <2>1. /\ made[k] # None
        /\ \A r \in Processes, p \in Applicants : pending[r][p] # made[k]
        /\ \A t \in Sessions : Enrolling(t) /\ sess[t].expected = made[k] => t = s
    BY <1>0 DEF CeremonyInv, RequestOK, Enrolling
  <2>2. \A other \in Stores, l \in Keys : creds[other][l] # None => made[l] # made[k]
    BY <1>0 DEF CeremonyInv, StoredOK
  <2>3. /\ Credential(sess[s].by, birth[k], made[k]).via = made[k]
        /\ Credential(sess[s].by, birth[k], made[k]).principal = issued[made[k]][2]
    BY <1>m DEF Credential
  <2>4. \A other \in Stores, l \in Keys : creds'[other][l] # None =>
          /\ creds[other][l] # None \/ (other = st /\ l = k)
          /\ made[l] # None /\ creds'[other][l].via = made[l]
          /\ creds'[other][l].principal = issued[made[l]][2]
    BY <1>c, <2>1, <2>3 DEF CeremonyInv, StoredOK
  <2>5. \A other \in Stores, l \in Keys : creds'[other][l] # None =>
          /\ \A r \in Processes, p \in Applicants : pending[r][p] # made[l]
          /\ \A t \in Sessions : Enrolling(t)' => sess'[t].expected # made[l]
    BY <2>4, <2>1, <1>s DEF CeremonyInv, StoredOK, Enrolling, IdleRequest
  <2>6. \A a, b \in Stores, x, y \in Keys :
          creds'[a][x] # None /\ creds'[b][y] # None /\ made[x] = made[y] => x = y
    BY <2>4, <2>2 DEF CeremonyInv, StoredOK
  <2> QED BY <1>0, <2>4, <2>5, <2>6 DEF StoredOK, Stores, Enrolling
<1> QED BY <1>1, <1>2, <1>3, <1>4 DEF CeremonyInv

\* A step that gives no request a challenge, and stores no credential anew, keeps
\* the ceremonies apart.
LEMMA NoCeremony ==
  ASSUME CeremonyInv, CredTypeOK', UNCHANGED <<issued, made>>,
         \A r \in Processes, p \in Applicants : pending'[r][p] \in {pending[r][p], None},
         \A s \in Sessions :
           /\ sess'[s].pc # "idle" => sess'[s].key \in Keys
           /\ Enrolling(s)' => sess'[s] = sess[s],
         \A st \in Stores, k \in Keys : creds'[st][k] # None =>
           /\ creds[st][k] # None
           /\ creds'[st][k].via = creds[st][k].via
           /\ creds'[st][k].principal = creds[st][k].principal
  PROVE  CeremonyInv'
<1>1. MadeOK'
  BY DEF CeremonyInv, MadeOK
<1>2. PendingOK'
  BY DEF CeremonyInv, PendingOK
<1>3. RequestOK'
  BY DEF CeremonyInv, RequestOK, Enrolling
<1>4. StoredOK'
  BY DEF CeremonyInv, StoredOK, Enrolling, Stores
<1> QED BY <1>1, <1>2, <1>3, <1>4 DEF CeremonyInv

LEMMA GetStep ==
  ASSUME CeremonyInv, NEW s \in Sessions, NEW d \in Devices, Get(s, d)
  PROVE  CeremonyInv'
<1> DEFINE k == KeyOf[d]
           n == IF d \in Counting THEN birth[k] + signed[d] + 1 ELSE 0
<1>0. /\ creds[StoreAt(s)][k] # None /\ signed[d] < MaxCount
      /\ signed' = [signed EXCEPT ![d] = @ + 1]
      /\ sess' = [sess EXCEPT ![s] = [IdleRequest EXCEPT !.pc = "check", !.key = k, !.count = n,
                                        !.seen = creds[StoreAt(s)][k].sign_count]]
      /\ raced' = IF Verifying(k) # {} THEN raced \cup {k} ELSE raced
      /\ UNCHANGED <<issued, made, birth, pending, creds, top>>
  BY DEF Get
<1>t. CredTypeOK
  BY DEF CeremonyInv
<1>h. k \in Keys /\ StoreAt(s) \in Stores
  BY StoreOfSession, CredentialAssumption
<1>n. n \in Nat /\ creds[StoreAt(s)][k].sign_count \in Nat
  BY <1>0, <1>h, <1>t DEF CredTypeOK
<1>1. CredTypeOK'
  <2>1. sess' \in [Sessions -> SessType]
    BY <1>0, <1>h, <1>n, <1>t DEF CredTypeOK, SessType, MaybeChallenge, IdleRequest
  <2>2. signed' \in [Devices -> 0..MaxCount]
    BY <1>0, <1>t, CredentialAssumption DEF CredTypeOK
  <2>3. raced' \subseteq Keys
    BY <1>0, <1>h, <1>t DEF CredTypeOK
  <2> QED BY <1>0, <2>1, <2>2, <2>3, <1>t DEF CredTypeOK, SessType, MaybeChallenge
<1>s. /\ \A t \in Sessions \ {s} : sess'[t] = sess[t]
      /\ sess'[s].pc = "check" /\ sess'[s].key = k
  BY <1>0, <1>t DEF CredTypeOK, IdleRequest
<1>2. \A t \in Sessions :
        /\ sess'[t].pc # "idle" => sess'[t].key \in Keys
        /\ Enrolling(t)' => sess'[t] = sess[t]
  BY <1>s, <1>h DEF CeremonyInv, RequestOK, Enrolling
<1> QED BY <1>0, <1>1, <1>2, NoCeremony

LEMMA CheckStep ==
  ASSUME CeremonyInv, NEW s \in Sessions, Check(s)
  PROVE  CeremonyInv'
<1>0. /\ sess[s].pc = "check"
      /\ sess' \in {[sess EXCEPT ![s] = IdleRequest], [sess EXCEPT ![s].pc = "update"]}
      /\ UNCHANGED <<issued, made, birth, pending, creds, signed, top, raced>>
  BY DEF Check, Serving, Done
<1>t. CredTypeOK
  BY DEF CeremonyInv
<1>1. CredTypeOK'
  <2>t. sess \in [Sessions -> SessType]
    BY <1>t DEF CredTypeOK, SessType
  <2>1. IdleRequest \in SessType
    BY DEF IdleRequest, SessType, MaybeChallenge
  <2>2. [sess[s] EXCEPT !.pc = "update"] \in SessType
    BY <2>t DEF SessType
  <2>3. sess' \in [Sessions -> SessType]
    BY <1>0, <2>t, <2>1, <2>2
  <2> QED BY <1>0, <2>3, <1>t DEF CredTypeOK, SessType
<1>2. \A t \in Sessions :
        /\ sess'[t].pc # "idle" => sess'[t].key \in Keys
        /\ Enrolling(t)' => sess'[t] = sess[t]
  <2>1. \A t \in Sessions \ {s} : sess'[t] = sess[t]
    BY <1>0, <1>t DEF CredTypeOK
  <2>2. sess'[s].pc = "idle" \/ (sess'[s].pc = "update" /\ sess'[s].key = sess[s].key)
    BY <1>0, <1>t DEF CredTypeOK, IdleRequest
  <2>3. \A t \in Sessions : sess[t].pc # "idle" => sess[t].key \in Keys
    BY DEF CeremonyInv, RequestOK
  <2> QED BY <1>0, <2>1, <2>2, <2>3 DEF Enrolling
<1> QED BY <1>0, <1>1, <1>2, NoCeremony

LEMMA UpdateSignCountStep ==
  ASSUME CeremonyInv, NEW s \in Sessions, UpdateSignCount(s)
  PROVE  CeremonyInv'
<1> DEFINE k == sess[s].key
           st == StoreAt(s)
<1>0. /\ sess[s].pc = "update"
      /\ creds' = IF creds[st][k] = None THEN creds
                  ELSE [creds EXCEPT ![st][k].sign_count = sess[s].count]
      /\ top' = [top EXCEPT ![k] = IF @ < sess[s].count THEN sess[s].count ELSE @]
      /\ sess' = [sess EXCEPT ![s] = IdleRequest]
      /\ UNCHANGED <<issued, made, birth, pending, signed, raced>>
  BY DEF UpdateSignCount, Serving, Done, Accept
<1>t. CredTypeOK
  BY DEF CeremonyInv
<1>h. k \in Keys /\ st \in Stores /\ sess[s].count \in Nat
  BY <1>0, <1>t, StoreOfSession DEF CeremonyInv, RequestOK, CredTypeOK
<1>c. \A other \in Stores, l \in Keys :
        creds'[other][l] = IF other = st /\ l = k /\ creds[st][k] # None
                             THEN [creds[st][k] EXCEPT !.sign_count = sess[s].count]
                             ELSE creds[other][l]
  BY <1>0, <1>h, <1>t DEF CredTypeOK
<1>r. creds[st][k] # None =>
        /\ [creds[st][k] EXCEPT !.sign_count = sess[s].count] \in Record
        /\ [creds[st][k] EXCEPT !.sign_count = sess[s].count].via = creds[st][k].via
        /\ [creds[st][k] EXCEPT !.sign_count = sess[s].count].principal = creds[st][k].principal
  <2>1. creds[st][k] # None => creds[st][k] \in Record
    BY <1>h, <1>t DEF CredTypeOK, Record
  <2> QED BY <2>1, <1>h DEF Record
<1>1. CredTypeOK'
  <2>1. sess' \in [Sessions -> SessType]
    BY <1>0, <1>t DEF CredTypeOK, SessType, MaybeChallenge, IdleRequest
  <2>2. creds' \in [Stores -> [Keys -> Record \cup {None}]]
    BY <1>0, <1>h, <1>r, <1>t DEF CredTypeOK, Record
  <2>3. top' \in [Keys -> Nat]
    BY <1>0, <1>h, <1>t DEF CredTypeOK
  <2> QED BY <1>0, <2>1, <2>2, <2>3, <1>t DEF CredTypeOK, SessType, Record, MaybeChallenge
<1>2. \A t \in Sessions :
        /\ sess'[t].pc # "idle" => sess'[t].key \in Keys
        /\ Enrolling(t)' => sess'[t] = sess[t]
  BY <1>0, <1>t DEF CeremonyInv, RequestOK, Enrolling, CredTypeOK, IdleRequest
<1>3. \A other \in Stores, l \in Keys : creds'[other][l] # None =>
        /\ creds[other][l] # None
        /\ creds'[other][l].via = creds[other][l].via
        /\ creds'[other][l].principal = creds[other][l].principal
  BY <1>c, <1>r
<1> QED BY <1>0, <1>1, <1>2, <1>3, NoCeremony

LEMMA ProcessDiesStep ==
  ASSUME CeremonyInv, NEW r \in Processes, ProcessDies(r)
  PROVE  CeremonyInv'
<1>0. /\ pending' = [pending EXCEPT ![r] = [p \in Applicants |-> None]]
      /\ sess' = [s \in Sessions |-> IF Home[s] = r THEN IdleRequest ELSE sess[s]]
      /\ creds' = IF Durable THEN creds ELSE [creds EXCEPT ![r] = [k \in Keys |-> None]]
      /\ UNCHANGED <<issued, made, birth, signed, top, raced>>
  BY DEF ProcessDies
<1>t. CredTypeOK
  BY DEF CeremonyInv
<1>c. /\ creds' \in [Stores -> [Keys -> Record \cup {None}]]
      /\ \A st \in Stores, k \in Keys : creds'[st][k] \in {creds[st][k], None}
  BY <1>0, <1>t DEF CredTypeOK, Record, Stores
<1>1. CredTypeOK'
  <2>1. sess' \in [Sessions -> SessType]
    BY <1>0, <1>t DEF CredTypeOK, SessType, MaybeChallenge, IdleRequest
  <2>2. pending' \in [Processes -> [Applicants -> MaybeChallenge]]
    BY <1>0, <1>t DEF CredTypeOK, MaybeChallenge
  <2> QED BY <1>0, <1>c, <2>1, <2>2, <1>t DEF CredTypeOK, SessType, Record, MaybeChallenge
<1>2. \A t \in Sessions :
        /\ sess'[t].pc # "idle" => sess'[t].key \in Keys
        /\ Enrolling(t)' => sess'[t] = sess[t]
  BY <1>0 DEF CeremonyInv, RequestOK, Enrolling, IdleRequest
<1>3. \A q \in Processes, p \in Applicants : pending'[q][p] \in {pending[q][p], None}
  BY <1>0, <1>t DEF CredTypeOK
<1> QED BY <1>0, <1>1, <1>2, <1>3, <1>c, NoCeremony

LEMMA CeremonyNext == CeremonyInv /\ [CredNext]_credVars => CeremonyInv'
<1> SUFFICES ASSUME CeremonyInv, [CredNext]_credVars PROVE CeremonyInv'
  OBVIOUS
<1>1. CASE \E r \in Processes, p \in Applicants, c \in Challenges : EnrollOptions(r, p, c)
  BY <1>1, EnrollOptionsStep
<1>2. CASE \E k \in Keys, c \in Challenges, n \in 0..MaxCount : Create(k, c, n)
  BY <1>2, CreateStep
<1>3. CASE \E s \in Sessions, p \in Applicants, k \in Keys : EnrollVerify(s, p, k)
  BY <1>3, EnrollVerifyStep
<1>4. CASE \E s \in Sessions, d \in Devices : Get(s, d)
  BY <1>4, GetStep
<1>5. CASE \E s \in Sessions : EnrollRegistration(s)
  BY <1>5, EnrollRegistrationStep
<1>6. CASE \E s \in Sessions : Check(s)
  BY <1>6, CheckStep
<1>7. CASE \E s \in Sessions : UpdateSignCount(s)
  BY <1>7, UpdateSignCountStep
<1>8. CASE \E r \in Processes : ProcessDies(r)
  BY <1>8, ProcessDiesStep
<1>9. CASE UNCHANGED credVars
  BY <1>9 DEF credVars, CeremonyInv, CredTypeOK, MadeOK, PendingOK, RequestOK, StoredOK,
              Enrolling, Stores, MaybeChallenge
<1> QED BY <1>1, <1>2, <1>3, <1>4, <1>5, <1>6, <1>7, <1>8, <1>9 DEF CredNext

LEMMA CeremonyAlways == CredSpec => []CeremonyInv
BY CeremonyInit, CeremonyNext, PTL DEF CredSpec

\* The credential state keeps its types.
THEOREM CredTypeCorrect == CredSpec => []CredTypeOK
<1>1. CeremonyInv => CredTypeOK
  BY DEF CeremonyInv
<1> QED BY CeremonyAlways, <1>1, PTL

\* Every stored key was enrolled by its own principal in a ceremony of its own
\* (service.py 150-165, enrollment.py 40-55).
THEOREM EnrollmentSound == CredSpec => []EnrolledByCeremony
<1>1. CeremonyInv => EnrolledByCeremony
  BY DEF CeremonyInv, StoredOK, EnrolledByCeremony
<1> QED BY CeremonyAlways, <1>1, PTL

-----------------------------------------------------------------------------
(* Sign counts, with the shared store *)

InProgress(s, k) == sess[s].key = k /\ sess[s].pc \in {"check", "update"}

\* The stored count is the highest accepted, and the only request that verifies a
\* key has read it, and beats it once it is past the check.
CountOK(k) ==
  /\ creds[Postgres][k] = None => top[k] = 0
  /\ creds[Postgres][k] # None => creds[Postgres][k].sign_count = top[k]
  /\ \A s, t \in Sessions : InProgress(s, k) /\ InProgress(t, k) => s = t
  /\ \A s \in Sessions : InProgress(s, k) =>
       /\ creds[Postgres][k] # None
       /\ sess[s].pc = "check" => sess[s].seen = top[k]
       /\ sess[s].pc = "update" => sess[s].count > top[k] \/ (sess[s].count = 0 /\ top[k] = 0)

CountsOK == \A k \in Keys \ raced : CountOK(k)

LEMMA SharedStore ==
  ASSUME Durable PROVE Stores = {Postgres} /\ \A s \in Sessions : StoreAt(s) = Postgres
BY DEF Stores, StoreAt

LEMMA CountsInit == ASSUME Durable, CredInit PROVE CountsOK
BY SharedStore DEF CredInit, CountsOK, CountOK, InProgress, IdleRequest

\* A step that neither stores nor begins or advances a verification.
LEMMA NoVerification ==
  ASSUME CountsOK, UNCHANGED <<creds, top, raced>>,
         \A s \in Sessions : sess'[s].pc \in {"check", "update"} => sess'[s] = sess[s]
  PROVE  CountsOK'
BY DEF CountsOK, CountOK, InProgress

\* The enrolled key was not stored before, or its challenge would be used up.
LEMMA RegistrationCounts ==
  ASSUME Durable, CeremonyInv, CountsOK, NEW s \in Sessions, EnrollRegistration(s)
  PROVE  CountsOK'
<1> DEFINE k == sess[s].key
<1>0. /\ sess[s].pc = "enroll"
      /\ creds' = IF made[k] = sess[s].expected
                    THEN [creds EXCEPT ![Postgres][k] = Credential(sess[s].by, birth[k], made[k])]
                    ELSE creds
      /\ sess' = [sess EXCEPT ![s] = IdleRequest]
      /\ top' = IF made[k] = sess[s].expected
                  THEN [top EXCEPT ![k] = IF @ < birth[k] THEN birth[k] ELSE @] ELSE top
      /\ raced' = raced
  BY SharedStore DEF EnrollRegistration, Serving, Done, Accept
<1>t. CredTypeOK
  BY DEF CeremonyInv
<1>s. \A t \in Sessions : sess'[t].pc \in {"check", "update"} => sess'[t] = sess[t]
  BY <1>0, <1>t DEF CredTypeOK, IdleRequest
<1>1. CASE made[k] # sess[s].expected
  BY <1>0, <1>1, <1>s, NoVerification
<1>2. CASE made[k] = sess[s].expected
  <2>1. k \in Keys /\ creds[Postgres][k] = None
    BY <1>0, <1>2, SharedStore DEF CeremonyInv, RequestOK, StoredOK, Enrolling
  <2>2. \A l \in Keys : creds'[Postgres][l] =
          IF l = k THEN Credential(sess[s].by, birth[k], made[k]) ELSE creds[Postgres][l]
    BY <1>0, <1>2, <2>1, <1>t, SharedStore DEF CredTypeOK
  <2>4. /\ birth[k] \in Nat
        /\ \A l \in Keys : top'[l] = IF l = k /\ top[k] < birth[k] THEN birth[k] ELSE top[l]
    BY <1>0, <1>2, <2>1, <1>t DEF CredTypeOK
  <2>3. ASSUME NEW l \in Keys \ raced PROVE CountOK(l)'
    <3>1. CountOK(l)
      BY <2>3 DEF CountsOK
    <3>2. CASE l # k
      BY <3>1, <3>2, <2>2, <2>4, <1>0, <1>s DEF CountOK, InProgress
    <3>3. CASE l = k
      <4>1. top[l] = 0 /\ \A t \in Sessions : ~ InProgress(t, l)
        BY <3>1, <3>3, <2>1 DEF CountOK
      <4>2. \A t \in Sessions : ~ InProgress(t, l)'
        BY <4>1, <1>s DEF InProgress
      <4>3. creds'[Postgres][l].sign_count = birth[k] /\ creds'[Postgres][l] # None
        <5>1. creds'[Postgres][l] = Credential(sess[s].by, birth[k], made[k])
          BY <2>2, <3>3
        <5>2. Credential(sess[s].by, birth[k], made[k]) \in Record
          BY <1>0, <1>2, <1>t, <2>1, <2>4
             DEF CeremonyInv, RequestOK, Enrolling, Credential, Record
        <5> QED BY <5>1, <5>2, CredentialAssumption DEF Credential, Record
      <4>4. top'[l] = birth[k]
        BY <4>1, <2>4, <3>3
      <4> QED BY <4>4, <4>1, <4>2, <4>3, <1>0 DEF CountOK
    <3> QED BY <3>2, <3>3
  <2> QED BY <2>3, <1>0 DEF CountsOK
<1> QED BY <1>1, <1>2

\* A second verification of a key makes the key raced.
LEMMA GetCounts ==
  ASSUME Durable, CredTypeOK, CountsOK, NEW s \in Sessions, NEW d \in Devices, Get(s, d)
  PROVE  CountsOK'
<1> DEFINE k == KeyOf[d]
<1>0. /\ sess[s].pc = "idle" /\ creds[Postgres][k] # None
      /\ sess'[s].pc = "check" /\ sess'[s].key = k
      /\ sess'[s].seen = creds[Postgres][k].sign_count
      /\ \A t \in Sessions : t # s => sess'[t] = sess[t]
      /\ raced' = IF Verifying(k) # {} THEN raced \cup {k} ELSE raced
      /\ UNCHANGED <<creds, top>>
  BY SharedStore DEF Get, Serving, CredTypeOK, IdleRequest
<1>1. ASSUME NEW l \in Keys \ raced' PROVE CountOK(l)'
  <2>1. l \notin raced /\ CountOK(l)
    BY <1>0, <1>1 DEF CountsOK
  <2>2. CASE l # k
    BY <1>0, <2>1, <2>2 DEF CountOK, InProgress
  <2>3. CASE l = k
    <3>1. \A t \in Sessions : ~ InProgress(t, l)
      BY <1>0, <1>1, <2>3 DEF Verifying, InProgress
    <3> QED BY <1>0, <2>1, <2>3, <3>1 DEF CountOK, InProgress
  <2> QED BY <2>2, <2>3
<1> QED BY <1>1 DEF CountsOK

\* An accepted count is above the stored one, and so above all accepted before.
LEMMA CheckAccepts ==
  ASSUME Durable, CredTypeOK, CountsOK, NEW s \in Sessions, Check(s),
         sess'[s].pc = "update", sess[s].key \in Keys \ raced
  PROVE  sess[s].count > top[sess[s].key] \/ (sess[s].count = 0 /\ top[sess[s].key] = 0)
<1>1. sess[s].pc = "check" /\ ~ CountRejected(sess[s].count, sess[s].seen)
  BY DEF Check, Serving, Done, SignCount, CredTypeOK, IdleRequest
<1>2. sess[s].seen = top[sess[s].key]
  BY <1>1 DEF CountsOK, CountOK, InProgress
<1>3. sess[s].count \in Nat /\ top[sess[s].key] \in Nat
  BY DEF CredTypeOK
<1> QED BY <1>1, <1>2, <1>3 DEF CountRejected

LEMMA CheckCounts ==
  ASSUME Durable, CredTypeOK, CountsOK, NEW s \in Sessions, Check(s)
  PROVE  CountsOK'
<1>0. /\ sess[s].pc = "check" /\ UNCHANGED <<creds, top, raced>>
      /\ \A t \in Sessions : t # s => sess'[t] = sess[t]
      /\ \/ sess'[s].pc = "idle"
         \/ /\ sess'[s].pc = "update"
            /\ sess'[s].key = sess[s].key /\ sess'[s].count = sess[s].count
  BY DEF Check, Serving, Done, CredTypeOK, IdleRequest
<1>1. ASSUME NEW l \in Keys \ raced PROVE CountOK(l)'
  <2>1. CountOK(l)
    BY <1>1 DEF CountsOK
  <2>2. \A t \in Sessions : InProgress(t, l)' => InProgress(t, l)
    BY <1>0 DEF InProgress
  <2>3. InProgress(s, l)' /\ sess'[s].pc = "update" =>
          sess'[s].count > top'[l] \/ (sess'[s].count = 0 /\ top'[l] = 0)
    BY <1>0, <1>1, CheckAccepts DEF InProgress
  <2> QED BY <1>0, <2>1, <2>2, <2>3 DEF CountOK, InProgress
<1> QED BY <1>0, <1>1 DEF CountsOK

\* What is stored is what was accepted: no other request verifies the key.
LEMMA UpdateCounts ==
  ASSUME Durable, CredTypeOK, RequestOK, CountsOK, NEW s \in Sessions, UpdateSignCount(s)
  PROVE  CountsOK'
<1> DEFINE k == sess[s].key
<1>0. /\ sess[s].pc = "update" /\ raced' = raced
      /\ creds' = IF creds[Postgres][k] = None THEN creds
                  ELSE [creds EXCEPT ![Postgres][k].sign_count = sess[s].count]
      /\ top' = [top EXCEPT ![k] = IF @ < sess[s].count THEN sess[s].count ELSE @]
      /\ sess' = [sess EXCEPT ![s] = IdleRequest]
  BY SharedStore DEF UpdateSignCount, Serving, Done, Accept
<1>s. /\ sess'[s].pc = "idle" /\ \A t \in Sessions : t # s => sess'[t] = sess[t]
  BY <1>0 DEF CredTypeOK, IdleRequest
<1>k. k \in Keys /\ sess[s].count \in Nat /\ top[k] \in Nat
  BY <1>0 DEF RequestOK, CredTypeOK
<1>t. \A l \in Keys : top'[l] =
        IF l = k /\ top[k] < sess[s].count THEN sess[s].count ELSE top[l]
  BY <1>0, <1>k DEF CredTypeOK
<1>1. ASSUME NEW l \in Keys \ raced PROVE CountOK(l)'
  <2>1. CountOK(l)
    BY <1>1 DEF CountsOK
  <2>2. CASE l # k
    <3>1. creds'[Postgres][l] = creds[Postgres][l] /\ top'[l] = top[l]
      BY <1>0, <1>k, <1>t, <2>2, SharedStore DEF CredTypeOK
    <3> QED BY <3>1, <1>s, <2>1 DEF CountOK, InProgress
  <2>3. CASE l = k
    <3>1. InProgress(s, l) /\ creds[Postgres][l] # None
      BY <1>0, <2>1, <2>3 DEF CountOK, InProgress
    <3>2. top'[l] = sess[s].count
      BY <1>0, <1>k, <1>t, <2>1, <2>3, <3>1 DEF CountOK
    <3>3. creds'[Postgres][l] = [creds[Postgres][l] EXCEPT !.sign_count = sess[s].count]
      BY <1>0, <1>k, <2>3, <3>1, SharedStore DEF CredTypeOK
    <3>4. creds[Postgres][l] \in Record
      BY <1>k, <2>3, <3>1, SharedStore DEF CredTypeOK, Record
    <3>5. creds'[Postgres][l] \in Record /\ creds'[Postgres][l].sign_count = sess[s].count
      BY <1>k, <3>3, <3>4 DEF Record
    <3>6. \A t \in Sessions : ~ InProgress(t, l)'
      BY <1>s, <2>1, <3>1 DEF CountOK, InProgress
    <3>7. creds'[Postgres][l] # None
      BY <3>5, CredentialAssumption DEF Record
    <3> QED BY <3>2, <3>5, <3>6, <3>7 DEF CountOK
  <2> QED BY <2>2, <2>3
<1> QED BY <1>0, <1>1 DEF CountsOK

LEMMA CountsNext == ASSUME Durable PROVE CeremonyInv /\ CountsOK /\ [CredNext]_credVars => CountsOK'
<1> SUFFICES ASSUME CeremonyInv, CountsOK, [CredNext]_credVars PROVE CountsOK'
  OBVIOUS
<1>t. CredTypeOK /\ RequestOK
  BY DEF CeremonyInv
<1>1. CASE \E r \in Processes, p \in Applicants, c \in Challenges : EnrollOptions(r, p, c)
  BY <1>1, NoVerification DEF EnrollOptions
<1>2. CASE \E k \in Keys, c \in Challenges, n \in 0..MaxCount : Create(k, c, n)
  BY <1>2, NoVerification DEF Create
<1>3. ASSUME NEW s \in Sessions, NEW p \in Applicants, NEW k \in Keys, EnrollVerify(s, p, k) PROVE CountsOK'
  <2>1. /\ UNCHANGED <<creds, top, raced>>
        /\ \A u \in Sessions : sess'[u].pc \in {"check", "update"} => sess'[u] = sess[u]
    BY <1>3, <1>t DEF EnrollVerify, CredTypeOK, IdleRequest
  <2> QED BY <2>1, NoVerification
<1>4. CASE \E s \in Sessions, d \in Devices : Get(s, d)
  BY <1>4, <1>t, GetCounts
<1>5. CASE \E s \in Sessions : EnrollRegistration(s)
  BY <1>5, RegistrationCounts
<1>6. CASE \E s \in Sessions : Check(s)
  BY <1>6, <1>t, CheckCounts
<1>7. CASE \E s \in Sessions : UpdateSignCount(s)
  BY <1>7, <1>t, UpdateCounts
<1>8. CASE \E r \in Processes : ProcessDies(r)
  BY <1>8, NoVerification DEF ProcessDies, IdleRequest
<1>9. CASE UNCHANGED credVars
  BY <1>9, NoVerification DEF credVars
<1> QED BY <1>1, <1>2, <1>3, <1>4, <1>5, <1>6, <1>7, <1>8, <1>9 DEF CredNext

\* With the shared store, the sign counts accepted of a key whose verifications do
\* not overlap rise (enrollment.py 6, webauthn_verifier.py 82-100).
THEOREM SignCountsRise == ASSUME Durable PROVE CredSpec => CountsRise
<1>1. ASSUME CeremonyInv, CountsOK, [CredNext]_credVars
      PROVE  [\A s \in Sessions :
                Check(s) /\ sess'[s].pc = "update" /\ sess[s].key \notin raced =>
                  \/ sess[s].count > top[sess[s].key]
                  \/ sess[s].count = 0 /\ top[sess[s].key] = 0]_credVars
  <2> SUFFICES ASSUME NEW s \in Sessions, Check(s), sess'[s].pc = "update",
                      sess[s].key \notin raced
               PROVE  \/ sess[s].count > top[sess[s].key]
                      \/ sess[s].count = 0 /\ top[sess[s].key] = 0
    OBVIOUS
  <2>1. CredTypeOK /\ sess[s].key \in Keys
    BY <1>1 DEF CeremonyInv, RequestOK, Check, Serving
  <2> QED BY <1>1, <2>1, CheckAccepts
<1>2. CredInit => CountsOK
  BY CountsInit
<1>3. CeremonyInv /\ CountsOK /\ [CredNext]_credVars => CountsOK'
  BY CountsNext
<1> QED BY CeremonyAlways, <1>1, <1>2, <1>3, PTL DEF CredSpec, CountsRise
=============================================================================
