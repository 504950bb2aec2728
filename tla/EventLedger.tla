----------------------------- MODULE EventLedger -----------------------------
(***************************************************************************)
(* The hash-chained event ledger: kernel/ledger.py on SQLite and           *)
(* kernel/ledger_pg.py on Postgres, one chain per company.                 *)
(*                                                                         *)
(* A writer is a thread inside append.  Threads of a process share one     *)
(* ledger object and its lock; processes share only the database.  On      *)
(* Postgres the append is one transaction under an advisory lock of the    *)
(* company; on SQLite the head is read before the insert opens one.        *)
(***************************************************************************)
EXTENDS Integers, Sequences

CONSTANTS
  Companies,
  Bodies,       \* canonical JSON of an event
  Writers,      \* threads that append
  Processes,
  Home,         \* writer -> the process it runs in
  Backend,      \* "sqlite" or "postgres"
  Damages,      \* what can happen to stored rows behind the ledger's back
  MaxEvents     \* bound: rows per company

ASSUME LedgerAssumption ==
  /\ Home \in [Writers -> Processes]
  /\ Backend \in {"sqlite", "postgres"}
  /\ Damages \subseteq {"tail", "gap", "rewrite", "reseal", "forge", "swap"}
  /\ MaxEvents \in Nat

VARIABLES
  log,       \* company -> rows in the order of seq
  append,    \* writer -> the append it is in
  damaged    \* company -> the damage its rows took, or "none"

ledgerVars == <<log, append, damaged>>

\* SHA-256 taken as collision-free: a seal stands for the bodies it chains.
Seal == Seq(Bodies)
Genesis == <<>>
digest(prev, body) == Append(prev, body)
Row == [body : Bodies, prev : Seal, seal : Seal]

IdleAppend == [pc |-> "idle", company |-> "none", body |-> "none", prev |-> Genesis]
At(w, pc) == append[w].pc = pc

\* The seal of the last row.  Ahead of it, and of the definitions below, stand the
\* variants that the properties are tried against; no action uses them.
head_seal(c) == IF log[c] = <<>> THEN Genesis ELSE log[c][Len(log[c])].seal

ChainedLinksOnly(rows, k) == rows[k].prev = IF k = 1 THEN Genesis ELSE rows[k - 1].seal

Chained(rows, k) ==
  /\ rows[k].prev = IF k = 1 THEN Genesis ELSE rows[k - 1].seal
  /\ rows[k].seal = digest(rows[k].prev, rows[k].body)
Verified(rows) == \A k \in 1..Len(rows) : Chained(rows, k)
verify_chain(c) == Verified(log[c])

LedgerInit ==
  /\ log = [c \in Companies |-> <<>>]
  /\ append = [w \in Writers |-> IdleAppend]
  /\ damaged = [c \in Companies |-> "none"]

-----------------------------------------------------------------------------
(* append *)

\* The lock of the ledger object, held for the whole of append.
ObjectLockFree(w) == \A v \in Writers : Home[v] = Home[w] => At(v, "idle")

\* pg_advisory_xact_lock: held from here to commit or rollback (the variant: the
\* lock is taken per process).
ProcessLockFree(w) ==
  Backend = "postgres" =>
    \A v \in Writers : Home[v] = Home[w] => ~At(v, "insert")
AdvisoryLockFree(w) ==
  Backend = "postgres" =>
    \A v \in Writers : append[v].company = append[w].company => ~At(v, "insert")

Call(w, c, b) ==
  /\ At(w, "idle") /\ ObjectLockFree(w)
  /\ append' = [append EXCEPT ![w] =
       [pc |-> "head", company |-> c, body |-> b, prev |-> Genesis]]
  /\ UNCHANGED <<log, damaged>>

ReadHead(w) ==
  /\ At(w, "head") /\ AdvisoryLockFree(w)
  /\ append' = [append EXCEPT ![w].pc = "insert", ![w].prev = head_seal(append[w].company)]
  /\ UNCHANGED <<log, damaged>>

\* INSERT and COMMIT: the database lets no other writer between the two.
Insert(w) ==
  LET a == append[w]
  IN  /\ At(w, "insert") /\ Len(log[a.company]) < MaxEvents
      /\ log' = [log EXCEPT ![a.company] =
           Append(@, [body |-> a.body, prev |-> a.prev, seal |-> digest(a.prev, a.body)])]
      /\ append' = [append EXCEPT ![w] = IdleAppend]
      /\ UNCHANGED damaged

\* The database refuses a statement: rolled back, and the error is raised (the
\* variant: no rollback, the connection stays in the aborted transaction).  On
\* SQLite, which has no rollback here, only a statement that opened no transaction;
\* a commit refused there is not modelled.
FailAborted(w) ==
  /\ ~At(w, "idle")
  /\ append' = [append EXCEPT ![w].pc = "aborted"]
  /\ UNCHANGED <<log, damaged>>

Fail(w) ==
  /\ ~At(w, "idle")
  /\ append' = [append EXCEPT ![w] = IdleAppend]
  /\ UNCHANGED <<log, damaged>>

Crash(p) ==
  /\ append' = [w \in Writers |-> IF Home[w] = p THEN IdleAppend ELSE append[w]]
  /\ UNCHANGED <<log, damaged>>

-----------------------------------------------------------------------------
(* Damage to the stored rows behind the ledger's back, once per company.  The    *)
(* hash takes no key, so that whoever rewrites a row can also seal it again.     *)

Damaged(c, kind, rows) ==
  /\ log' = [log EXCEPT ![c] = rows]
  /\ damaged' = [damaged EXCEPT ![c] = kind]
  /\ UNCHANGED append

Without(rows, k) == [j \in 1..(Len(rows) - 1) |-> IF j < k THEN rows[j] ELSE rows[j + 1]]
Rewritten(rows, k, b) == [rows EXCEPT ![k].body = b]
Resealed(rows, k, b) == [rows EXCEPT ![k].body = b, ![k].seal = digest(rows[k].prev, b)]
Swapped(rows, j, k) == [rows EXCEPT ![j] = rows[k], ![k] = rows[j]]

\* The chain of a sequence of bodies, sealed from the first to the last.
ChainOf(bodies) ==
  [j \in DOMAIN bodies |->
    [body |-> bodies[j], prev |-> SubSeq(bodies, 1, j - 1), seal |-> SubSeq(bodies, 1, j)]]
Forged(rows, k, b) ==
  ChainOf([j \in 1..Len(rows) |-> IF j = k THEN b ELSE rows[j].body])

\* No append of the company is between its head and its insert.
AtRest(c) == \A w \in Writers : At(w, "insert") => append[w].company # c

\* What is done to the rows of c; the kinds that can go unseen are taken where no
\* append is under way, whose row would point at the seal that is gone.
DamageOf(c, kind) ==
  \E k \in 1..Len(log[c]) :
    \/ /\ kind = "tail" /\ k = Len(log[c]) /\ AtRest(c)
       /\ Damaged(c, kind, Without(log[c], k))
    \/ /\ kind = "gap" /\ k < Len(log[c])
       /\ Damaged(c, kind, Without(log[c], k))
    \/ \E b \in Bodies \ {log[c][k].body} :
         \/ kind = "rewrite" /\ Damaged(c, kind, Rewritten(log[c], k, b))
         \/ kind = "reseal" /\ k < Len(log[c]) /\ Damaged(c, kind, Resealed(log[c], k, b))
         \/ kind = "forge" /\ AtRest(c) /\ Damaged(c, kind, Forged(log[c], k, b))
    \/ /\ kind = "swap"
       /\ \E j \in 1..(k - 1) : Damaged(c, kind, Swapped(log[c], j, k))

Damage(c) == damaged[c] = "none" /\ \E kind \in Damages : DamageOf(c, kind)

LedgerNext ==
  \/ \E w \in Writers, c \in Companies, b \in Bodies : Call(w, c, b)
  \/ \E w \in Writers : ReadHead(w) \/ Insert(w) \/ Fail(w)
  \/ \E p \in Processes : Crash(p)
  \/ \E c \in Companies : Damage(c)

LedgerSpec == LedgerInit /\ [][LedgerNext]_ledgerVars

-----------------------------------------------------------------------------
(* Properties *)

AppendCall ==
  [pc : {"head", "insert"}, company : Companies, body : Bodies, prev : Seal]
    \cup {IdleAppend}

\* The types of the ledger's state.
LedgerTypeOK ==
  /\ log \in [Companies -> Seq(Row)]
  /\ append \in [Writers -> AppendCall]
  /\ damaged \in [Companies -> Damages \cup {"none"}]

\* Whatever appends interleave, fail or crash, a ledger nothing damaged verifies:
\* concurrent writers cannot fork the chain (ledger.py 57-77, ledger_pg.py 11-15).
ChainIntact == \A c \in Companies : damaged[c] = "none" => verify_chain(c)

\* What verify_chain can tell (ledger.py 109-123), from the damage on and whatever
\* is appended later: a row lost from under another, a body rewritten, with or
\* without a new seal of its own, and rows that changed places make it fail, while
\* the loss of the last row and a rewrite sealed again up to the head do not, though
\* ledger.py 5-6 and 110 say that truncation and any rewrite are detected.
Unseen == {"tail", "forge"}
DamageSeen ==
  \A c \in Companies :
    damaged[c] # "none" => (verify_chain(c) <=> damaged[c] \in Unseen)

=============================================================================
