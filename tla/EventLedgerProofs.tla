-------------------------- MODULE EventLedgerProofs --------------------------
(***************************************************************************)
(* Proofs about EventLedger: the chain stays intact whatever appends       *)
(* interleave, on Postgres with any number of processes and on SQLite with *)
(* one, and what verify_chain tells of damage it goes on telling.          *)
(*                                                                         *)
(* Chain integrity is not inductive by itself: it needs that no two        *)
(* writers of a company are past the head (Exclusive), and that the head a *)
(* writer read is still the head when it inserts (HeadKnown).              *)
(***************************************************************************)
EXTENDS EventLedger, TLAPS

\* The deployments that serialize the appends of a company.
Serialized ==
  Backend = "postgres" \/ \A v, w \in Writers : Home[v] = Home[w]

\* One writer of a process at a time is inside append.
ObjectLocked ==
  \A v, w \in Writers :
    Home[v] = Home[w] /\ ~At(v, "idle") /\ ~At(w, "idle") => v = w

\* One writer of a company at a time has read the head.
Exclusive ==
  \A v, w \in Writers :
    At(v, "insert") /\ At(w, "insert") /\ append[v].company = append[w].company => v = w

\* The k-th seal chains k bodies.
Long(rows) == \A k \in 1..Len(rows) : Len(rows[k].seal) = k

\* The companies whose rows are still a chain: nothing was done to them, or nothing
\* that shows.
Whole(c) == damaged[c] \in Unseen \cup {"none"}
LongSeals == \A c \in Companies : Whole(c) => Long(log[c])
WholeChains == \A c \in Companies : Whole(c) => verify_chain(c)
BrokenChains == \A c \in Companies : ~Whole(c) => ~verify_chain(c)

HeadKnown ==
  \A w \in Writers :
    At(w, "insert") /\ Whole(append[w].company) =>
      append[w].prev = head_seal(append[w].company)

LedgerIInv ==
  /\ LedgerTypeOK
  /\ ObjectLocked
  /\ Exclusive
  /\ HeadKnown
  /\ LongSeals
  /\ WholeChains
  /\ BrokenChains

-----------------------------------------------------------------------------
(* What a row added or damaged does to a chain *)

LEMMA AppendFacts ==
  ASSUME NEW S, NEW rows \in Seq(S), NEW r \in S
  PROVE  /\ Append(rows, r) \in Seq(S)
         /\ Len(Append(rows, r)) = Len(rows) + 1
         /\ Append(rows, r)[Len(rows) + 1] = r
         /\ \A k \in 1..Len(rows) : Append(rows, r)[k] = rows[k]
         /\ Len(rows) \in Nat
OBVIOUS

LEMMA RowFacts ==
  ASSUME NEW rows \in Seq(Row), NEW k \in 1..Len(rows)
  PROVE  /\ rows[k] \in Row
         /\ rows[k].prev \in Seal /\ rows[k].seal \in Seal /\ rows[k].body \in Bodies
<1>1. rows[k] \in Row
  OBVIOUS
<1> QED
  BY <1>1 DEF Row

LEMMA DigestFacts ==
  ASSUME NEW p \in Seal, NEW b \in Bodies
  PROVE  digest(p, b) \in Seal /\ Len(digest(p, b)) = Len(p) + 1 /\ digest(p, b) # p
BY DEF digest, Seal

LEMMA DigestInjective ==
  ASSUME NEW p \in Seal, NEW a \in Bodies, NEW b \in Bodies, a # b
  PROVE  digest(p, a) # digest(p, b)
<1>1. digest(p, a)[Len(p) + 1] = a /\ digest(p, b)[Len(p) + 1] = b
  BY DEF digest, Seal
<1> QED
  BY <1>1

\* Rows already there are chained as before.
LEMMA ChainedKept ==
  ASSUME NEW rows \in Seq(Row), NEW r \in Row, NEW k \in 1..Len(rows)
  PROVE  Chained(Append(rows, r), k) = Chained(rows, k)
<1>1. Append(rows, r)[k] = rows[k]
  BY AppendFacts
<1>2. k # 1 => k - 1 \in 1..Len(rows) /\ Append(rows, r)[k - 1] = rows[k - 1]
  BY AppendFacts
<1> QED
  BY <1>1, <1>2 DEF Chained

\* A row sealed over the head extends a verified chain.
LEMMA RowAdded ==
  ASSUME NEW rows \in Seq(Row), NEW r \in Row, Verified(rows), Long(rows),
         r.prev = IF rows = <<>> THEN Genesis ELSE rows[Len(rows)].seal,
         r.seal = digest(r.prev, r.body)
  PROVE  Verified(Append(rows, r)) /\ Long(Append(rows, r))
<1> DEFINE n == Len(rows) + 1
           new == Append(rows, r)
<1>1. /\ new \in Seq(Row) /\ Len(new) = n /\ new[n] = r /\ Len(rows) \in Nat
      /\ \A k \in 1..Len(rows) : new[k] = rows[k]
  BY AppendFacts
<1>2. rows = <<>> <=> Len(rows) = 0
  OBVIOUS
<1>3. Chained(new, n)
  BY <1>1, <1>2 DEF Chained
<1>4. Len(r.prev) = Len(rows) /\ r.prev \in Seal /\ r.body \in Bodies
  <2>1. CASE Len(rows) = 0
    BY <2>1, <1>2 DEF Genesis, Row
  <2>2. CASE Len(rows) # 0
    BY <2>2, <1>1, <1>2 DEF Long, Row
  <2> QED
    BY <2>1, <2>2
<1>5. Len(r.seal) = n
  BY <1>4, DigestFacts
<1>6. ASSUME NEW k \in 1..Len(new) PROVE Chained(new, k) /\ Len(new[k].seal) = k
  <2>1. CASE k = n
    BY <2>1, <1>1, <1>3, <1>5
  <2>2. CASE k # n
    <3>1. k \in 1..Len(rows)
      BY <2>2, <1>1
    <3>2. Chained(new, k)
      BY <3>1, ChainedKept DEF Verified
    <3> QED
      BY <3>1, <3>2, <1>1 DEF Long
  <2> QED
    BY <2>1, <2>2
<1> QED
  BY <1>6 DEF Verified, Long

\* A row taken out from under another breaks the link of the one above it.
LEMMA GapSeen ==
  ASSUME NEW rows \in Seq(Row), Verified(rows), NEW k \in 1..Len(rows), k < Len(rows)
  PROVE  Without(rows, k) \in Seq(Row) /\ ~Verified(Without(rows, k))
<1> DEFINE new == Without(rows, k)
<1>1. new \in Seq(Row) /\ Len(new) = Len(rows) - 1
  BY DEF Without
<1>2. new[k] = rows[k + 1] /\ (k # 1 => new[k - 1] = rows[k - 1])
  BY DEF Without
<1>3. Chained(rows, k) /\ Chained(rows, k + 1)
  BY DEF Verified
<1>4. rows[k + 1].prev = rows[k].seal
  BY <1>3 DEF Chained
<1>5. rows[k].seal # rows[k].prev
  <2>1. k \in 1..Len(rows)
    OBVIOUS
  <2>2. rows[k].seal = digest(rows[k].prev, rows[k].body)
    BY <1>3 DEF Chained
  <2> QED
    BY <2>1, <2>2, RowFacts, DigestFacts
<1>6. ~Chained(new, k)
  BY <1>2, <1>3, <1>4, <1>5 DEF Chained
<1> QED
  BY <1>1, <1>6 DEF Verified

\* A rewritten body no longer matches its seal.
LEMMA RewriteSeen ==
  ASSUME NEW rows \in Seq(Row), Verified(rows), NEW k \in 1..Len(rows),
         NEW b \in Bodies, b # rows[k].body
  PROVE  Rewritten(rows, k, b) \in Seq(Row) /\ ~Verified(Rewritten(rows, k, b))
<1> DEFINE new == Rewritten(rows, k, b)
<1>1. rows[k] \in Row
  BY RowFacts
<1>2. new[k].body = b /\ new[k].prev = rows[k].prev /\ new[k].seal = rows[k].seal
  BY <1>1 DEF Row, Rewritten
<1>3. rows[k].seal = digest(rows[k].prev, rows[k].body)
  BY DEF Verified, Chained
<1>4. new[k].seal # digest(new[k].prev, new[k].body)
  BY <1>2, <1>3, DigestInjective, RowFacts
<1>5. [rows[k] EXCEPT !.body = b] \in Row
  BY <1>1 DEF Row
<1>6. new \in Seq(Row) /\ Len(new) = Len(rows)
  BY <1>5 DEF Rewritten
<1>7. ~Chained(new, k)
  BY <1>4 DEF Chained
<1> QED
  BY <1>6, <1>7 DEF Verified

\* A row sealed again over another body is not the one the row above it points at.
LEMMA ResealSeen ==
  ASSUME NEW rows \in Seq(Row), Verified(rows), NEW k \in 1..Len(rows), k < Len(rows),
         NEW b \in Bodies, b # rows[k].body
  PROVE  Resealed(rows, k, b) \in Seq(Row) /\ ~Verified(Resealed(rows, k, b))
<1> DEFINE new == Resealed(rows, k, b)
           row == [rows[k] EXCEPT !.body = b, !.seal = digest(rows[k].prev, b)]
<1>1. rows[k] \in Row /\ rows[k].prev \in Seal /\ rows[k].body \in Bodies
  BY RowFacts
<1>2. row \in Row /\ row.seal = digest(rows[k].prev, b)
  BY <1>1, DigestFacts DEF Row
<1>3. new = [rows EXCEPT ![k] = row]
  BY DEF Resealed
<1>4. new \in Seq(Row) /\ Len(new) = Len(rows)
  BY <1>2, <1>3
<1>5. new[k].seal = digest(rows[k].prev, b) /\ new[k + 1] = rows[k + 1]
  BY <1>2, <1>3
<1>6. rows[k + 1].prev = digest(rows[k].prev, rows[k].body)
  <2>1. Chained(rows, k) /\ Chained(rows, k + 1)
    BY DEF Verified
  <2> QED
    BY <2>1 DEF Chained
<1>7. new[k + 1].prev # new[k].seal
  BY <1>1, <1>5, <1>6, DigestInjective
<1>8. ~Chained(new, k + 1) /\ k + 1 \in 1..Len(new)
  BY <1>4, <1>7 DEF Chained
<1> QED
  BY <1>4, <1>8 DEF Verified

\* The rows below the last are the chain they were.
LEMMA TailKept ==
  ASSUME NEW rows \in Seq(Row), Verified(rows), Long(rows), Len(rows) \in 1..Len(rows)
  PROVE  /\ Without(rows, Len(rows)) \in Seq(Row)
         /\ Verified(Without(rows, Len(rows))) /\ Long(Without(rows, Len(rows)))
<1> DEFINE new == Without(rows, Len(rows))
<1>1. new \in Seq(Row) /\ Len(new) = Len(rows) - 1
  BY DEF Without
<1>2. \A k \in 1..Len(new) : k \in 1..Len(rows) /\ new[k] = rows[k]
  BY <1>1 DEF Without
<1> HIDE DEF new
<1>3. ASSUME NEW k \in 1..Len(new) PROVE Chained(new, k) /\ Len(new[k].seal) = k
  <2>1. Chained(rows, k) /\ Len(rows[k].seal) = k
    BY <1>2 DEF Verified, Long
  <2>2. new[k] = rows[k] /\ (k # 1 => new[k - 1] = rows[k - 1])
    BY <1>2
  <2> QED
    BY <2>1, <2>2 DEF Chained
<1>4. Verified(new) /\ Long(new)
  BY <1>3 DEF Verified, Long
<1> QED
  BY <1>1, <1>4 DEF new

LEMMA SealedFacts ==
  ASSUME NEW bodies \in Seq(Bodies), NEW j \in 1..Len(bodies)
  PROVE  /\ SubSeq(bodies, 1, j) \in Seal /\ Len(SubSeq(bodies, 1, j)) = j
         /\ SubSeq(bodies, 1, j - 1) \in Seal
         /\ SubSeq(bodies, 1, j) = Append(SubSeq(bodies, 1, j - 1), bodies[j])
         /\ SubSeq(bodies, 1, 0) = <<>>
BY DEF Seal

\* A sequence of bodies sealed from the first on verifies.
LEMMA ChainVerifies ==
  ASSUME NEW bodies \in Seq(Bodies)
  PROVE  /\ ChainOf(bodies) \in Seq(Row)
         /\ Verified(ChainOf(bodies)) /\ Long(ChainOf(bodies))
<1> DEFINE new == ChainOf(bodies)
           At_(j) == [body |-> bodies[j], prev |-> SubSeq(bodies, 1, j - 1),
                      seal |-> SubSeq(bodies, 1, j)]
<1>1. \A j \in 1..Len(bodies) : At_(j) \in Row
  BY SealedFacts DEF Row
<1>2. new = [j \in 1..Len(bodies) |-> At_(j)]
  BY DEF ChainOf
<1>3. new \in Seq(Row) /\ Len(new) = Len(bodies)
  <2> HIDE DEF new, At_
  <2> QED
    BY <1>1, <1>2
<1>4. \A j \in 1..Len(bodies) :
        /\ new[j].body = bodies[j] /\ new[j].prev = SubSeq(bodies, 1, j - 1)
        /\ new[j].seal = SubSeq(bodies, 1, j)
  BY <1>2
<1> HIDE DEF new
<1>5. ASSUME NEW j \in 1..Len(new) PROVE Chained(new, j) /\ Len(new[j].seal) = j
  <2>1. new[j].seal = digest(new[j].prev, new[j].body) /\ Len(new[j].seal) = j
    <3>1. j \in 1..Len(bodies)
      BY <1>3
    <3>2. /\ Len(SubSeq(bodies, 1, j)) = j
          /\ SubSeq(bodies, 1, j) = Append(SubSeq(bodies, 1, j - 1), bodies[j])
      BY <3>1, SealedFacts
    <3> QED
      BY <1>4, <3>1, <3>2 DEF digest
  <2>2. new[j].prev = IF j = 1 THEN Genesis ELSE new[j - 1].seal
    <3>1. CASE j = 1
      BY <3>1, <1>3, <1>4, SealedFacts DEF Genesis
    <3>2. CASE j # 1
      <4>1. j - 1 \in 1..Len(bodies)
        BY <3>2, <1>3
      <4> QED
        BY <3>2, <4>1, <1>3, <1>4
    <3> QED
      BY <3>1, <3>2
  <2> QED
    BY <2>1, <2>2 DEF Chained
<1>6. Verified(new) /\ Long(new)
  BY <1>5 DEF Verified, Long
<1> QED
  BY <1>3, <1>6 DEF new

LEMMA ForgeKept ==
  ASSUME NEW rows \in Seq(Row), NEW k \in 1..Len(rows), NEW b \in Bodies
  PROVE  /\ Forged(rows, k, b) \in Seq(Row)
         /\ Verified(Forged(rows, k, b)) /\ Long(Forged(rows, k, b))
<1> DEFINE bodies == [j \in 1..Len(rows) |-> IF j = k THEN b ELSE rows[j].body]
<1>1. bodies \in Seq(Bodies)
  <2>1. \A j \in 1..Len(rows) : rows[j].body \in Bodies
    BY RowFacts
  <2> QED
    BY <2>1
<1> HIDE DEF bodies
<1>2. ChainOf(bodies) \in Seq(Row) /\ Verified(ChainOf(bodies)) /\ Long(ChainOf(bodies))
  BY <1>1, ChainVerifies
<1> QED
  BY <1>2 DEF Forged, bodies

\* Of two rows that changed places, the lower is sealed over too long a chain.
LEMMA SwapSeen ==
  ASSUME NEW rows \in Seq(Row), Verified(rows), Long(rows),
         NEW k \in 1..Len(rows), NEW j \in 1..(k - 1)
  PROVE  Swapped(rows, j, k) \in Seq(Row) /\ ~Verified(Swapped(rows, j, k))
<1> DEFINE new == Swapped(rows, j, k)
<1>1. new \in Seq(Row) /\ Len(new) = Len(rows)
  BY DEF Swapped
<1>2. new[j] = rows[k] /\ (j # 1 => new[j - 1] = rows[j - 1])
  BY DEF Swapped
<1>3. rows[k].prev = rows[k - 1].seal
  BY DEF Verified, Chained
<1>4. Len(rows[k].prev) = k - 1
  BY <1>3 DEF Long
<1>5. Len(IF j = 1 THEN Genesis ELSE new[j - 1].seal) = j - 1
  BY <1>2 DEF Long, Genesis
<1>6. new[j].prev # IF j = 1 THEN Genesis ELSE new[j - 1].seal
  <2> HIDE DEF new
  <2>1. Len(new[j].prev) # j - 1
    BY <1>2, <1>4
  <2> QED
    BY <2>1, <1>5
<1>7. ~Chained(new, j) /\ j \in 1..Len(new)
  <2>1. j \in 1..Len(new)
    BY <1>1
  <2> HIDE DEF new
  <2> QED
    BY <2>1, <1>6 DEF Chained
<1> HIDE DEF new
<1>8. ~Verified(new)
  BY <1>7 DEF Verified
<1> QED
  BY <1>1, <1>8 DEF new

-----------------------------------------------------------------------------
(* The inductive invariant *)

USE LedgerAssumption

LEMMA LedgerTypeInit == LedgerInit => LedgerTypeOK
BY DEF LedgerInit, LedgerTypeOK, AppendCall

LEMMA WithoutType ==
  ASSUME NEW rows \in Seq(Row), NEW k \in 1..Len(rows)
  PROVE  Without(rows, k) \in Seq(Row)
BY DEF Without

LEMMA RowSetType ==
  ASSUME NEW rows \in Seq(Row), NEW k \in 1..Len(rows), NEW b \in Bodies
  PROVE  Rewritten(rows, k, b) \in Seq(Row) /\ Resealed(rows, k, b) \in Seq(Row)
<1>1. rows[k] \in Row /\ rows[k].prev \in Seal
  BY RowFacts
<1>2. [rows[k] EXCEPT !.body = b] \in Row
  BY <1>1 DEF Row
<1> DEFINE row == [rows[k] EXCEPT !.body = b, !.seal = digest(rows[k].prev, b)]
<1>3. row \in Row
  BY <1>1, DigestFacts DEF Row
<1>4. Rewritten(rows, k, b) \in Seq(Row)
  BY <1>2 DEF Rewritten
<1>5. Resealed(rows, k, b) \in Seq(Row)
  <2>1. Resealed(rows, k, b) = [rows EXCEPT ![k] = row]
    BY DEF Resealed
  <2> HIDE DEF row
  <2> QED
    BY <1>3, <2>1
<1> QED
  BY <1>4, <1>5

\* Damaged rows are still rows, a kind that does not show leaves a chain, taken at
\* rest, and every other breaks it.
LEMMA DamageKinds ==
  ASSUME LedgerTypeOK, NEW c \in Companies, NEW kind \in Damages, DamageOf(c, kind)
  PROVE  \E rows \in Seq(Row) :
           /\ Damaged(c, kind, rows)
           /\ Verified(log[c]) /\ Long(log[c]) =>
                /\ kind \in Unseen => AtRest(c) /\ Verified(rows) /\ Long(rows)
                /\ kind \notin Unseen => ~Verified(rows)
           /\ kind # "none"
<1> DEFINE Fits(rows) ==
             /\ Damaged(c, kind, rows)
             /\ Verified(log[c]) /\ Long(log[c]) =>
                  /\ kind \in Unseen => AtRest(c) /\ Verified(rows) /\ Long(rows)
                  /\ kind \notin Unseen => ~Verified(rows)
             /\ kind # "none"
<1>1. log[c] \in Seq(Row)
  BY DEF LedgerTypeOK
<1>2. PICK k \in 1..Len(log[c]) :
        \/ /\ kind = "tail" /\ k = Len(log[c]) /\ AtRest(c)
           /\ Damaged(c, kind, Without(log[c], k))
        \/ /\ kind = "gap" /\ k < Len(log[c])
           /\ Damaged(c, kind, Without(log[c], k))
        \/ \E b \in Bodies \ {log[c][k].body} :
             \/ kind = "rewrite" /\ Damaged(c, kind, Rewritten(log[c], k, b))
             \/ /\ kind = "reseal" /\ k < Len(log[c])
                /\ Damaged(c, kind, Resealed(log[c], k, b))
             \/ kind = "forge" /\ AtRest(c) /\ Damaged(c, kind, Forged(log[c], k, b))
        \/ /\ kind = "swap"
           /\ \E j \in 1..(k - 1) : Damaged(c, kind, Swapped(log[c], j, k))
  BY DEF DamageOf
<1>3. ASSUME kind = "tail", k = Len(log[c]), AtRest(c),
             Damaged(c, kind, Without(log[c], k))
      PROVE  \E rows \in Seq(Row) : Fits(rows)
  <2>1. Without(log[c], k) \in Seq(Row)
    BY <1>1, WithoutType
  <2>2. Fits(Without(log[c], k))
    BY <1>1, <1>3, TailKept DEF Unseen
  <2> HIDE DEF Fits
  <2> QED
    BY <2>1, <2>2
<1>4. ASSUME kind = "gap", k < Len(log[c]), Damaged(c, kind, Without(log[c], k))
      PROVE  \E rows \in Seq(Row) : Fits(rows)
  <2>1. Without(log[c], k) \in Seq(Row)
    BY <1>1, WithoutType
  <2>2. Fits(Without(log[c], k))
    BY <1>1, <1>4, GapSeen DEF Unseen
  <2> HIDE DEF Fits
  <2> QED
    BY <2>1, <2>2
<1>5. ASSUME NEW b \in Bodies \ {log[c][k].body}, kind = "rewrite",
             Damaged(c, kind, Rewritten(log[c], k, b))
      PROVE  \E rows \in Seq(Row) : Fits(rows)
  <2>1. Rewritten(log[c], k, b) \in Seq(Row)
    BY <1>1, RowSetType
  <2>2. Fits(Rewritten(log[c], k, b))
    BY <1>1, <1>5, RewriteSeen DEF Unseen
  <2> HIDE DEF Fits
  <2> QED
    BY <2>1, <2>2
<1>6. ASSUME NEW b \in Bodies \ {log[c][k].body}, kind = "reseal", k < Len(log[c]),
             Damaged(c, kind, Resealed(log[c], k, b))
      PROVE  \E rows \in Seq(Row) : Fits(rows)
  <2>1. Resealed(log[c], k, b) \in Seq(Row)
    BY <1>1, RowSetType
  <2>2. Fits(Resealed(log[c], k, b))
    BY <1>1, <1>6, ResealSeen DEF Unseen
  <2> HIDE DEF Fits
  <2> QED
    BY <2>1, <2>2
<1>7. ASSUME NEW b \in Bodies \ {log[c][k].body}, kind = "forge", AtRest(c),
             Damaged(c, kind, Forged(log[c], k, b))
      PROVE  \E rows \in Seq(Row) : Fits(rows)
  <2>1. /\ Forged(log[c], k, b) \in Seq(Row)
        /\ Verified(Forged(log[c], k, b)) /\ Long(Forged(log[c], k, b))
    BY <1>1, ForgeKept
  <2>2. Fits(Forged(log[c], k, b))
    BY <1>7, <2>1 DEF Unseen
  <2> HIDE DEF Fits
  <2> QED
    BY <2>1, <2>2
<1>8. ASSUME NEW j \in 1..(k - 1), kind = "swap",
             Damaged(c, kind, Swapped(log[c], j, k))
      PROVE  \E rows \in Seq(Row) : Fits(rows)
  <2>1. Swapped(log[c], j, k) \in Seq(Row)
    BY <1>1 DEF Swapped
  <2>2. Fits(Swapped(log[c], j, k))
    BY <1>1, <1>8, SwapSeen DEF Unseen
  <2> HIDE DEF Fits
  <2> QED
    BY <2>1, <2>2
<1>9. \E rows \in Seq(Row) : Fits(rows)
  <2> HIDE DEF Fits
  <2> QED
    BY <1>2, <1>3, <1>4, <1>5, <1>6, <1>7, <1>8
<1> QED
  BY <1>9

LEMMA DamageType ==
  ASSUME LedgerTypeOK, NEW c \in Companies, Damage(c)
  PROVE  /\ log' \in [Companies -> Seq(Row)]
         /\ damaged[c] = "none" /\ damaged'[c] \in Damages \ {"none"}
         /\ damaged' \in [Companies -> Damages \cup {"none"}]
         /\ append' = append
         /\ \A d \in Companies \ {c} : log'[d] = log[d] /\ damaged'[d] = damaged[d]
         /\ Verified(log[c]) /\ Long(log[c]) =>
              /\ damaged'[c] \in Unseen =>
                   AtRest(c) /\ Verified(log'[c]) /\ Long(log'[c])
              /\ damaged'[c] \notin Unseen => ~Verified(log'[c])
<1>1. PICK kind \in Damages : DamageOf(c, kind)
  BY DEF Damage
<1>2. PICK rows \in Seq(Row) :
        /\ Damaged(c, kind, rows)
        /\ Verified(log[c]) /\ Long(log[c]) =>
             /\ kind \in Unseen => AtRest(c) /\ Verified(rows) /\ Long(rows)
             /\ kind \notin Unseen => ~Verified(rows)
        /\ kind # "none"
  BY <1>1, DamageKinds
<1>3. log \in [Companies -> Seq(Row)] /\ damaged \in [Companies -> Damages \cup {"none"}]
  BY DEF LedgerTypeOK
<1>4. /\ log' = [log EXCEPT ![c] = rows] /\ damaged' = [damaged EXCEPT ![c] = kind]
      /\ append' = append
  BY <1>2 DEF Damaged
<1>5. log'[c] = rows /\ damaged'[c] = kind
  BY <1>3, <1>4
<1> QED
  BY <1>2, <1>3, <1>4, <1>5 DEF Damage

\* What Insert adds is a row, and the other chains are left alone.
LEMMA InsertFacts ==
  ASSUME LedgerTypeOK, NEW w \in Writers, Insert(w)
  PROVE  LET a == append[w]
             r == [body |-> a.body, prev |-> a.prev, seal |-> digest(a.prev, a.body)]
         IN  /\ a.company \in Companies /\ r \in Row
             /\ log[a.company] \in Seq(Row)
             /\ log'[a.company] = Append(log[a.company], r)
             /\ \A d \in Companies \ {a.company} : log'[d] = log[d]
             /\ log' \in [Companies -> Seq(Row)]
             /\ append' = [append EXCEPT ![w] = IdleAppend]
             /\ damaged' = damaged
<1> DEFINE a == append[w]
           r == [body |-> a.body, prev |-> a.prev, seal |-> digest(a.prev, a.body)]
<1>1. a \in AppendCall /\ a.pc = "insert" /\ log \in [Companies -> Seq(Row)]
  BY DEF LedgerTypeOK, Insert, At
<1>2. a.company \in Companies /\ a.body \in Bodies /\ a.prev \in Seal
  BY <1>1 DEF AppendCall, IdleAppend
<1>3. r \in Row
  BY <1>2, DigestFacts DEF Row
<1>4. Append(log[a.company], r) \in Seq(Row)
  BY <1>1, <1>2, <1>3
<1>5. log' = [log EXCEPT ![a.company] = Append(log[a.company], r)]
  BY DEF Insert
<1> QED
  BY <1>1, <1>2, <1>3, <1>4, <1>5 DEF Insert

LEMMA HeadType ==
  ASSUME LedgerTypeOK, NEW c \in Companies
  PROVE  head_seal(c) \in Seal
<1>1. log[c] \in Seq(Row)
  BY DEF LedgerTypeOK
<1>2. CASE log[c] = <<>>
  BY <1>2 DEF head_seal, Genesis, Seal
<1>3. CASE log[c] # <<>>
  <2>1. Len(log[c]) \in 1..Len(log[c])
    BY <1>1, <1>3
  <2> QED
    BY <1>1, <1>3, <2>1, RowFacts DEF head_seal
<1> QED
  BY <1>2, <1>3

LEMMA LedgerTypeNext ==
  ASSUME LedgerTypeOK, [LedgerNext]_ledgerVars
  PROVE  LedgerTypeOK'
<1>1. ASSUME NEW w \in Writers, NEW c \in Companies, NEW b \in Bodies, Call(w, c, b)
      PROVE  LedgerTypeOK'
  <2>1. [pc |-> "head", company |-> c, body |-> b, prev |-> Genesis] \in AppendCall
    BY DEF AppendCall, Genesis, Seal
  <2> QED
    BY <1>1, <2>1 DEF LedgerTypeOK, Call
<1>2. ASSUME NEW w \in Writers, ReadHead(w) PROVE LedgerTypeOK'
  <2>1. append[w] \in AppendCall /\ append[w].pc = "head"
    BY <1>2 DEF LedgerTypeOK, ReadHead, At
  <2>2. /\ append[w] \in [pc : {"head", "insert"}, company : Companies,
                          body : Bodies, prev : Seal]
        /\ head_seal(append[w].company) \in Seal
    <3>1. append[w] \in [pc : {"head", "insert"}, company : Companies,
                         body : Bodies, prev : Seal]
      BY <2>1 DEF AppendCall, IdleAppend
    <3> QED
      BY <3>1, HeadType
  <2>3. [append[w] EXCEPT !.pc = "insert", !.prev = head_seal(append[w].company)]
          \in AppendCall
    BY <2>2 DEF AppendCall
  <2>4. append' = [append EXCEPT ![w] =
          [append[w] EXCEPT !.pc = "insert", !.prev = head_seal(append[w].company)]]
    BY <1>2 DEF ReadHead
  <2> QED
    BY <1>2, <2>3, <2>4 DEF LedgerTypeOK, ReadHead
<1>3. ASSUME NEW w \in Writers, Insert(w) PROVE LedgerTypeOK'
  BY <1>3, InsertFacts DEF LedgerTypeOK, AppendCall
<1>4. ASSUME NEW w \in Writers, Fail(w) PROVE LedgerTypeOK'
  BY <1>4 DEF LedgerTypeOK, Fail, AppendCall
<1>5. ASSUME NEW p \in Processes, Crash(p) PROVE LedgerTypeOK'
  BY <1>5 DEF LedgerTypeOK, Crash, AppendCall
<1>6. ASSUME NEW c \in Companies, Damage(c) PROVE LedgerTypeOK'
  BY <1>6, DamageType DEF LedgerTypeOK
<1>7. CASE UNCHANGED ledgerVars
  BY <1>7 DEF LedgerTypeOK, ledgerVars
<1> QED
  BY <1>1, <1>2, <1>3, <1>4, <1>5, <1>6, <1>7 DEF LedgerNext

\* The ledger's state keeps its types.
THEOREM LedgerTypeCorrect == LedgerSpec => []LedgerTypeOK
<1> QED
  BY LedgerTypeInit, LedgerTypeNext, PTL DEF LedgerSpec

-----------------------------------------------------------------------------
(* Chain integrity *)

\* ObjectLocked and Exclusive: only Call leaves idle, only ReadHead gets to insert.
LEMMA LocksNext ==
  ASSUME Serialized, LedgerTypeOK, ObjectLocked, Exclusive, [LedgerNext]_ledgerVars
  PROVE  ObjectLocked' /\ Exclusive'
<1> USE DEF LedgerTypeOK
<1> DEFINE Idle(w) == append'[w] = IdleAppend
           Same(w) == append'[w] = append[w]
<1>1. ASSUME \A w \in Writers : Idle(w) \/ Same(w)
      PROVE  ObjectLocked' /\ Exclusive'
  <2>1. \A w \in Writers : Idle(w) => At(w, "idle")' /\ ~At(w, "insert")'
    BY DEF At, IdleAppend
  <2>2. \A w \in Writers : Same(w) => append'[w].pc = append[w].pc
                                        /\ append'[w].company = append[w].company
    OBVIOUS
  <2> QED
    BY <1>1, <2>1, <2>2 DEF ObjectLocked, Exclusive, At
<1>2. ASSUME NEW w \in Writers, NEW c \in Companies, NEW b \in Bodies, Call(w, c, b)
      PROVE  ObjectLocked' /\ Exclusive'
  <2>1. /\ append'[w].pc = "head"
        /\ \A v \in Writers \ {w} : Same(v)
        /\ \A v \in Writers : Home[v] = Home[w] => At(v, "idle")
    BY <1>2 DEF Call, ObjectLockFree
  <2>2. ObjectLocked'
    BY <2>1 DEF ObjectLocked, At
  <2>3. \A v \in Writers : At(v, "insert")' => v # w /\ append'[v] = append[v]
    BY <2>1 DEF At
  <2>4. Exclusive'
    BY <2>3 DEF Exclusive, At
  <2> QED
    BY <2>2, <2>4
<1>3. ASSUME NEW w \in Writers, ReadHead(w) PROVE ObjectLocked' /\ Exclusive'
  <2>1. /\ append'[w].pc = "insert" /\ append[w].pc = "head"
        /\ append'[w].company = append[w].company
        /\ \A v \in Writers \ {w} : Same(v)
    BY <1>3 DEF ReadHead, At
  <2>2. ObjectLocked'
    BY <2>1 DEF ObjectLocked, At
  <2>3. \A v \in Writers \ {w} :
          At(v, "insert") => append[v].company # append[w].company
    <3>1. CASE Backend = "postgres"
      BY <1>3, <3>1 DEF ReadHead, AdvisoryLockFree
    <3>2. CASE \A v \in Writers : Home[v] = Home[w]
      BY <2>1, <3>2 DEF ObjectLocked, At
    <3> QED
      BY <3>1, <3>2 DEF Serialized
  <2>4. Exclusive'
    BY <2>1, <2>3 DEF Exclusive, At
  <2> QED
    BY <2>2, <2>4
<1>4. ASSUME NEW w \in Writers, Insert(w) \/ Fail(w) PROVE ObjectLocked' /\ Exclusive'
  BY <1>1, <1>4 DEF Insert, Fail
<1>5. ASSUME NEW p \in Processes, Crash(p) PROVE ObjectLocked' /\ Exclusive'
  BY <1>1, <1>5 DEF Crash
<1>6. ASSUME NEW c \in Companies, Damage(c) PROVE ObjectLocked' /\ Exclusive'
  BY <1>1, <1>6, DamageType
<1>7. CASE UNCHANGED ledgerVars
  BY <1>1, <1>7 DEF ledgerVars
<1> QED
  BY <1>2, <1>3, <1>4, <1>5, <1>6, <1>7 DEF LedgerNext

\* The head a writer read stays the head until it inserts.
LEMMA HeadKnownNext ==
  ASSUME LedgerTypeOK, Exclusive, HeadKnown, LongSeals, WholeChains,
         [LedgerNext]_ledgerVars
  PROVE  HeadKnown'
<1> USE DEF LedgerTypeOK
<1>1. ASSUME NEW w \in Writers, append'[w] = append[w], At(w, "insert"),
             Whole(append[w].company)',
             damaged'[append[w].company] = damaged[append[w].company],
             log'[append[w].company] = log[append[w].company]
      PROVE  (append[w].prev = head_seal(append[w].company))'
  BY <1>1 DEF HeadKnown, Whole, head_seal
<1>2. ASSUME NEW w \in Writers, append'[w] = IdleAppend
      PROVE  ~At(w, "insert")'
  BY <1>2 DEF At, IdleAppend
<1>3. ASSUME log' = log, damaged' = damaged,
             \A w \in Writers : append'[w] = append[w] \/ append'[w] = IdleAppend
      PROVE  HeadKnown'
  BY <1>1, <1>2, <1>3 DEF HeadKnown, Whole, At
<1>4. ASSUME NEW w \in Writers, NEW c \in Companies, NEW b \in Bodies, Call(w, c, b)
      PROVE  HeadKnown'
  <2>1. /\ append'[w].pc = "head" /\ log' = log /\ damaged' = damaged
        /\ \A v \in Writers \ {w} : append'[v] = append[v]
    BY <1>4 DEF Call
  <2> QED
    BY <1>1, <2>1 DEF HeadKnown, Whole, At
<1>5. ASSUME NEW w \in Writers, ReadHead(w) PROVE HeadKnown'
  <2>1. /\ append'[w].prev = head_seal(append[w].company) /\ log' = log /\ damaged' = damaged
        /\ append'[w].company = append[w].company
        /\ \A v \in Writers \ {w} : append'[v] = append[v]
    BY <1>5 DEF ReadHead
  <2>2. (append[w].prev = head_seal(append[w].company))'
    BY <2>1 DEF head_seal
  <2>3. ASSUME NEW v \in Writers \ {w}, At(v, "insert")', Whole(append[v].company)'
        PROVE  (append[v].prev = head_seal(append[v].company))'
    BY <1>1, <2>1, <2>3 DEF At, Whole
  <2> QED
    BY <2>2, <2>3 DEF HeadKnown
<1>6. ASSUME NEW w \in Writers, Insert(w) PROVE HeadKnown'
  <2>1. /\ append' = [append EXCEPT ![w] = IdleAppend] /\ damaged' = damaged
        /\ \A d \in Companies \ {append[w].company} : log'[d] = log[d]
        /\ At(w, "insert")
    BY <1>6, InsertFacts DEF Insert
  <2>2. ASSUME NEW v \in Writers \ {w}, At(v, "insert")', Whole(append[v].company)'
        PROVE  (append[v].prev = head_seal(append[v].company))'
    <3>1. append'[v] = append[v] /\ At(v, "insert")
      BY <2>1, <2>2 DEF At
    <3>2. append[v].company \in Companies
      BY <3>1 DEF At, AppendCall, IdleAppend
    <3>3. append[v].company # append[w].company
      BY <2>1, <3>1 DEF Exclusive
    <3> QED
      BY <1>1, <2>1, <2>2, <3>1, <3>2, <3>3
  <2>3. ~At(w, "insert")'
    BY <1>2, <2>1
  <2> QED
    BY <2>2, <2>3 DEF HeadKnown
<1>7. ASSUME NEW w \in Writers, Fail(w) PROVE HeadKnown'
  BY <1>3, <1>7 DEF Fail
<1>8. ASSUME NEW p \in Processes, Crash(p) PROVE HeadKnown'
  BY <1>3, <1>8 DEF Crash
<1>9. ASSUME NEW c \in Companies, Damage(c) PROVE HeadKnown'
  <2>1. /\ append' = append /\ damaged[c] = "none"
        /\ \A d \in Companies \ {c} : log'[d] = log[d] /\ damaged'[d] = damaged[d]
        /\ Verified(log[c]) /\ Long(log[c]) => (damaged'[c] \in Unseen => AtRest(c))
        /\ damaged'[c] # "none"
    BY <1>9, DamageType
  <2>2. Verified(log[c]) /\ Long(log[c])
    BY <2>1 DEF LongSeals, WholeChains, Whole, verify_chain
  <2>3. \A w \in Writers : At(w, "insert") => append[w].company \in Companies
    BY DEF At, AppendCall, IdleAppend
  <2>4. ASSUME NEW w \in Writers, At(w, "insert")', Whole(append[w].company)'
        PROVE  (append[w].prev = head_seal(append[w].company))'
    <3>1. append'[w] = append[w] /\ At(w, "insert") /\ damaged'[append[w].company] \in Unseen \cup {"none"}
      BY <2>1, <2>4 DEF At, Whole
    <3>2. append[w].company # c
      BY <2>1, <2>2, <3>1 DEF AtRest
    <3> QED
      BY <1>1, <2>1, <2>3, <2>4, <3>1, <3>2
  <2> QED
    BY <2>4 DEF HeadKnown
<1>10. CASE UNCHANGED ledgerVars
  BY <1>3, <1>10 DEF ledgerVars
<1> QED
  BY <1>4, <1>5, <1>6, <1>7, <1>8, <1>9, <1>10 DEF LedgerNext

\* Only Insert adds to a chain that is whole, and over its head; a row added to a
\* broken one leaves it broken, and damage breaks it unless it is of an unseen kind.
LEMMA ChainNext ==
  ASSUME LedgerTypeOK, HeadKnown, LongSeals, WholeChains, BrokenChains,
         [LedgerNext]_ledgerVars
  PROVE  LongSeals' /\ WholeChains' /\ BrokenChains'
<1> USE DEF LedgerTypeOK
<1> DEFINE Right(c) ==
             /\ damaged'[c] \in Unseen \cup {"none"} => Long(log'[c]) /\ Verified(log'[c])
             /\ damaged'[c] \notin Unseen \cup {"none"} => ~Verified(log'[c])
<1>1. ASSUME NEW c \in Companies, log'[c] = log[c], damaged'[c] = damaged[c]
      PROVE  Right(c)
  BY <1>1 DEF LongSeals, WholeChains, BrokenChains, Whole, verify_chain
<1>2. ASSUME NEW w \in Writers, Insert(w), NEW c \in Companies
      PROVE  Right(c)
  <2> DEFINE a == append[w]
             r == [body |-> a.body, prev |-> a.prev, seal |-> digest(a.prev, a.body)]
  <2>1. /\ a.company \in Companies /\ r \in Row
        /\ log[a.company] \in Seq(Row)
        /\ log'[a.company] = Append(log[a.company], r)
        /\ \A d \in Companies \ {a.company} : log'[d] = log[d]
        /\ damaged' = damaged
    BY <1>2, InsertFacts
  <2>2. ASSUME c # a.company PROVE Right(c)
    BY <1>1, <1>2, <2>1, <2>2
  <2>3. ASSUME c = a.company, Whole(c)
        PROVE  Long(log'[c]) /\ Verified(log'[c])
    <3>1. a.prev = head_seal(c)
      BY <1>2, <2>1, <2>3 DEF HeadKnown, Insert
    <3>2. /\ r.prev = IF log[c] = <<>> THEN Genesis ELSE log[c][Len(log[c])].seal
          /\ r.seal = digest(r.prev, r.body)
      BY <3>1 DEF head_seal
    <3>3. Verified(log[c]) /\ Long(log[c])
      BY <2>3 DEF LongSeals, WholeChains, verify_chain
    <3>4. r \in Row /\ log[c] \in Seq(Row) /\ log'[c] = Append(log[c], r)
      BY <2>1, <2>3
    <3> HIDE DEF r
    <3> QED
      BY <3>2, <3>3, <3>4, RowAdded
  <2>4. ASSUME c = a.company, ~Whole(c)
        PROVE  ~Verified(log'[c])
    <3>1. r \in Row /\ log[c] \in Seq(Row) /\ log'[c] = Append(log[c], r)
      BY <2>1, <2>4
    <3> HIDE DEF r
    <3>2. ~Verified(log[c])
      BY <2>4 DEF BrokenChains, verify_chain
    <3>3. PICK k \in 1..Len(log[c]) : ~Chained(log[c], k)
      BY <3>2 DEF Verified
    <3>4. ~Chained(log'[c], k)
      BY <3>1, <3>3, ChainedKept
    <3>5. k \in 1..Len(log'[c])
      BY <3>1, AppendFacts
    <3> QED
      BY <3>4, <3>5 DEF Verified
  <2>5. ASSUME c = a.company PROVE Right(c)
    BY <2>1, <2>3, <2>4, <2>5 DEF Whole
  <2> HIDE DEF a
  <2> QED
    BY <2>2, <2>5
<1>3. ASSUME NEW d \in Companies, Damage(d), NEW c \in Companies
      PROVE  Right(c)
  <2>1. /\ damaged[d] = "none" /\ damaged'[d] # "none"
        /\ \A e \in Companies \ {d} : log'[e] = log[e] /\ damaged'[e] = damaged[e]
        /\ Verified(log[d]) /\ Long(log[d]) =>
             /\ damaged'[d] \in Unseen => Verified(log'[d]) /\ Long(log'[d])
             /\ damaged'[d] \notin Unseen => ~Verified(log'[d])
    BY <1>3, DamageType
  <2>2. Verified(log[d]) /\ Long(log[d])
    BY <2>1 DEF LongSeals, WholeChains, Whole, verify_chain
  <2>3. Right(d)
    BY <2>1, <2>2
  <2> QED
    BY <1>1, <2>1, <2>3
<1>4. ASSUME log' = log, damaged' = damaged, NEW c \in Companies PROVE Right(c)
  BY <1>1, <1>4
<1>5. ASSUME \A c \in Companies : Right(c)
      PROVE  LongSeals' /\ WholeChains' /\ BrokenChains'
  BY <1>5 DEF LongSeals, WholeChains, BrokenChains, Whole, verify_chain
<1>6. \/ log' = log /\ damaged' = damaged
      \/ \E w \in Writers : Insert(w)
      \/ \E d \in Companies : Damage(d)
  BY DEF LedgerNext, Call, ReadHead, Fail, Crash, ledgerVars
<1>7. \A c \in Companies : Right(c)
  <2> HIDE DEF Right
  <2> QED
    BY <1>2, <1>3, <1>4, <1>6
<1> QED
  BY <1>5, <1>7

LEMMA LedgerInvInit == LedgerInit => LedgerIInv
<1> SUFFICES ASSUME LedgerInit PROVE LedgerIInv
  OBVIOUS
<1>1. \A c \in Companies : log[c] = <<>> /\ Whole(c)
  BY DEF LedgerInit, Whole
<1>2. \A w \in Writers : At(w, "idle") /\ ~At(w, "insert")
  BY DEF LedgerInit, At, IdleAppend
<1>3. LongSeals /\ WholeChains /\ BrokenChains
  BY <1>1 DEF LongSeals, Long, WholeChains, BrokenChains, verify_chain, Verified
<1> QED
  BY <1>2, <1>3, LedgerTypeInit DEF LedgerIInv, ObjectLocked, Exclusive, HeadKnown

LEMMA LedgerInvNext ==
  ASSUME Serialized PROVE LedgerIInv /\ [LedgerNext]_ledgerVars => LedgerIInv'
BY LedgerTypeNext, LocksNext, HeadKnownNext, ChainNext DEF LedgerIInv

LEMMA LedgerInvariant ==
  ASSUME Serialized PROVE LedgerSpec => []LedgerIInv
<1>1. LedgerInit => LedgerIInv
  BY LedgerInvInit
<1>2. LedgerIInv /\ [LedgerNext]_ledgerVars => LedgerIInv'
  BY LedgerInvNext
<1> QED
  BY <1>1, <1>2, PTL DEF LedgerSpec

\* Where the appends of a company are serialized, on Postgres whatever the number
\* of processes, on SQLite within one, the chain always verifies unless damaged.
THEOREM ChainIntegrity ==
  ASSUME Serialized PROVE LedgerSpec => []ChainIntact
<1>1. LedgerIInv => ChainIntact
  BY DEF LedgerIInv, WholeChains, Whole, ChainIntact
<1> QED
  BY <1>1, LedgerInvariant, PTL

\* Where appends are serialized, whatever the damage: a row rewritten, resealed
\* alone, lost from under another or moved makes verify_chain fail from then on,
\* whatever is appended later; the last row lost, or every seal from the rewritten
\* row on computed again, never shows.
THEOREM DamageVisible ==
  ASSUME Serialized PROVE LedgerSpec => []DamageSeen
<1>1. LedgerIInv => DamageSeen
  BY DEF LedgerIInv, WholeChains, BrokenChains, Whole, DamageSeen
<1> QED
  BY <1>1, LedgerInvariant, PTL

=============================================================================
