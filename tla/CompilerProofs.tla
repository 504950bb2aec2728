--------------------------- MODULE CompilerProofs ---------------------------
(***************************************************************************)
(* Proofs about Compiler, for any set of well-formed drafts, any outcomes  *)
(* of the agents and any order of their answers.                           *)
(*                                                                         *)
(* The searches are followed call by call: Path says that the calls under  *)
(* way form a path of the needs graph, Looked which needs they have dealt  *)
(* with.  Neither counts on the graph being finite or acyclic; that it is  *)
(* acyclic is what the first search finds out and the second one uses.     *)
(***************************************************************************)
EXTENDS Compiler, FiniteSetTheorems, SequenceTheorems, WellFoundedInduction, TLAPS

Edges(c, n) == Range(StepOf(c, n).needs)
FrameSet(c) == [id : StepIds(c), next : Nat \ {0}]

\* The steps whose calls are under way.
Under(fs) == {fs[k].id : k \in 1..Len(fs)}

\* The calls under way: each is for a need of the one before, the last one it looked at.
Path(c, fs) ==
  /\ \A j, k \in 1..Len(fs) : fs[j].id = fs[k].id => j = k
  /\ \A k \in 1..Len(fs) : fs[k].next <= Len(StepOf(c, fs[k].id).needs) + 1
  /\ \A k \in 1..(Len(fs) - 1) :
       fs[k].next > 1 /\ StepOf(c, fs[k].id).needs[fs[k].next - 1] = fs[k + 1].id

Moved(fs) == [fs EXCEPT ![Len(fs)].next = @ + 1]
Called(n) == [id |-> n, next |-> 1]

\* Every need that a call has looked at is in done, but for the one it waits for.
Looked(c, fs, done) ==
  \A k \in 1..Len(fs) : \A j \in 1..(fs[k].next - 1) :
    \/ StepOf(c, fs[k].id).needs[j] \notin StepIds(c)
    \/ StepOf(c, fs[k].id).needs[j] \in done
    \/ k < Len(fs) /\ j = fs[k].next - 1

\* Every set of steps has one that needs none of them.
Acyclic(c, B) == \A S \in SUBSET B : S # {} => \E n \in S : Edges(c, n) \cap S = {}

\* What B needs is in B.
Closed(c, B) == \A n \in B : Edges(c, n) \cap StepIds(c) \subseteq B

-----------------------------------------------------------------------------
(* Steps of a draft *)

LEMMA SeqFacts ==
  ASSUME NEW s, IsSeq(s)
  PROVE  Len(s) \in Nat /\ DOMAIN s = 1..Len(s)
BY DEF IsSeq

LEMMA StepFacts ==
  ASSUME NEW c, WellFormed(c), NEW n \in StepIds(c)
  PROVE  /\ StepOf(c, n) \in Range(c.steps) /\ StepOf(c, n).id = n
         /\ Len(StepOf(c, n).needs) \in Nat
         /\ DOMAIN StepOf(c, n).needs = 1..Len(StepOf(c, n).needs)
<1>1. PICK k \in DOMAIN c.steps : c.steps[k].id = n
  BY DEF StepIds
<1>2. StepOf(c, n) \in Range(c.steps) /\ StepOf(c, n).id = n
  BY <1>1 DEF StepOf, Range
<1>3. IsSeq(StepOf(c, n).needs)
  BY <1>2 DEF WellFormed
<1> QED BY <1>2, <1>3, SeqFacts

LEMMA StepIdsFinite ==
  ASSUME NEW c, WellFormed(c)
  PROVE  IsFiniteSet(StepIds(c)) /\ Cardinality(StepIds(c)) \in Nat
<1>1. Len(c.steps) \in Nat /\ DOMAIN c.steps = 1..Len(c.steps)
  BY SeqFacts DEF WellFormed
<1>2. IsFiniteSet(1..Len(c.steps))
  BY <1>1, FS_Interval
<1> DEFINE f == [k \in 1..Len(c.steps) |-> c.steps[k].id]
<1>3. f \in Surjection(1..Len(c.steps), StepIds(c))
  BY <1>1 DEF StepIds, Surjection
<1>4. IsFiniteSet(StepIds(c))
  BY <1>2, <1>3, FS_Surjection
<1> QED BY <1>4, FS_CardinalityType

LEMMA EdgeFacts ==
  ASSUME NEW c, WellFormed(c), NEW n \in StepIds(c)
  PROVE  \A j \in 1..Len(StepOf(c, n).needs) : StepOf(c, n).needs[j] \in Edges(c, n)
BY StepFacts DEF Edges, Range

LEMMA EdgeIndex ==
  ASSUME NEW c, WellFormed(c), NEW n \in StepIds(c), NEW d \in Edges(c, n)
  PROVE  \E j \in 1..Len(StepOf(c, n).needs) : StepOf(c, n).needs[j] = d
BY StepFacts DEF Edges, Range

LEMMA FrameFacts ==
  ASSUME NEW c, NEW f \in FrameSet(c)
  PROVE  /\ f.id \in StepIds(c) /\ f.next \in Nat \ {0}
         /\ [f EXCEPT !.next = @ + 1] \in FrameSet(c)
         /\ [f EXCEPT !.next = @ + 1].id = f.id /\ [f EXCEPT !.next = @ + 1].next = f.next + 1
BY DEF FrameSet

LEMMA FramesFacts ==
  ASSUME NEW c, NEW fs \in Seq(FrameSet(c))
  PROVE  /\ Len(fs) \in Nat /\ DOMAIN fs = 1..Len(fs)
         /\ \A k \in 1..Len(fs) : fs[k] \in FrameSet(c) /\ fs[k].id \in StepIds(c)
         /\ fs # <<>> => Len(fs) >= 1 /\ fs[Len(fs)] \in FrameSet(c)
<1>1. Len(fs) \in Nat /\ DOMAIN fs = 1..Len(fs) /\ \A k \in 1..Len(fs) : fs[k] \in FrameSet(c)
  OBVIOUS
<1>2. \A k \in 1..Len(fs) : fs[k].id \in StepIds(c)
  BY <1>1, FrameFacts
<1>3. fs # <<>> => Len(fs) >= 1
  OBVIOUS
<1>4. fs # <<>> => Len(fs) \in 1..Len(fs)
  BY <1>1, <1>3
<1> QED BY <1>1, <1>2, <1>3, <1>4

-----------------------------------------------------------------------------
(* Calls of visit *)

\* A call begins.
LEMMA CallsOn ==
  ASSUME NEW c, WellFormed(c), NEW fs \in Seq(FrameSet(c)), Path(c, fs), NEW done, Looked(c, fs, done),
         NEW n \in StepIds(c), \A k \in 1..Len(fs) : fs[k].id # n,
         NEW new,
         \/ fs = <<>> /\ new = <<Called(n)>>
         \/ /\ fs # <<>> /\ fs[Len(fs)].next <= Len(StepOf(c, fs[Len(fs)].id).needs)
            /\ n = StepOf(c, fs[Len(fs)].id).needs[fs[Len(fs)].next]
            /\ new = Append(Moved(fs), Called(n))
  PROVE  /\ new \in Seq(FrameSet(c)) /\ Path(c, new) /\ Looked(c, new, done)
         /\ Under(new) = Under(fs) \cup {n}
<1>0. Len(StepOf(c, n).needs) \in Nat
  BY StepFacts
<1>1. ASSUME fs = <<>>, new = <<Called(n)>>
      PROVE  /\ new \in Seq(FrameSet(c)) /\ Path(c, new) /\ Looked(c, new, done)
             /\ Under(new) = Under(fs) \cup {n}
  <2>1. new \in Seq(FrameSet(c)) /\ Len(new) = 1 /\ new[1].id = n /\ new[1].next = 1
    BY <1>1 DEF FrameSet, Called
  <2>2. \A k \in 1..Len(new) : k = 1
    BY <2>1
  <2>3. Len(fs) = 0
    BY <1>1
  <2> QED BY <2>1, <2>2, <2>3, <1>0 DEF Path, Looked, Under
<1>2. ASSUME fs # <<>>, fs[Len(fs)].next <= Len(StepOf(c, fs[Len(fs)].id).needs),
             n = StepOf(c, fs[Len(fs)].id).needs[fs[Len(fs)].next],
             new = Append(Moved(fs), Called(n))
      PROVE  /\ new \in Seq(FrameSet(c)) /\ Path(c, new) /\ Looked(c, new, done)
             /\ Under(new) = Under(fs) \cup {n}
  <2> DEFINE L == Len(fs)
  <2>1. L \in Nat /\ L >= 1 /\ \A k \in 1..L : fs[k] \in FrameSet(c)
    BY <1>2
  <2>2. /\ new \in Seq(FrameSet(c)) /\ Len(new) = L + 1
        /\ \A k \in 1..(L - 1) : new[k] = fs[k]
        /\ new[L].id = fs[L].id /\ new[L].next = fs[L].next + 1
        /\ new[L + 1].id = n /\ new[L + 1].next = 1
    <3> DEFINE F == [fs EXCEPT ![L].next = @ + 1]
               g == [id |-> n, next |-> 1]
    <3>1. g \in FrameSet(c) /\ g.id = n /\ g.next = 1
      BY DEF FrameSet
    <3>2. L \in DOMAIN fs /\ fs[L] \in FrameSet(c)
      BY <1>2, FramesFacts
    <3>3. /\ [fs[L] EXCEPT !.next = @ + 1] \in FrameSet(c)
          /\ [fs[L] EXCEPT !.next = @ + 1].id = fs[L].id
          /\ [fs[L] EXCEPT !.next = @ + 1].next = fs[L].next + 1
      BY <3>2, FrameFacts
    <3>4. /\ F \in Seq(FrameSet(c)) /\ Len(F) = L /\ \A k \in 1..(L - 1) : F[k] = fs[k]
          /\ F[L] = [fs[L] EXCEPT !.next = @ + 1]
      BY <2>1, <3>2, <3>3
    <3>5. F[L].id = fs[L].id /\ F[L].next = fs[L].next + 1
      BY <3>3, <3>4
    <3>6. new = Append(F, g)
      BY <1>2 DEF Moved, Called
    <3> HIDE DEF F, g
    <3>7. /\ new \in Seq(FrameSet(c)) /\ Len(new) = L + 1 /\ new[L + 1] = g
          /\ \A k \in 1..L : new[k] = F[k]
      BY <2>1, <3>1, <3>4, <3>6
    <3>8. new[L] = F[L] /\ \A k \in 1..(L - 1) : new[k] = fs[k]
      BY <2>1, <3>4, <3>7
    <3> QED BY <3>1, <3>5, <3>7, <3>8
  <2>3. \A k \in 1..L : new[k].id = fs[k].id
    BY <2>1, <2>2
  <2> HIDE DEF L
  <2>4. Under(new) = Under(fs) \cup {n}
    <3>1. Under(fs) = {fs[k].id : k \in 1..L} /\ Under(new) = {new[k].id : k \in 1..Len(new)}
      BY DEF Under, L
    <3>2. ASSUME NEW k \in 1..Len(new) PROVE new[k].id \in Under(fs) \cup {n}
      <4>1. k \in 1..L \/ k = L + 1
        BY <2>1, <2>2
      <4> QED BY <4>1, <3>1, <2>2, <2>3
    <3>3. ASSUME NEW k \in 1..L PROVE fs[k].id \in Under(new)
      <4>1. k \in 1..Len(new)
        BY <2>1, <2>2
      <4> QED BY <4>1, <3>1, <2>3
    <3>4. L + 1 \in 1..Len(new)
      BY <2>1, <2>2
    <3>5. n \in Under(new)
      BY <3>1, <3>4, <2>2
    <3>6. ASSUME NEW m \in Under(fs) PROVE m \in Under(new)
      <4>1. PICK k \in 1..L : m = fs[k].id
        BY <3>1
      <4> QED BY <4>1, <3>3
    <3>7. ASSUME NEW m \in Under(new) PROVE m \in Under(fs) \cup {n}
      <4>1. PICK k \in 1..Len(new) : m = new[k].id
        BY <3>1
      <4> QED BY <4>1, <3>2
    <3> QED BY <3>5, <3>6, <3>7
  <2>5. Path(c, new)
    <3>1. ASSUME NEW j \in 1..Len(new), NEW k \in 1..Len(new), new[j].id = new[k].id
          PROVE  j = k
      <4>1. (j \in 1..L \/ j = L + 1) /\ (k \in 1..L \/ k = L + 1)
        BY <2>1, <2>2
      <4>2. \A m \in 1..L : new[m].id # n
        BY <2>3 DEF L
      <4>3. \A m, o \in 1..L : fs[m].id = fs[o].id => m = o
        BY DEF Path, L
      <4> QED BY <4>1, <4>2, <4>3, <3>1, <2>2, <2>3
    <3>2. ASSUME NEW k \in 1..Len(new)
          PROVE  new[k].next <= Len(StepOf(c, new[k].id).needs) + 1
      <4>1. CASE k = L + 1
        BY <4>1, <2>2, <1>0
      <4>2. CASE k = L
        <5>1. Len(StepOf(c, fs[L].id).needs) \in Nat /\ fs[L].next \in Nat
          BY <2>1, StepFacts DEF FrameSet
        <5>2. fs[L].next <= Len(StepOf(c, fs[L].id).needs)
          BY <1>2 DEF L
        <5>3. new[k].id = fs[L].id /\ new[k].next = fs[L].next + 1
          BY <4>2, <2>2
        <5> QED BY <5>1, <5>2, <5>3
      <4>3. CASE k \in 1..(L - 1)
        <5>1. k \in 1..L
          BY <4>3, <2>1
        <5>2. fs[k].next <= Len(StepOf(c, fs[k].id).needs) + 1
          BY <5>1 DEF Path, L
        <5> QED BY <4>3, <5>2, <2>2
      <4> QED BY <4>1, <4>2, <4>3, <2>1, <2>2
    <3>3. ASSUME NEW k \in 1..(Len(new) - 1)
          PROVE  new[k].next > 1 /\ StepOf(c, new[k].id).needs[new[k].next - 1] = new[k + 1].id
      <4>1. CASE k = L
        <5>1. fs[L].next \in Nat \ {0}
          BY <2>1 DEF FrameSet
        <5>2. n = StepOf(c, fs[L].id).needs[fs[L].next]
          BY <1>2 DEF L
        <5>3. new[k].id = fs[L].id /\ new[k].next = fs[L].next + 1 /\ new[k + 1].id = n
          BY <4>1, <2>2
        <5>4. new[k].next - 1 = fs[L].next /\ new[k].next > 1
          <6>1. PICK x \in Nat \ {0} : x = fs[L].next
            BY <5>1
          <6>2. new[k].next = x + 1
            BY <6>1, <5>3
          <6> QED BY <6>1, <6>2
        <5> QED BY <5>2, <5>3, <5>4
      <4>2. CASE k \in 1..(L - 1)
        <5>1. k + 1 \in 1..L
          BY <4>2, <2>1
        <5> QED BY <4>2, <5>1, <2>1, <2>2, <2>3 DEF Path, L
      <4> QED BY <4>1, <4>2, <2>1, <2>2
    <3> QED BY <3>1, <3>2, <3>3 DEF Path
  <2>6. Looked(c, new, done)
    <3> SUFFICES ASSUME NEW k \in 1..Len(new), NEW j \in 1..(new[k].next - 1)
                 PROVE  \/ StepOf(c, new[k].id).needs[j] \notin StepIds(c)
                        \/ StepOf(c, new[k].id).needs[j] \in done
                        \/ k < Len(new) /\ j = new[k].next - 1
      BY DEF Looked
    <3>1. CASE k = L + 1
      BY <3>1, <2>2
    <3>2. CASE k = L
      <4>1. fs[L].next \in Nat \ {0}
        BY <2>1 DEF FrameSet
      <4>2. CASE j = fs[L].next
        BY <4>1, <4>2, <3>2, <2>1, <2>2
      <4>3. CASE j \in 1..(fs[L].next - 1)
        BY <4>3, <3>2, <2>1, <2>2 DEF Looked, L
      <4> QED BY <4>1, <4>2, <4>3, <3>2, <2>2
    <3>3. CASE k \in 1..(L - 1)
      BY <3>3, <2>1, <2>2 DEF Looked, L
    <3> QED BY <3>1, <3>2, <3>3, <2>1, <2>2
  <2> QED BY <2>2, <2>4, <2>5, <2>6 DEF L
<1> QED BY <1>1, <1>2

\* A call goes on to its next need.
LEMMA GoesOn ==
  ASSUME NEW c, WellFormed(c), NEW fs \in Seq(FrameSet(c)), Path(c, fs), NEW done, Looked(c, fs, done),
         fs # <<>>, fs[Len(fs)].next <= Len(StepOf(c, fs[Len(fs)].id).needs),
         NEW new, new = Moved(fs),
         \/ StepOf(c, fs[Len(fs)].id).needs[fs[Len(fs)].next] \notin StepIds(c)
         \/ StepOf(c, fs[Len(fs)].id).needs[fs[Len(fs)].next] \in done
  PROVE  /\ new \in Seq(FrameSet(c)) /\ Path(c, new) /\ Looked(c, new, done)
         /\ Under(new) = Under(fs)
<1> DEFINE L == Len(fs)
<1>1. L \in Nat /\ L >= 1 /\ \A k \in 1..L : fs[k] \in FrameSet(c)
  OBVIOUS
<1>2. L \in DOMAIN fs /\ fs[L] \in FrameSet(c) /\ fs[L].next \in Nat \ {0}
  <2>1. L \in DOMAIN fs /\ fs[L] \in FrameSet(c)
    BY <1>1, FramesFacts
  <2> QED BY <2>1, FrameFacts
<1>3. /\ [fs[L] EXCEPT !.next = @ + 1] \in FrameSet(c)
      /\ [fs[L] EXCEPT !.next = @ + 1].id = fs[L].id
      /\ [fs[L] EXCEPT !.next = @ + 1].next = fs[L].next + 1
  BY <1>2, FrameFacts
<1>4. /\ new \in Seq(FrameSet(c)) /\ Len(new) = L /\ \A k \in 1..(L - 1) : new[k] = fs[k]
      /\ new[L] = [fs[L] EXCEPT !.next = @ + 1]
  BY <1>1, <1>2, <1>3 DEF Moved
<1>5. new[L].id = fs[L].id /\ new[L].next = fs[L].next + 1
  BY <1>3, <1>4
<1>6. \A k \in 1..L : new[k].id = fs[k].id
  <2>1. \A k \in 1..L : k \in 1..(L - 1) \/ k = L
    BY <1>1
  <2> QED BY <2>1, <1>4, <1>5
<1>7. Len(StepOf(c, fs[L].id).needs) \in Nat
  BY <1>2, StepFacts DEF FrameSet
<1>8. /\ fs[L].next <= Len(StepOf(c, fs[L].id).needs)
      /\ \/ StepOf(c, fs[L].id).needs[fs[L].next] \notin StepIds(c)
         \/ StepOf(c, fs[L].id).needs[fs[L].next] \in done
  OBVIOUS
<1>9. /\ \A j, k \in 1..L : fs[j].id = fs[k].id => j = k
      /\ \A k \in 1..L : fs[k].next <= Len(StepOf(c, fs[k].id).needs) + 1
      /\ \A k \in 1..(L - 1) :
           fs[k].next > 1 /\ StepOf(c, fs[k].id).needs[fs[k].next - 1] = fs[k + 1].id
  BY DEF Path
<1>10. \A k \in 1..L : \A j \in 1..(fs[k].next - 1) :
         \/ StepOf(c, fs[k].id).needs[j] \notin StepIds(c)
         \/ StepOf(c, fs[k].id).needs[j] \in done
         \/ k < L /\ j = fs[k].next - 1
  BY DEF Looked
<1> HIDE DEF L
<1>11. Path(c, new)
  <2>1. \A j, k \in 1..Len(new) : new[j].id = new[k].id => j = k
    BY <1>4, <1>6, <1>9
  <2>2. ASSUME NEW k \in 1..Len(new)
        PROVE  new[k].next <= Len(StepOf(c, new[k].id).needs) + 1
    <3>1. CASE k = L
      BY <3>1, <1>2, <1>5, <1>7, <1>8
    <3>2. CASE k \in 1..(L - 1)
      BY <3>2, <1>1, <1>4, <1>9
    <3> QED BY <3>1, <3>2, <1>1, <1>4
  <2>3. ASSUME NEW k \in 1..(Len(new) - 1)
        PROVE  new[k].next > 1 /\ StepOf(c, new[k].id).needs[new[k].next - 1] = new[k + 1].id
    <3>1. k \in 1..(L - 1) /\ k + 1 \in 1..L
      BY <1>1, <1>4
    <3> QED BY <3>1, <1>4, <1>6, <1>9
  <2> QED BY <2>1, <2>2, <2>3 DEF Path
<1>12. Looked(c, new, done)
  <2> SUFFICES ASSUME NEW k \in 1..Len(new), NEW j \in 1..(new[k].next - 1)
               PROVE  \/ StepOf(c, new[k].id).needs[j] \notin StepIds(c)
                      \/ StepOf(c, new[k].id).needs[j] \in done
                      \/ k < Len(new) /\ j = new[k].next - 1
    BY DEF Looked
  <2>1. CASE k = L
    <3>1. CASE j = fs[L].next
      BY <3>1, <2>1, <1>5, <1>8
    <3>2. CASE j \in 1..(fs[L].next - 1)
      BY <3>2, <2>1, <1>1, <1>5, <1>10
    <3> QED BY <3>1, <3>2, <2>1, <1>2, <1>5
  <2>2. CASE k \in 1..(L - 1)
    BY <2>2, <1>1, <1>4, <1>10
  <2>3. k \in 1..(L - 1) \/ k = L
    BY <1>1, <1>4
  <2> QED BY <2>1, <2>2, <2>3
<1>13. Under(new) = Under(fs)
  <2>1. Under(fs) = {fs[k].id : k \in 1..L}
    BY DEF Under, L
  <2>2. Under(new) = {new[k].id : k \in 1..L}
    BY <1>4 DEF Under
  <2> QED BY <2>1, <2>2, <1>6
<1>14. new \in Seq(FrameSet(c))
  BY <1>4, Zenon
<1> QED BY <1>11, <1>12, <1>13, <1>14

\* A call ends, and its step is done: all its needs were.
LEMMA CallEnds ==
  ASSUME NEW c, WellFormed(c), NEW fs \in Seq(FrameSet(c)), Path(c, fs), NEW done, Looked(c, fs, done),
         fs # <<>>, ~(fs[Len(fs)].next <= Len(StepOf(c, fs[Len(fs)].id).needs)),
         NEW new, new = Front(fs)
  PROVE  /\ new \in Seq(FrameSet(c)) /\ Path(c, new)
         /\ Looked(c, new, done \cup {fs[Len(fs)].id})
         /\ Under(new) = Under(fs) \ {fs[Len(fs)].id}
         /\ Edges(c, fs[Len(fs)].id) \cap StepIds(c) \subseteq done
<1> DEFINE L == Len(fs)
<1>1. L \in Nat /\ L >= 1 /\ \A k \in 1..L : fs[k] \in FrameSet(c)
  OBVIOUS
<1>2. /\ new \in Seq(FrameSet(c)) /\ Len(new) = L - 1
      /\ \A k \in 1..(L - 1) : new[k] = fs[k]
  <2>1. \A k \in 1..(L - 1) : fs[k] \in FrameSet(c)
    BY <1>1
  <2>2. new = SubSeq(fs, 1, L - 1)
    BY DEF Front
  <2> HIDE DEF L
  <2>3. /\ new \in Seq(FrameSet(c)) /\ Len(new) = (IF 1 <= L - 1 THEN (L - 1) - 1 + 1 ELSE 0)
        /\ \A k \in 1..((L - 1) - 1 + 1) : new[k] = fs[1 + k - 1]
    BY <1>1, <2>1, <2>2, SubSeqProperties
  <2> QED BY <1>1, <2>3
<1>3. /\ \A j, k \in 1..L : fs[j].id = fs[k].id => j = k
      /\ \A k \in 1..L : fs[k].next <= Len(StepOf(c, fs[k].id).needs) + 1
      /\ \A k \in 1..(L - 1) :
           fs[k].next > 1 /\ StepOf(c, fs[k].id).needs[fs[k].next - 1] = fs[k + 1].id
  BY DEF Path
<1>4. \A k \in 1..L : \A j \in 1..(fs[k].next - 1) :
         \/ StepOf(c, fs[k].id).needs[j] \notin StepIds(c)
         \/ StepOf(c, fs[k].id).needs[j] \in done
         \/ k < L /\ j = fs[k].next - 1
  BY DEF Looked
<1>5. fs[L].id \in StepIds(c) /\ fs[L].next \in Nat /\ Len(StepOf(c, fs[L].id).needs) \in Nat
  <2>1. fs[L] \in FrameSet(c)
    BY FramesFacts
  <2>2. fs[L].id \in StepIds(c) /\ fs[L].next \in Nat
    BY <2>1, FrameFacts
  <2> QED BY <2>2, StepFacts
<1>6. fs[L].next = Len(StepOf(c, fs[L].id).needs) + 1
  <2>1. /\ fs[L].next <= Len(StepOf(c, fs[L].id).needs) + 1
        /\ ~(fs[L].next <= Len(StepOf(c, fs[L].id).needs))
    BY <1>1, <1>3
  <2> QED BY <1>5, <2>1
<1> HIDE DEF L
<1>7. Path(c, new)
  <2>0. \A k \in 1..Len(new) : k \in 1..L /\ new[k] = fs[k]
    BY <1>1, <1>2
  <2>1. \A j, k \in 1..Len(new) : new[j].id = new[k].id => j = k
    BY <2>0, <1>3
  <2>2. \A k \in 1..Len(new) : new[k].next <= Len(StepOf(c, new[k].id).needs) + 1
    BY <2>0, <1>3
  <2>3. ASSUME NEW k \in 1..(Len(new) - 1)
        PROVE  new[k].next > 1 /\ StepOf(c, new[k].id).needs[new[k].next - 1] = new[k + 1].id
    <3>1. k \in 1..(L - 1) /\ k + 1 \in 1..(L - 1)
      BY <1>1, <1>2
    <3> QED BY <3>1, <1>2, <1>3
  <2> QED BY <2>1, <2>2, <2>3 DEF Path
<1>8. Looked(c, new, done \cup {fs[L].id})
  <2> SUFFICES ASSUME NEW k \in 1..Len(new), NEW j \in 1..(new[k].next - 1)
               PROVE  \/ StepOf(c, new[k].id).needs[j] \notin StepIds(c)
                      \/ StepOf(c, new[k].id).needs[j] \in done \cup {fs[L].id}
                      \/ k < Len(new) /\ j = new[k].next - 1
    BY DEF Looked
  <2>1. k \in 1..(L - 1) /\ k \in 1..L /\ new[k] = fs[k]
    BY <1>1, <1>2
  <2>2. CASE k = L - 1 /\ j = fs[k].next - 1
    BY <2>1, <2>2, <1>1, <1>3
  <2> QED BY <2>1, <2>2, <1>1, <1>2, <1>4
<1>9. Under(new) = Under(fs) \ {fs[L].id}
  <2>1. \A k \in 1..(L - 1) : fs[k].id # fs[L].id
    BY <1>1, <1>3
  <2>2. Under(fs) = {fs[k].id : k \in 1..L} /\ Under(new) = {new[k].id : k \in 1..(L - 1)}
    BY <1>2 DEF Under, L
  <2>3. ASSUME NEW k \in 1..(L - 1) PROVE new[k].id \in Under(fs) \ {fs[L].id}
    <3>1. k \in 1..L
      BY <1>1
    <3> QED BY <3>1, <2>1, <2>2, <1>2
  <2>4. ASSUME NEW k \in 1..L, fs[k].id # fs[L].id PROVE fs[k].id \in Under(new)
    <3>1. k \in 1..(L - 1)
      BY <1>1, <2>4
    <3> QED BY <3>1, <2>2, <1>2
  <2> QED BY <2>2, <2>3, <2>4
<1>10. Edges(c, fs[L].id) \cap StepIds(c) \subseteq done
  <2> SUFFICES ASSUME NEW d \in Edges(c, fs[L].id), d \in StepIds(c) PROVE d \in done
    OBVIOUS
  <2>1. PICK j \in 1..Len(StepOf(c, fs[L].id).needs) : StepOf(c, fs[L].id).needs[j] = d
    BY <1>5, EdgeIndex
  <2> QED BY <2>1, <1>1, <1>4, <1>5, <1>6
<1> QED BY <1>2, <1>7, <1>8, <1>9, <1>10 DEF L

-----------------------------------------------------------------------------
(* Cycles *)

LEMMA AcyclicGrows ==
  ASSUME NEW c, NEW B \in SUBSET StepIds(c), Acyclic(c, B), Closed(c, B),
         NEW n \in StepIds(c), n \notin B, Edges(c, n) \cap StepIds(c) \subseteq B
  PROVE  Acyclic(c, B \cup {n}) /\ Closed(c, B \cup {n})
<1>1. Closed(c, B \cup {n})
  BY DEF Closed
<1>2. ASSUME NEW S \in SUBSET (B \cup {n}), S # {}
      PROVE  \E m \in S : Edges(c, m) \cap S = {}
  <2>1. CASE S \cap B = {}
    BY <2>1, <1>2
  <2>2. ASSUME S \cap B # {}
        PROVE  \E m \in S : Edges(c, m) \cap S = {}
    <3>1. PICK m \in S \cap B : Edges(c, m) \cap (S \cap B) = {}
      BY <2>2 DEF Acyclic
    <3>2. n \notin Edges(c, m)
      BY <3>1 DEF Closed
    <3> QED BY <3>1, <3>2
  <2> QED BY <2>1, <2>2
<1> QED BY <1>1, <1>2 DEF Acyclic

\* Each call but the last is for a step that needs the next.
LEMMA PathEdges ==
  ASSUME NEW c, WellFormed(c), NEW fs \in Seq(FrameSet(c)), Path(c, fs), NEW k \in 1..(Len(fs) - 1)
  PROVE  fs[k + 1].id \in Edges(c, fs[k].id)
<1>1. fs[k] \in FrameSet(c) /\ k \in 1..Len(fs)
  OBVIOUS
<1>2. /\ fs[k].id \in StepIds(c) /\ fs[k].next \in Nat /\ fs[k].next > 1
      /\ fs[k].next <= Len(StepOf(c, fs[k].id).needs) + 1
      /\ StepOf(c, fs[k].id).needs[fs[k].next - 1] = fs[k + 1].id
  BY <1>1 DEF Path, FrameSet
<1>3. fs[k].next - 1 \in 1..Len(StepOf(c, fs[k].id).needs)
  BY <1>2, StepFacts
<1> QED BY <1>2, <1>3, EdgeFacts

\* In a graph without cycles no call comes back to one under way.
LEMMA NoWayBack ==
  ASSUME NEW c, WellFormed(c), NEW fs \in Seq(FrameSet(c)), Path(c, fs), Acyclic(c, StepIds(c)),
         NEW i \in 1..Len(fs), fs[i].id \in Edges(c, fs[Len(fs)].id)
  PROVE  FALSE
<1> DEFINE S == {fs[k].id : k \in i..Len(fs)}
<1>1. S \subseteq StepIds(c) /\ S # {}
  BY FramesFacts
<1>2. PICK n \in S : Edges(c, n) \cap S = {}
  BY <1>1 DEF Acyclic
<1>3. PICK k \in i..Len(fs) : n = fs[k].id
  BY <1>2
<1>4. CASE k = Len(fs)
  BY <1>2, <1>3, <1>4
<1>5. CASE k < Len(fs)
  <2>1. k \in 1..(Len(fs) - 1) /\ k + 1 \in i..Len(fs)
    BY <1>3, <1>5
  <2> QED BY <2>1, <1>2, <1>3, PathEdges
<1> QED BY <1>3, <1>4, <1>5

\* A path without repetition is no longer than there are steps.
LEMMA ShortPath ==
  ASSUME NEW S, IsFiniteSet(S), NEW p \in Seq(S), IsInjective(p)
  PROVE  p \in BoundedSeq(S, Cardinality(S))
<1>1. Len(p) \in Nat /\ p \in [1..Len(p) -> S] /\ Cardinality(S) \in Nat
  BY FS_CardinalityType
<1>2. p \in Injection(1..Len(p), S)
  BY <1>1 DEF Injection, IsInjective
<1>3. Cardinality(1..Len(p)) = Len(p)
  <2>1. Cardinality(1..Len(p)) = IF 1 > Len(p) THEN 0 ELSE Len(p) - 1 + 1
    <3>1. 1 \in Int /\ Len(p) \in Int
      BY <1>1
    <3> QED BY <3>1, FS_Interval
  <2> QED BY <1>1, <2>1
<1>4. Len(p) <= Cardinality(S)
  BY <1>2, <1>3, FS_Injection
<1> QED BY <1>1, <1>4 DEF BoundedSeq, SeqOf

\* What the search takes for a cycle is one.
LEMMA CycleFound ==
  ASSUME NEW c, WellFormed(c), NEW fs \in Seq(FrameSet(c)), Path(c, fs),
         NEW i \in 1..Len(fs), fs[i].id \in Edges(c, fs[Len(fs)].id),
         NEW stack, stack = [k \in 1..Len(fs) |-> fs[k].id]
  PROVE  SubSeq(stack, i, Len(fs)) \in Cycles(c)
<1> DEFINE L == Len(fs)
           p == SubSeq(stack, i, Len(fs))
<1>0. L \in Nat /\ i \in 1..L /\ \A k \in 1..L : fs[k].id \in StepIds(c)
  BY FramesFacts
<1>1. stack \in Seq(StepIds(c)) /\ Len(stack) = L /\ \A k \in 1..L : stack[k] = fs[k].id
  BY <1>0
<1>2. /\ p \in Seq(StepIds(c)) /\ Len(p) = L - i + 1
      /\ \A k \in 1..(L - i + 1) : p[k] = fs[i + k - 1].id
  <2>1. \A k \in i..L : stack[k] \in StepIds(c)
    BY <1>0, <1>1
  <2>2. /\ p \in Seq(StepIds(c)) /\ Len(p) = (IF i <= L THEN L - i + 1 ELSE 0)
        /\ \A k \in 1..(L - i + 1) : p[k] = stack[i + k - 1]
    BY <1>0, <2>1, SubSeqProperties
  <2>3. \A k \in 1..(L - i + 1) : i + k - 1 \in 1..L
    BY <1>0
  <2> QED BY <1>0, <1>1, <2>2, <2>3
<1>3. p # <<>> /\ DOMAIN p = 1..Len(p)
  <2>1. Len(p) > 0
    BY <1>0, <1>2
  <2> HIDE DEF p
  <2> QED BY <2>1, <1>2
<1>4. IsInjective(p)
  <2> SUFFICES ASSUME NEW a \in 1..Len(p), NEW b \in 1..Len(p), p[a] = p[b] PROVE a = b
    BY <1>3 DEF IsInjective
  <2> HIDE DEF p, L
  <2>0. a \in 1..(L - i + 1) /\ b \in 1..(L - i + 1)
    BY <1>2
  <2>1. i + a - 1 \in 1..L /\ i + b - 1 \in 1..L /\ fs[i + a - 1].id = fs[i + b - 1].id
    <3>1. i + a - 1 \in 1..L /\ i + b - 1 \in 1..L
      BY <1>0, <2>0
    <3>2. p[a] = fs[i + a - 1].id /\ p[b] = fs[i + b - 1].id
      BY <1>2, <2>0
    <3> QED BY <3>1, <3>2
  <2>2. i + a - 1 = i + b - 1
    BY <2>1 DEF Path, L
  <2> QED BY <2>2, <1>0, <2>0
<1>5. p \in BoundedSeq(StepIds(c), Cardinality(StepIds(c)))
  BY <1>2, <1>4, ShortPath, StepIdsFinite
<1>6. ASSUME NEW k \in 1..(Len(p) - 1) PROVE p[k + 1] \in Range(StepOf(c, p[k]).needs)
  <2>1. i + k - 1 \in 1..(L - 1) /\ k \in 1..(L - i + 1) /\ k + 1 \in 1..(L - i + 1)
    BY <1>0, <1>2
  <2>2. p[k] = fs[i + k - 1].id /\ p[k + 1] = fs[(i + k - 1) + 1].id
    BY <1>0, <1>2, <2>1
  <2> QED BY <2>1, <2>2, PathEdges DEF Edges
<1>7. p[1] \in Range(StepOf(c, p[Len(p)]).needs)
  <2>1. p[1] = fs[i].id /\ p[Len(p)] = fs[L].id
    BY <1>0, <1>2
  <2> QED BY <2>1 DEF Edges
<1> QED BY <1>3, <1>4, <1>5, <1>6, <1>7 DEF Cycles

-----------------------------------------------------------------------------
(* The invariant *)

Black == {n \in StepIds(draft) : color[n] = "black"}
Unlooped(c) == \A n \in StepIds(c) : ~HasBound(c, n)

\* Calls of visit are under way in the two searches only, and form a path.
PathOK == /\ Path(draft, frames)
          /\ phase \notin {"cycles", "compiled"} => frames = <<>>

\* While no cycle was found that has no bound, the finished steps have none.
CyclesOK ==
  phase = "cycles" =>
    /\ \A n \in StepIds(draft) : color[n] = "grey" <=> n \in Under(frames)
    /\ Unlooped(draft) /\ "E-CYCLE-UNBOUNDED" \notin errors =>
         /\ Looked(draft, frames, Black)
         /\ Acyclic(draft, Black) /\ Closed(draft, Black)

\* What a check refuses is reported, and what is accepted has passed all of them.
ErrorsOK ==
  /\ phase # "draft" => \A code \in Checks : Breaks(draft, code) => code \in errors
  /\ Accepted => errors = {} /\ (Unlooped(draft) => Acyclic(draft, StepIds(draft)))

Topological(c, o) == \A k \in 1..Len(o) : Edges(c, o[k]) \subseteq {o[j] : j \in 1..(k - 1)}

\* A step is placed once, after what it needs.
OrderOK ==
  /\ IsInjective(order) /\ Topological(draft, order)
  /\ phase \in {"draft", "cycles", "rejected"} => order = <<>>
  /\ phase \in {"ordered", "pool", "done"} => Range(order) = StepIds(draft)
  /\ phase = "raised" => order = <<>> \/ Range(order) = StepIds(draft)
  /\ phase = "compiled" => /\ Looked(draft, frames, Range(order))
                           /\ Under(frames) \cap Range(order) = {}

Width == StepOf(draft, step).width

\* What Collect makes of the answers.
Reduced ==
  IF StepOf(draft, step).type = "fanout" THEN aggregate(Candidates, StepOf(draft, step).aggregate)
  ELSE [verified |-> Approvals(Candidates) >= QuorumAtRun(StepOf(draft, step)),
        approvals |-> Approvals(Candidates)]

\* The agents of a step answer, and nothing else does.
PoolOK ==
  /\ phase \in {"draft", "cycles", "rejected", "compiled", "ordered"} => arrived = <<>>
  /\ phase \in {"pool", "done"} =>
       /\ step \in StepIds(draft) /\ StepOf(draft, step).type \in {"fanout", "verify"}
       /\ answers \in [1..Width -> Outcomes \cup {Raised, Unset}]
  /\ phase = "done" => answers \in [1..Width -> Outcomes] /\ result = Reduced

CompInv ==
  /\ CompTypeOK /\ WellFormed(draft)
  /\ PathOK /\ CyclesOK /\ ErrorsOK /\ OrderOK /\ PoolOK
  /\ CycleRefusalJust /\ OrderSound

\* An accepted workflow names steps it has.
LEMMA NeedsKnown ==
  ASSUME CompInv, Accepted, NEW n \in StepIds(draft)
  PROVE  Edges(draft, n) \subseteq StepIds(draft)
<1>1. ~Breaks(draft, "E-REF-WORKFLOW")
  BY DEF CompInv, ErrorsOK, Accepted, Checks
<1>2. ~UnknownStep(draft)
  BY <1>1 DEF Breaks
<1>3. StepOf(draft, n) \in Range(draft.steps)
  BY StepFacts DEF CompInv
<1> QED BY <1>2, <1>3 DEF UnknownStep, Edges

LEMMA TurnFacts ==
  ASSUME CompInv, NeedsLeft
  PROVE  /\ frames # <<>> /\ Top \in FrameSet(draft) /\ Top.id \in StepIds(draft)
         /\ Turn \in Edges(draft, Top.id) /\ Top = frames[Len(frames)] /\ Len(frames) \in 1..Len(frames)
<1>1. frames \in Seq(FrameSet(draft)) /\ frames # <<>>
  BY DEF CompInv, CompTypeOK, FrameSet, NeedsLeft
<1>2. Top \in FrameSet(draft) /\ Len(frames) \in Nat /\ Len(frames) >= 1
  BY <1>1, FramesFacts DEF Top
<1>3. Top.id \in StepIds(draft) /\ Top.next \in Nat \ {0}
  BY <1>2, FrameFacts
<1>4. Top.next <= Len(StepOf(draft, Top.id).needs) /\ Len(StepOf(draft, Top.id).needs) \in Nat
  BY <1>3, StepFacts DEF CompInv, NeedsLeft
<1>5. Turn \in Edges(draft, Top.id)
  BY <1>3, <1>4, EdgeFacts DEF CompInv, Turn
<1> QED BY <1>1, <1>2, <1>3, <1>5 DEF Top

\* What a search keeps when it touches neither draft nor pool.
Searching == UNCHANGED <<draft, step, answers, arrived, result>>

LEMMA PoolKept ==
  ASSUME CompInv, Searching, phase \in {"cycles", "compiled"}, phase' \notin {"pool", "done"}
  PROVE  PoolOK' /\ WellFormed(draft)' /\ step' \in StepIds(draft') \cup {Unset}
         /\ Range(answers') \subseteq Outcomes \cup {Raised, Unset} /\ arrived' \in Seq(DOMAIN answers')
         /\ (result' # Unset <=> phase' = "done")
BY DEF CompInv, CompTypeOK, PoolOK, Searching

-----------------------------------------------------------------------------
(* The search for cycles *)

\* A draft is refused for a cycle that it has.
LEMMA RefusalKept ==
  ASSUME CycleRefusalJust, draft' = draft, errors' = errors
  PROVE  CycleRefusalJust'
BY DEF CycleRefusalJust

LEMMA CompileStep ==
  ASSUME CompInv, compile_company
  PROVE  CompInv'
<1>0. /\ phase = "draft" /\ phase' = "cycles" /\ errors' = {e \in Checks : Breaks(draft, e)}
      /\ color' = [n \in StepIds(draft) |-> "white"]
      /\ UNCHANGED <<draft, frames, order, step, answers, arrived, result>>
  BY DEF compile_company, poolVars
<1>1. frames = <<>> /\ order = <<>> /\ WellFormed(draft) /\ frames \in Seq(FrameSet(draft))
  BY <1>0 DEF CompInv, PathOK, OrderOK, CompTypeOK, FrameSet
<1>2. CompTypeOK'
  BY <1>0 DEF CompInv, CompTypeOK, Phases, ErrorCodes
<1>3. PathOK' /\ PoolOK' /\ WellFormed(draft)'
  BY <1>0 DEF CompInv, PathOK, PoolOK
<1>4. "E-CYCLE-UNBOUNDED" \notin errors'
  BY <1>0 DEF Checks
<1>5. CyclesOK'
  <2>1. Black' = {} /\ Len(frames') = 0
    BY <1>0, <1>1 DEF Black
  <2>2. \A n \in StepIds(draft) : color'[n] = "white"
    BY <1>0
  <2> QED BY <1>0, <2>1, <2>2 DEF CyclesOK, Under, Looked, Acyclic, Closed
<1>6. ErrorsOK'
  BY <1>0 DEF ErrorsOK, Accepted
<1>7. OrderOK' /\ OrderSound'
  BY <1>0 DEF CompInv, OrderOK, OrderSound, Accepted, Topological
<1>8. CycleRefusalJust'
  BY <1>4 DEF CycleRefusalJust
<1> QED BY <1>2, <1>3, <1>5, <1>6, <1>7, <1>8 DEF CompInv

LEMMA LookedAtAll ==
  ASSUME NEW c, NEW fs
  PROVE  Looked(c, fs, StepIds(c))
BY DEF Looked

LEMMA FramesType ==
  ASSUME CompInv
  PROVE  frames \in Seq(FrameSet(draft)) /\ WellFormed(draft) /\ Path(draft, frames)
BY DEF CompInv, CompTypeOK, FrameSet, PathOK

\* A search calls visit for a step that is not under way.
LEMMA SearchCalls ==
  ASSUME CompInv, NEW left, NEW n \in StepIds(draft), Next(n, left), Call(n), n \notin Under(frames)
  PROVE  /\ frames' \in Seq(FrameSet(draft)) /\ Path(draft, frames')
         /\ Under(frames') = Under(frames) \cup {n}
         /\ \A done : Looked(draft, frames, done) => Looked(draft, frames', done)
<1>1. \/ frames = <<>> /\ frames' = <<Called(n)>>
      \/ /\ frames # <<>> /\ frames[Len(frames)].next <= Len(StepOf(draft, frames[Len(frames)].id).needs)
         /\ n = StepOf(draft, frames[Len(frames)].id).needs[frames[Len(frames)].next]
         /\ frames' = Append(Moved(frames), Called(n))
  <2>1. CASE frames = <<>>
    BY <2>1 DEF Call, Called
  <2>2. CASE frames # <<>>
    BY <2>2 DEF Call, Next, NeedsLeft, Turn, Top, Onward, Moved, Called
  <2> QED BY <2>1, <2>2
<1>2. \A k \in 1..Len(frames) : frames[k].id # n
  BY DEF Under
<1>3. ASSUME NEW done, Looked(draft, frames, done)
      PROVE  /\ frames' \in Seq(FrameSet(draft)) /\ Path(draft, frames') /\ Looked(draft, frames', done)
             /\ Under(frames') = Under(frames) \cup {n}
  BY <1>1, <1>2, <1>3, CallsOn, FramesType
<1> QED BY <1>3, LookedAtAll

\* A search goes on to the next need.
LEMMA SearchGoesOn ==
  ASSUME CompInv, NeedsLeft, frames' = Onward
  PROVE  /\ frames' \in Seq(FrameSet(draft)) /\ Path(draft, frames')
         /\ Under(frames') = Under(frames)
         /\ \A done : Looked(draft, frames, done) /\ (Turn \in StepIds(draft) => Turn \in done) =>
              Looked(draft, frames', done)
<1>1. frames # <<>> /\ frames[Len(frames)].next <= Len(StepOf(draft, frames[Len(frames)].id).needs)
  BY DEF NeedsLeft, Top
<1>2. ASSUME NEW done, Looked(draft, frames, done), Turn \in StepIds(draft) => Turn \in done
      PROVE  /\ frames' \in Seq(FrameSet(draft)) /\ Path(draft, frames') /\ Looked(draft, frames', done)
             /\ Under(frames') = Under(frames)
  <2>1. frames' = Moved(frames)
    BY DEF Onward, Moved
  <2>2. Turn = StepOf(draft, frames[Len(frames)].id).needs[frames[Len(frames)].next]
    BY DEF Turn, Top
  <2> QED BY <1>1, <1>2, <2>1, <2>2, GoesOn, FramesType
<1> QED BY <1>2, LookedAtAll

\* A call of a search ends.
LEMMA SearchReturns ==
  ASSUME CompInv, frames # <<>>, ~NeedsLeft, frames' = Front(frames)
  PROVE  /\ frames' \in Seq(FrameSet(draft)) /\ Path(draft, frames')
         /\ Top.id \in StepIds(draft) /\ Top.id \in Under(frames)
         /\ Under(frames') = Under(frames) \ {Top.id}
         /\ \A done : Looked(draft, frames, done) =>
              /\ Looked(draft, frames', done \cup {Top.id})
              /\ Edges(draft, Top.id) \cap StepIds(draft) \subseteq done
<1>1. ~(frames[Len(frames)].next <= Len(StepOf(draft, frames[Len(frames)].id).needs))
  BY DEF NeedsLeft, Top
<1>2. ASSUME NEW done, Looked(draft, frames, done)
      PROVE  /\ frames' \in Seq(FrameSet(draft)) /\ Path(draft, frames')
             /\ Looked(draft, frames', done \cup {Top.id})
             /\ Under(frames') = Under(frames) \ {Top.id}
             /\ Edges(draft, Top.id) \cap StepIds(draft) \subseteq done
  BY <1>1, <1>2, CallEnds, FramesType DEF Top
<1>3. Top.id \in StepIds(draft) /\ Top.id \in Under(frames)
  BY FramesType, FramesFacts DEF Under, Top
<1> QED BY <1>2, <1>3, LookedAtAll

\* What the steps of the search for cycles have in common.
LEMMA InCycles ==
  ASSUME CompInv, Searching, phase = "cycles", phase' = "cycles", order' = order,
         errors \subseteq errors', errors' \subseteq ErrorCodes,
         color' \in [StepIds(draft) -> {"white", "grey", "black"}],
         frames' \in Seq(FrameSet(draft)), Path(draft, frames'), CyclesOK', CycleRefusalJust'
  PROVE  CompInv'
<1>1. draft' = draft
  BY DEF Searching
<1>2. CompTypeOK'
  BY <1>1, PoolKept DEF CompInv, CompTypeOK, FrameSet, Phases
<1>3. PathOK'
  BY <1>1 DEF PathOK
<1>4. ErrorsOK'
  BY <1>1 DEF CompInv, ErrorsOK, Accepted
<1>5. OrderOK' /\ OrderSound'
  BY <1>1 DEF CompInv, OrderOK, OrderSound, Accepted, Topological
<1> QED BY <1>2, <1>3, <1>4, <1>5, PoolKept DEF CompInv

LEMMA VisitStep ==
  ASSUME CompInv, Visit
  PROVE  CompInv'
<1>0. phase = "cycles" /\ phase' = "cycles" /\ Searching /\ draft' = draft /\ errors' = errors /\ order' = order
  BY DEF Visit, Searching, poolVars
<1>1. PICK n \in White : Next(n, White) /\ Call(n) /\ color' = [color EXCEPT ![n] = "grey"]
  BY DEF Visit
<1>2. color \in [StepIds(draft) -> {"white", "grey", "black"}] /\ n \in StepIds(draft) /\ color[n] = "white"
  BY <1>0, <1>1 DEF CompInv, CompTypeOK, White
<1>3. n \notin Under(frames)
  BY <1>0, <1>2 DEF CompInv, CyclesOK
<1>4. /\ frames' \in Seq(FrameSet(draft)) /\ Path(draft, frames')
      /\ Under(frames') = Under(frames) \cup {n}
      /\ \A done : Looked(draft, frames, done) => Looked(draft, frames', done)
  BY <1>1, <1>2, <1>3, SearchCalls
<1>5. color' \in [StepIds(draft) -> {"white", "grey", "black"}]
  BY <1>1, <1>2
<1>6. Black' = Black
  BY <1>0, <1>1, <1>2 DEF Black
<1>7. CyclesOK'
  <2>1. \A m \in StepIds(draft) : color'[m] = "grey" <=> m \in Under(frames')
    BY <1>0, <1>1, <1>2, <1>4 DEF CompInv, CyclesOK
  <2>2. ASSUME Unlooped(draft), "E-CYCLE-UNBOUNDED" \notin errors
        PROVE  /\ Looked(draft, frames', Black')
               /\ Acyclic(draft, Black') /\ Closed(draft, Black')
    BY <2>2, <1>0, <1>4, <1>6 DEF CompInv, CyclesOK
  <2> QED BY <2>1, <2>2, <1>0 DEF CyclesOK
<1>8. CycleRefusalJust' /\ errors' \subseteq ErrorCodes
  BY <1>0, RefusalKept DEF CompInv, CompTypeOK
<1> QED BY <1>0, <1>4, <1>5, <1>7, <1>8, InCycles

LEMMA VisitBlackStep ==
  ASSUME CompInv, VisitBlack
  PROVE  CompInv'
<1>0. /\ phase = "cycles" /\ phase' = "cycles" /\ Searching /\ draft' = draft /\ errors' = errors
      /\ order' = order /\ color' = color /\ NeedsLeft /\ frames' = Onward
  BY DEF VisitBlack, Searching, poolVars
<1>1. /\ frames' \in Seq(FrameSet(draft)) /\ Path(draft, frames') /\ Under(frames') = Under(frames)
      /\ \A done : Looked(draft, frames, done) /\ (Turn \in StepIds(draft) => Turn \in done) =>
           Looked(draft, frames', done)
  BY <1>0, SearchGoesOn
<1>2. Black' = Black /\ (Turn \in StepIds(draft) => Turn \in Black)
  BY <1>0 DEF Black, VisitBlack
<1>3. CyclesOK'
  <2>1. \A m \in StepIds(draft) : color'[m] = "grey" <=> m \in Under(frames')
    BY <1>0, <1>1 DEF CompInv, CyclesOK
  <2>2. ASSUME Unlooped(draft), "E-CYCLE-UNBOUNDED" \notin errors
        PROVE  /\ Looked(draft, frames', Black')
               /\ Acyclic(draft, Black') /\ Closed(draft, Black')
    BY <2>2, <1>0, <1>1, <1>2 DEF CompInv, CyclesOK
  <2> QED BY <2>1, <2>2, <1>0 DEF CyclesOK
<1>4. CycleRefusalJust' /\ errors' \subseteq ErrorCodes
  BY <1>0, RefusalKept DEF CompInv, CompTypeOK
<1>5. color' \in [StepIds(draft) -> {"white", "grey", "black"}]
  BY <1>0 DEF CompInv, CompTypeOK
<1> QED BY <1>0, <1>1, <1>3, <1>4, <1>5, InCycles

LEMMA VisitEndsStep ==
  ASSUME CompInv, VisitEnds
  PROVE  CompInv'
<1>0. /\ phase = "cycles" /\ phase' = "cycles" /\ Searching /\ draft' = draft /\ errors' = errors
      /\ order' = order /\ color' = [color EXCEPT ![Top.id] = "black"]
      /\ frames # <<>> /\ ~NeedsLeft /\ frames' = Front(frames)
  BY DEF VisitEnds, Searching, poolVars
<1>1. PICK n : n = Top.id
  OBVIOUS
<1>2. /\ frames' \in Seq(FrameSet(draft)) /\ Path(draft, frames')
      /\ n \in StepIds(draft) /\ n \in Under(frames)
      /\ Under(frames') = Under(frames) \ {n}
      /\ \A done : Looked(draft, frames, done) =>
           /\ Looked(draft, frames', done \cup {n})
           /\ Edges(draft, n) \cap StepIds(draft) \subseteq done
  BY <1>0, <1>1, SearchReturns
<1>3. /\ color \in [StepIds(draft) -> {"white", "grey", "black"}] /\ color[n] = "grey"
      /\ color' = [color EXCEPT ![n] = "black"]
  BY <1>0, <1>1, <1>2 DEF CompInv, CompTypeOK, CyclesOK
<1>4. Black' = Black \cup {n} /\ n \notin Black /\ Black \subseteq StepIds(draft)
  BY <1>0, <1>2, <1>3 DEF Black
<1>5. CyclesOK'
  <2>1. \A m \in StepIds(draft) : color'[m] = "grey" <=> m \in Under(frames')
    BY <1>0, <1>2, <1>3 DEF CompInv, CyclesOK
  <2>2. ASSUME Unlooped(draft), "E-CYCLE-UNBOUNDED" \notin errors
        PROVE  /\ Looked(draft, frames', Black')
               /\ Acyclic(draft, Black') /\ Closed(draft, Black')
    <3>1. Looked(draft, frames, Black) /\ Acyclic(draft, Black) /\ Closed(draft, Black)
      BY <2>2, <1>0 DEF CompInv, CyclesOK
    <3>2. Looked(draft, frames', Black \cup {n}) /\ Edges(draft, n) \cap StepIds(draft) \subseteq Black
      BY <3>1, <1>2
    <3> QED BY <3>1, <3>2, <1>2, <1>4, AcyclicGrows
  <2> QED BY <2>1, <2>2, <1>0 DEF CyclesOK
<1>6. CycleRefusalJust' /\ errors' \subseteq ErrorCodes
  BY <1>0, RefusalKept DEF CompInv, CompTypeOK
<1>7. color' \in [StepIds(draft) -> {"white", "grey", "black"}]
  BY <1>3
<1> QED BY <1>0, <1>2, <1>5, <1>6, <1>7, InCycles

LEMMA CycleInside ==
  ASSUME NEW c, NEW cyc \in Cycles(c)
  PROVE  Range(cyc) \subseteq StepIds(c)
<1>1. PICK m \in 0..Cardinality(StepIds(c)) : cyc \in [1..m -> StepIds(c)]
  BY DEF Cycles, BoundedSeq, SeqOf
<1> QED BY <1>1 DEF Range

\* The search comes back to a step under way: whether it is reported or not, the draft has
\* a cycle.
LEMMA GreyCycle ==
  ASSUME CompInv, VisitGrey
  PROVE  CycleTo(Turn) \in Cycles(draft)
<1>0. phase = "cycles" /\ NeedsLeft /\ Turn \in StepIds(draft) /\ color[Turn] = "grey"
  BY DEF VisitGrey
<1>1. frames \in Seq(FrameSet(draft)) /\ WellFormed(draft) /\ Path(draft, frames)
  BY FramesType
<1>2. DOMAIN frames = 1..Len(frames)
  BY <1>1, FramesFacts
<1>3. Turn \in Under(frames)
  BY <1>0 DEF CompInv, CyclesOK
<1>4. \E k \in DOMAIN frames : frames[k].id = Turn
  BY <1>2, <1>3 DEF Under
<1>5. PICK i \in 1..Len(frames) : frames[i].id = Turn /\ CycleTo(Turn) = SubSeq(Stack, i, Len(frames))
  BY <1>2, <1>4 DEF CycleTo
<1>6. Turn \in Edges(draft, frames[Len(frames)].id)
  BY <1>0, TurnFacts
<1>7. Stack = [k \in 1..Len(frames) |-> frames[k].id]
  BY <1>2 DEF Stack
<1> QED BY <1>1, <1>5, <1>6, <1>7, CycleFound

LEMMA VisitGreyStep ==
  ASSUME CompInv, VisitGrey
  PROVE  CompInv'
<1>0. /\ phase = "cycles" /\ phase' = "cycles" /\ Searching /\ draft' = draft
      /\ order' = order /\ color' = color /\ NeedsLeft /\ frames' = Onward
      /\ errors' = IF Unbounded(draft, CycleTo(Turn)) THEN errors \cup {"E-CYCLE-UNBOUNDED"} ELSE errors
  BY DEF VisitGrey, Searching, poolVars
<1>1. /\ frames' \in Seq(FrameSet(draft)) /\ Path(draft, frames') /\ Under(frames') = Under(frames)
  BY <1>0, SearchGoesOn
<1>2. CycleTo(Turn) \in Cycles(draft)
  BY GreyCycle
<1>3. ~Unlooped(draft) \/ "E-CYCLE-UNBOUNDED" \in errors'
  <2>1. Range(CycleTo(Turn)) \subseteq StepIds(draft)
    BY <1>2, CycleInside
  <2> QED BY <2>1, <1>0 DEF Unbounded, Unlooped
<1>4. CyclesOK'
  <2>1. \A m \in StepIds(draft) : color'[m] = "grey" <=> m \in Under(frames')
    BY <1>0, <1>1 DEF CompInv, CyclesOK
  <2> QED BY <2>1, <1>0, <1>3 DEF CyclesOK
<1>5. CycleRefusalJust'
  <2>1. CASE Unbounded(draft, CycleTo(Turn))
    BY <2>1, <1>0, <1>2 DEF CycleRefusalJust, Unbounded
  <2>2. CASE ~Unbounded(draft, CycleTo(Turn))
    BY <2>2, <1>0, RefusalKept DEF CompInv
  <2> QED BY <2>1, <2>2
<1>6. errors \subseteq errors' /\ errors' \subseteq ErrorCodes
  BY <1>0 DEF CompInv, CompTypeOK, ErrorCodes
<1>7. color' \in [StepIds(draft) -> {"white", "grey", "black"}]
  BY <1>0 DEF CompInv, CompTypeOK
<1> QED BY <1>0, <1>1, <1>4, <1>5, <1>6, <1>7, InCycles

LEMMA CompileEndsStep ==
  ASSUME CompInv, CompileEnds
  PROVE  CompInv'
<1>0. /\ phase = "cycles" /\ phase' = (IF errors = {} THEN "compiled" ELSE "rejected")
      /\ Searching /\ draft' = draft /\ errors' = errors /\ color' = color /\ frames' = frames
      /\ order' = order /\ frames = <<>> /\ White = {}
  BY DEF CompileEnds, Searching, poolVars, searchVars
<1>1. Under(frames) = {} /\ Len(frames) = 0 /\ order = <<>>
  BY <1>0 DEF Under, CompInv, OrderOK
<1>2. \A n \in StepIds(draft) : color[n] \in {"white", "grey", "black"}
  BY <1>0 DEF CompInv, CompTypeOK
<1>3. Black = StepIds(draft)
  BY <1>0, <1>1, <1>2 DEF CompInv, CyclesOK, Black, White
<1>4. errors = {} /\ Unlooped(draft) => Acyclic(draft, StepIds(draft))
  BY <1>0, <1>3 DEF CompInv, CyclesOK
<1>5. ErrorsOK'
  BY <1>0, <1>4 DEF CompInv, ErrorsOK, Accepted
<1>6. OrderOK'
  <2>1. Range(order) = {}
    BY <1>1 DEF Range
  <2> QED BY <2>1, <1>0, <1>1 DEF CompInv, OrderOK, Topological, Looked
<1>7. OrderSound'
  BY <1>0, <1>1 DEF OrderSound
<1>8. CompTypeOK'
  BY <1>0, PoolKept DEF CompInv, CompTypeOK, Phases
<1>9. PathOK' /\ CyclesOK'
  BY <1>0 DEF CompInv, PathOK, CyclesOK
<1>10. CycleRefusalJust'
  BY <1>0, RefusalKept DEF CompInv
<1>11. PoolOK' /\ WellFormed(draft)'
  BY <1>0, PoolKept
<1> QED BY <1>5, <1>6, <1>7, <1>8, <1>9, <1>10, <1>11 DEF CompInv

-----------------------------------------------------------------------------
(* The dependency order *)

\* What the steps of that search have in common.
LEMMA InOrder ==
  ASSUME CompInv, Searching, phase = "compiled", phase' = "compiled", errors' = errors, color' = color,
         order' \in Seq(StepIds(draft)), frames' \in Seq(FrameSet(draft)), Path(draft, frames'), OrderOK'
  PROVE  CompInv'
<1>1. draft' = draft
  BY DEF Searching
<1>2. CompTypeOK'
  BY <1>1, PoolKept DEF CompInv, CompTypeOK, FrameSet, Phases
<1>3. PathOK' /\ CyclesOK'
  BY <1>1 DEF PathOK, CyclesOK
<1>4. ErrorsOK'
  BY <1>1 DEF CompInv, ErrorsOK, Accepted
<1>5. OrderSound'
  BY DEF OrderSound
<1>6. CycleRefusalJust'
  BY <1>1, RefusalKept DEF CompInv
<1> QED BY <1>2, <1>3, <1>4, <1>5, <1>6, PoolKept DEF CompInv

LEMMA StackUnder ==
  ASSUME CompInv
  PROVE  Range(Stack) = Under(frames)
<1>1. DOMAIN frames = 1..Len(frames)
  BY FramesType, FramesFacts
<1> QED BY <1>1 DEF Stack, Under, Range

LEMMA PlaceBeginsStep ==
  ASSUME CompInv, PlaceBegins
  PROVE  CompInv'
<1>0. /\ phase = "compiled" /\ phase' = "compiled" /\ Searching /\ draft' = draft /\ errors' = errors
      /\ color' = color /\ order' = order
  BY DEF PlaceBegins, Searching, poolVars
<1>1. PICK n \in Unplaced \ Range(Stack) : Next(n, Unplaced) /\ Call(n)
  BY DEF PlaceBegins
<1>2. n \in StepIds(draft) /\ n \notin Range(order) /\ n \notin Under(frames)
  BY <1>1, StackUnder DEF Unplaced
<1>3. /\ frames' \in Seq(FrameSet(draft)) /\ Path(draft, frames')
      /\ Under(frames') = Under(frames) \cup {n}
      /\ \A done : Looked(draft, frames, done) => Looked(draft, frames', done)
  BY <1>1, <1>2, SearchCalls
<1>4. OrderOK'
  BY <1>0, <1>2, <1>3 DEF CompInv, OrderOK, Topological
<1>5. order' \in Seq(StepIds(draft))
  BY <1>0 DEF CompInv, CompTypeOK
<1> QED BY <1>0, <1>3, <1>4, <1>5, InOrder

LEMMA PlaceSeenStep ==
  ASSUME CompInv, PlaceSeen
  PROVE  CompInv'
<1>0. /\ phase = "compiled" /\ phase' = "compiled" /\ Searching /\ draft' = draft /\ errors' = errors
      /\ color' = color /\ order' = order /\ NeedsLeft /\ Turn \in Range(order) /\ frames' = Onward
  BY DEF PlaceSeen, Searching, poolVars
<1>1. /\ frames' \in Seq(FrameSet(draft)) /\ Path(draft, frames') /\ Under(frames') = Under(frames)
      /\ \A done : Looked(draft, frames, done) /\ (Turn \in StepIds(draft) => Turn \in done) =>
           Looked(draft, frames', done)
  BY <1>0, SearchGoesOn
<1>2. OrderOK'
  <2>1. /\ IsInjective(order) /\ Topological(draft, order) /\ Looked(draft, frames, Range(order))
        /\ Under(frames) \cap Range(order) = {}
    BY <1>0 DEF CompInv, OrderOK
  <2>2. Looked(draft, frames', Range(order)) /\ Under(frames') \cap Range(order) = {}
    BY <1>0, <1>1, <2>1
  <2>3. IsInjective(order') /\ Topological(draft', order')
    BY <1>0, <2>1 DEF Topological
  <2> QED BY <1>0, <2>2, <2>3 DEF OrderOK
<1>3. order' \in Seq(StepIds(draft))
  BY <1>0 DEF CompInv, CompTypeOK
<1> QED BY <1>0, <1>1, <1>2, <1>3, InOrder

\* The order only raises on a workflow with a bounded cycle.
LEMMA PlaceRaisesStep ==
  ASSUME CompInv, PlaceRaises
  PROVE  CompInv'
<1>0. /\ phase = "compiled" /\ phase' = "raised" /\ Searching /\ draft' = draft /\ errors' = errors
      /\ color' = color /\ order' = <<>> /\ frames' = <<>> /\ NeedsLeft
      /\ Turn \in Range(Stack) \/ Turn \notin StepIds(draft)
  BY DEF PlaceRaises, Searching, poolVars
<1>1. Accepted /\ draft' = draft
  BY <1>0 DEF Accepted
<1>2. ~Unlooped(draft)
  <2> SUFFICES ASSUME Unlooped(draft) PROVE FALSE
    OBVIOUS
  <2>1. Acyclic(draft, StepIds(draft))
    BY <1>1 DEF CompInv, ErrorsOK
  <2>2. Top.id \in StepIds(draft) /\ Turn \in Edges(draft, Top.id) /\ Top = frames[Len(frames)]
    BY <1>0, TurnFacts
  <2>3. Turn \in StepIds(draft)
    BY <2>2, <1>1, NeedsKnown
  <2>4. Turn \in Under(frames)
    BY <2>3, <1>0, StackUnder
  <2>5. PICK i \in 1..Len(frames) : frames[i].id = Turn
    BY <2>4 DEF Under
  <2> QED BY <2>1, <2>2, <2>5, FramesType, NoWayBack
<1>3. OrderSound'
  BY <1>0, <1>2 DEF OrderSound, Unlooped
<1>4. OrderOK'
  <2>1. Len(order') = 0 /\ DOMAIN order' = {}
    BY <1>0
  <2>2. IsInjective(order)' /\ Topological(draft', order')
    BY <2>1 DEF IsInjective, Topological
  <2> QED BY <1>0, <2>2 DEF OrderOK
<1>5. PathOK' /\ CyclesOK'
  BY <1>0 DEF PathOK, CyclesOK, Path
<1>6. CompTypeOK'
  BY <1>0, PoolKept DEF CompInv, CompTypeOK, Phases
<1>7. ErrorsOK'
  BY <1>0 DEF CompInv, ErrorsOK, Accepted
<1>8. CycleRefusalJust'
  BY <1>0, RefusalKept DEF CompInv
<1>9. PoolOK' /\ WellFormed(draft)'
  BY <1>0, PoolKept
<1> QED BY <1>3, <1>4, <1>5, <1>6, <1>7, <1>8, <1>9 DEF CompInv

LEMMA PlaceStep ==
  ASSUME CompInv, Place
  PROVE  CompInv'
<1>0. /\ phase = "compiled" /\ phase' = "compiled" /\ Searching /\ draft' = draft /\ errors' = errors
      /\ color' = color /\ frames # <<>> /\ ~NeedsLeft
      /\ order' = Append(order, Top.id) /\ frames' = Front(frames)
  BY DEF Place, Searching, poolVars
<1>1. PICK n : n = Top.id
  OBVIOUS
<1>2. /\ frames' \in Seq(FrameSet(draft)) /\ Path(draft, frames')
      /\ n \in StepIds(draft) /\ n \in Under(frames)
      /\ Under(frames') = Under(frames) \ {n}
      /\ \A done : Looked(draft, frames, done) =>
           /\ Looked(draft, frames', done \cup {n})
           /\ Edges(draft, n) \cap StepIds(draft) \subseteq done
  BY <1>0, <1>1, SearchReturns
<1>3. /\ order \in Seq(StepIds(draft)) /\ IsInjective(order) /\ Topological(draft, order)
      /\ Looked(draft, frames, Range(order)) /\ Under(frames) \cap Range(order) = {}
  BY <1>0 DEF CompInv, CompTypeOK, OrderOK
<1> DEFINE L == Len(order)
<1>4. /\ L \in Nat /\ DOMAIN order = 1..L /\ order' \in Seq(StepIds(draft)) /\ Len(order') = L + 1
      /\ DOMAIN order' = 1..(L + 1) /\ order'[L + 1] = n /\ \A k \in 1..L : order'[k] = order[k]
  BY <1>0, <1>1, <1>2, <1>3
<1> HIDE DEF L
<1>5. Range(order) = {order[k] : k \in 1..L} /\ \A k \in 1..L : order[k] \in Range(order)
  BY <1>4 DEF Range
<1>6. Range(order') = Range(order) \cup {n}
  <2>1. ASSUME NEW k \in 1..(L + 1) PROVE order'[k] \in Range(order) \cup {n}
    <3>1. k \in 1..L \/ k = L + 1
      BY <1>4
    <3> QED BY <3>1, <1>4, <1>5
  <2>2. \A k \in 1..L : k \in 1..(L + 1)
    BY <1>4
  <2>3. L + 1 \in 1..(L + 1)
    BY <1>4
  <2>4. Range(order') = {order'[k] : k \in 1..(L + 1)}
    BY <1>4 DEF Range
  <2>5. ASSUME NEW m \in Range(order) PROVE m \in Range(order')
    <3>1. PICK k \in 1..L : m = order[k]
      BY <1>5
    <3> QED BY <3>1, <2>2, <2>4, <1>4
  <2> QED BY <2>1, <2>3, <2>4, <2>5, <1>4
<1>7. IsInjective(order')
  <2> SUFFICES ASSUME NEW j \in 1..(L + 1), NEW k \in 1..(L + 1), order'[j] = order'[k] PROVE j = k
    BY <1>4 DEF IsInjective
  <2>1. (j \in 1..L \/ j = L + 1) /\ (k \in 1..L \/ k = L + 1)
    BY <1>4
  <2>2. n \notin Range(order)
    BY <1>2, <1>3
  <2> QED BY <2>1, <2>2, <1>3, <1>4, <1>5 DEF IsInjective
<1>8. Topological(draft', order')
  <2> SUFFICES ASSUME NEW k \in 1..(L + 1)
               PROVE  Edges(draft, order'[k]) \subseteq {order'[j] : j \in 1..(k - 1)}
    BY <1>0, <1>4 DEF Topological
  <2>1. \A j \in 1..(k - 1) : j \in 1..L
    BY <1>4
  <2>2. {order'[j] : j \in 1..(k - 1)} = {order[j] : j \in 1..(k - 1)}
    BY <2>1, <1>4
  <2>3. CASE k \in 1..L
    BY <2>2, <2>3, <1>3, <1>4 DEF Topological, L
  <2>4. CASE k = L + 1
    <3>1. Edges(draft, n) \subseteq Range(order)
      BY <1>0, <1>2, <1>3, NeedsKnown DEF Accepted
    <3>2. k - 1 = L
      BY <2>4, <1>4
    <3> QED BY <3>1, <3>2, <2>2, <2>4, <1>4, <1>5
  <2> QED BY <2>3, <2>4, <1>4
<1>9. OrderOK'
  <2>1. Looked(draft, frames', Range(order')) /\ Under(frames') \cap Range(order') = {}
    BY <1>2, <1>3, <1>6
  <2> QED BY <2>1, <1>0, <1>7, <1>8 DEF OrderOK
<1> QED BY <1>0, <1>2, <1>4, <1>9, InOrder

LEMMA OrderEndsStep ==
  ASSUME CompInv, OrderEnds
  PROVE  CompInv'
<1>0. /\ phase = "compiled" /\ phase' = "ordered" /\ Searching /\ draft' = draft /\ errors' = errors
      /\ color' = color /\ frames' = frames /\ order' = order /\ frames = <<>> /\ Unplaced = {}
  BY DEF OrderEnds, Searching, poolVars, searchVars
<1>1. order \in Seq(StepIds(draft)) /\ IsInjective(order) /\ Topological(draft, order)
  BY DEF CompInv, CompTypeOK, OrderOK
<1>2. DOMAIN order = 1..Len(order) /\ Range(order) \subseteq StepIds(draft)
  BY <1>1 DEF Range
<1>3. Range(order) = StepIds(draft)
  BY <1>0, <1>2 DEF Unplaced
<1>4. OrderOK'
  <2>0. order' = order /\ draft' = draft
    BY <1>0
  <2>1. Topological(draft', order')
    BY <2>0, <1>1
  <2>2. IsInjective(order') /\ Range(order') = StepIds(draft')
    BY <1>0, <1>1, <1>3
  <2> QED BY <1>0, <2>1, <2>2 DEF OrderOK
<1>5. OrderSound'
  <2>0. order' = order /\ draft' = draft
    BY <1>0
  <2>1. Topological(draft', order') /\ IsInjective(order') /\ DOMAIN order' = 1..Len(order')
    BY <2>0, <1>1, <1>2
  <2>2. Range(order') = StepIds(draft')
    BY <2>0, <1>3
  <2> QED BY <2>1, <2>2, <1>0 DEF OrderSound, Topological, Edges
<1>6. PathOK' /\ CyclesOK'
  BY <1>0 DEF CompInv, PathOK, CyclesOK
<1>7. CompTypeOK'
  BY <1>0, PoolKept DEF CompInv, CompTypeOK, Phases
<1>8. ErrorsOK'
  BY <1>0 DEF CompInv, ErrorsOK, Accepted
<1>9. CycleRefusalJust'
  BY <1>0, RefusalKept DEF CompInv
<1>10. PoolOK' /\ WellFormed(draft)'
  BY <1>0, PoolKept
<1> QED BY <1>4, <1>5, <1>6, <1>7, <1>8, <1>9, <1>10 DEF CompInv

-----------------------------------------------------------------------------
(* Greatest and first *)

\* A function on a finite set has a greatest value: of the sets of those who exceed
\* somebody, a smallest one is empty.
LEMMA Greatest ==
  ASSUME NEW D, IsFiniteSet(D), D # {}, NEW f \in [D -> Int]
  PROVE  \E m \in D : \A j \in D : f[j] <= f[m]
<1> DEFINE Above(k) == {j \in D : f[j] > f[k]}
           T == {Above(k) : k \in D}
<1>1. IsWellFoundedOn(StrictSubsetOrdering(D), FiniteSubsetsOf(D))
  BY FS_StrictSubsetOrderingWellFounded
<1>2. ASSUME NEW k \in D PROVE Above(k) \in SUBSET D /\ IsFiniteSet(Above(k))
  <2>1. Above(k) \subseteq D
    OBVIOUS
  <2> HIDE DEF Above
  <2> QED BY <2>1, FS_Subset
<1>3. T \subseteq FiniteSubsetsOf(D) /\ T # {}
  <2> HIDE DEF Above
  <2> QED BY <1>2 DEF FiniteSubsetsOf
<1>4. PICK A \in T : \A B \in T : ~(<<B, A>> \in StrictSubsetOrdering(D))
  <2> HIDE DEF T
  <2> QED BY <1>1, <1>3, WFMin
<1>5. PICK m \in D : A = Above(m)
  BY <1>4
<1>6. ASSUME NEW j \in D, f[j] > f[m] PROVE FALSE
  <2>1. j \in Above(m) /\ j \notin Above(j) /\ Above(j) \subseteq Above(m)
    BY <1>6
  <2>2. <<Above(j), A>> \in StrictSubsetOrdering(D)
    BY <2>1, <1>2, <1>5 DEF StrictSubsetOrdering
  <2>3. Above(j) \in T
    OBVIOUS
  <2> QED BY <2>2, <2>3, <1>4
<1> QED BY <1>6

LEMMA Interval ==
  ASSUME NEW n \in Nat
  PROVE  IsFiniteSet(1..n) /\ Cardinality(1..n) = n
<1>1. IsFiniteSet(1..n) /\ Cardinality(1..n) = IF 1 > n THEN 0 ELSE n - 1 + 1
  <2>1. 1 \in Int /\ n \in Int
    OBVIOUS
  <2> QED BY <2>1, FS_Interval
<1> QED BY <1>1

\* Some indexes have a least.
LEMMA Least ==
  ASSUME NEW n \in Nat, NEW S, S \subseteq 1..n, S # {}
  PROVE  \E m \in S : \A j \in S : m <= j
<1>1. IsFiniteSet(S)
  BY Interval, FS_Subset
<1> DEFINE f == [k \in S |-> 0 - k]
<1>2. f \in [S -> Int]
  OBVIOUS
<1>3. PICK m \in S : \A j \in S : f[j] <= f[m]
  <2> HIDE DEF f
  <2> QED BY <1>1, <1>2, Greatest
<1>4. \A j \in S : m <= j
  BY <1>3
<1> QED BY <1>4

-----------------------------------------------------------------------------
(* aggregate *)

Cands(w) == [1..w -> Outcomes]

\* A label that some candidate has is first seen somewhere, and nowhere before.
LEMMA FirstSeenFacts ==
  ASSUME NEW w \in Nat, NEW cs \in Cands(w), NEW v \in Labels(cs)
  PROVE  /\ FirstSeen(cs, v) \in 1..w /\ cs[FirstSeen(cs, v)].label = v
         /\ \A j \in 1..w : cs[j].label = v => FirstSeen(cs, v) <= j
<1>0. DOMAIN cs = 1..w
  BY DEF Cands
<1> DEFINE S == {k \in 1..w : cs[k].label = v}
<1>1. S # {} /\ S \subseteq 1..w
  BY <1>0 DEF Labels
<1>2. PICK m \in S : \A j \in S : m <= j
  <2> HIDE DEF S
  <2> QED BY <1>1, Least
<1>3. m \in DOMAIN cs /\ cs[m].label = v /\ \A j \in 1..(m - 1) : cs[j].label # v
  <2>1. ASSUME NEW j \in 1..(m - 1), cs[j].label = v PROVE FALSE
    <3>1. j \in S /\ j < m
      BY <2>1
    <3> QED BY <3>1, <1>2
  <2> QED BY <2>1, <1>0
<1>4. /\ FirstSeen(cs, v) \in DOMAIN cs /\ cs[FirstSeen(cs, v)].label = v
      /\ \A j \in 1..(FirstSeen(cs, v) - 1) : cs[j].label # v
  BY <1>3 DEF FirstSeen
<1>5. ASSUME NEW j \in 1..w, cs[j].label = v PROVE FirstSeen(cs, v) <= j
  <2>1. FirstSeen(cs, v) \in 1..w
    BY <1>0, <1>4
  <2> QED BY <2>1, <1>4, <1>5
<1> QED BY <1>0, <1>4, <1>5

LEMMA VotesFacts ==
  ASSUME NEW w \in Nat, NEW cs \in Cands(w), NEW v
  PROVE  Votes(cs, v) \in Nat
<1>1. DOMAIN cs = 1..w
  BY DEF Cands
<1>2. IsFiniteSet({k \in 1..w : cs[k].label = v})
  BY Interval, FS_Subset
<1> QED BY <1>1, <1>2, FS_CardinalityType DEF Votes

Wins(cs, v, u) ==
  \/ Votes(cs, u) < Votes(cs, v)
  \/ Votes(cs, u) = Votes(cs, v) /\ FirstSeen(cs, v) < FirstSeen(cs, u)

\* One label outdoes all the others.
LEMMA ModalFacts ==
  ASSUME NEW w \in Nat, w >= 1, NEW cs \in Cands(w)
  PROVE  Modal(cs) \in Labels(cs) /\ \A u \in Labels(cs) \ {Modal(cs)} : Wins(cs, Modal(cs), u)
<1>0. DOMAIN cs = 1..w /\ 1 \in 1..w
  BY DEF Cands
<1>1. Labels(cs) = {cs[k].label : k \in 1..w}
  BY <1>0 DEF Labels
<1>2. \A k \in 1..w : cs[k].label \in Labels(cs)
  BY <1>1
<1> DEFINE f == [k \in 1..w |-> Votes(cs, cs[k].label)]
<1>3. f \in [1..w -> Int]
  BY VotesFacts
<1>4. PICK top \in 1..w : \A j \in 1..w : f[j] <= f[top]
  <2> HIDE DEF f
  <2> QED BY <1>0, <1>3, Interval, Greatest
<1>5. \A j \in 1..w : Votes(cs, cs[j].label) <= Votes(cs, cs[top].label)
  BY <1>4
<1> HIDE DEF f
<1> DEFINE S == {k \in 1..w : Votes(cs, cs[k].label) = Votes(cs, cs[top].label)}
<1>6. PICK m \in S : \A j \in S : m <= j
  <2>1. S \subseteq 1..w /\ S # {}
    BY <1>4
  <2> HIDE DEF S
  <2> QED BY <2>1, Least
<1> DEFINE v == cs[m].label
<1>7. v \in Labels(cs) /\ Votes(cs, v) = Votes(cs, cs[top].label) /\ FirstSeen(cs, v) <= m
  <2>1. m \in 1..w
    BY <1>6
  <2> QED BY <2>1, <1>2, <1>6, FirstSeenFacts
<1>8. ASSUME NEW u \in Labels(cs) \ {v} PROVE Wins(cs, v, u)
  <2>1. /\ FirstSeen(cs, u) \in 1..w /\ cs[FirstSeen(cs, u)].label = u
        /\ FirstSeen(cs, v) \in 1..w /\ cs[FirstSeen(cs, v)].label = v
    BY <1>7, FirstSeenFacts
  <2>2. Votes(cs, u) <= Votes(cs, v)
    BY <2>1, <1>5, <1>7
  <2>3. CASE Votes(cs, u) = Votes(cs, v)
    <3>1. FirstSeen(cs, u) \in S
      BY <2>1, <2>3, <1>7
    <3>2. m <= FirstSeen(cs, u)
      BY <3>1, <1>6
    <3>3. FirstSeen(cs, v) # FirstSeen(cs, u)
      BY <2>1
    <3> HIDE DEF v
    <3>4. FirstSeen(cs, v) < FirstSeen(cs, u)
      BY <3>2, <3>3, <2>1, <1>6, <1>7
    <3> QED BY <3>4, <2>3 DEF Wins
  <2>4. CASE Votes(cs, u) # Votes(cs, v)
    <3>1. Votes(cs, u) \in Nat /\ Votes(cs, v) \in Nat
      BY VotesFacts
    <3> HIDE DEF v
    <3> QED BY <3>1, <2>2, <2>4 DEF Wins
  <2> QED BY <2>3, <2>4
<1>9. \E x \in Labels(cs) : \A u \in Labels(cs) \ {x} : Wins(cs, x, u)
  BY <1>7, <1>8
<1> QED BY <1>9 DEF Modal, Wins

\* The first of the best scores.
BestOf(cs) ==
  CHOOSE k \in DOMAIN cs : /\ \A j \in DOMAIN cs : cs[j].score <= cs[k].score
                           /\ \A j \in 1..(k - 1) : cs[j].score < cs[k].score

LEMMA BestFacts ==
  ASSUME NEW w \in Nat, w >= 1, NEW cs \in Cands(w)
  PROVE  /\ BestOf(cs) \in 1..w
         /\ \A j \in 1..w : cs[j].score <= cs[BestOf(cs)].score
         /\ \A j \in 1..(BestOf(cs) - 1) : cs[j].score < cs[BestOf(cs)].score
<1>0. DOMAIN cs = 1..w /\ 1 \in 1..w /\ \A k \in 1..w : cs[k].score \in Int
  BY CompilerAssumption DEF Cands
<1> DEFINE f == [k \in 1..w |-> cs[k].score]
<1>1. f \in [1..w -> Int]
  BY <1>0
<1>2. PICK top \in 1..w : \A j \in 1..w : f[j] <= f[top]
  <2> HIDE DEF f
  <2> QED BY <1>0, <1>1, Interval, Greatest
<1>3. \A j \in 1..w : cs[j].score <= cs[top].score
  BY <1>2
<1> HIDE DEF f
<1> DEFINE S == {k \in 1..w : cs[k].score = cs[top].score}
<1>4. PICK m \in S : \A j \in S : m <= j
  <2>1. S \subseteq 1..w /\ S # {}
    BY <1>2
  <2> HIDE DEF S
  <2> QED BY <2>1, Least
<1>5. \A j \in 1..w : cs[j].score <= cs[m].score
  BY <1>3, <1>4
<1>6. ASSUME NEW j \in 1..(m - 1) PROVE cs[j].score < cs[m].score
  <2>1. j \in 1..w /\ m \in 1..w /\ j < m
    BY <1>4
  <2>2. j \notin S
    BY <2>1, <1>4
  <2> QED BY <2>1, <2>2, <1>0, <1>4, <1>5
<1>7. \E k \in DOMAIN cs : /\ \A j \in DOMAIN cs : cs[j].score <= cs[k].score
                           /\ \A j \in 1..(k - 1) : cs[j].score < cs[k].score
  BY <1>0, <1>4, <1>5, <1>6
<1>8. /\ BestOf(cs) \in DOMAIN cs
      /\ \A j \in DOMAIN cs : cs[j].score <= cs[BestOf(cs)].score
      /\ \A j \in 1..(BestOf(cs) - 1) : cs[j].score < cs[BestOf(cs)].score
  BY <1>7 DEF BestOf
<1> QED BY <1>0, <1>8

\* The artifact is that of a candidate.
LEMMA AggregateOne ==
  ASSUME NEW w \in Nat, w >= 1, NEW cs \in Cands(w), NEW how \in {"first", "best", "majority"}
  PROVE  aggregate(cs, how) \in Outcomes
<1>0. \A k \in 1..w : cs[k] \in Outcomes
  BY DEF Cands
<1>1. CASE how = "first"
  BY <1>0, <1>1 DEF aggregate
<1>2. CASE how = "best"
  <2>1. aggregate(cs, how) = cs[BestOf(cs)]
    BY <1>2 DEF aggregate, BestOf
  <2> QED BY <2>1, <1>0, BestFacts
<1>3. CASE how = "majority"
  <2>1. aggregate(cs, how) = cs[FirstSeen(cs, Modal(cs))]
    BY <1>3 DEF aggregate
  <2>2. FirstSeen(cs, Modal(cs)) \in 1..w
    BY ModalFacts, FirstSeenFacts
  <2> QED BY <2>1, <2>2, <1>0
<1> QED BY <1>1, <1>2, <1>3

-----------------------------------------------------------------------------
(* The pool *)

Pooled(n) == StepOf(draft, n).type \in {"fanout", "verify"}

\* An accepted fanout or verify step has an agent, a rule, and a quorum they can reach.
LEMMA PoolFacts ==
  ASSUME CompInv, Accepted, NEW n \in StepIds(draft), Pooled(n)
  PROVE  LET s == StepOf(draft, n)
         IN  /\ s.width \in Nat /\ s.width >= 1
             /\ s.type = "fanout" => s.aggregate \in {"first", "best", "majority"}
             /\ s.type = "verify" => /\ QuorumAtRun(s) \in 1..s.width
                                     /\ s.verifyQuorum # Unset => QuorumAtRun(s) = s.verifyQuorum
<1> DEFINE s == StepOf(draft, n)
<1>1. s \in Range(draft.steps)
  BY StepFacts DEF CompInv
<1>2. /\ s.width \in Int \cup {Unset} /\ s.verifyQuorum \in Int \cup {Unset}
      /\ s.type = "fanout" => s.aggregate \in {"majority", "best", "first", Unset}
  BY <1>1 DEF CompInv, WellFormed
<1>3. ~Breaks(draft, "E-FANOUT") /\ ~Breaks(draft, "E-VERIFY")
  BY DEF CompInv, ErrorsOK, Accepted, Checks
<1>4. ~BadFanout(draft) /\ ~BadVerify(draft)
  BY <1>3 DEF Breaks
<1>5. s.type \in {"fanout", "verify"}
  BY DEF Pooled
<1>6. Unset \notin Int
  BY CompilerAssumption
<1> HIDE DEF s
<1>7. CASE s.type = "fanout"
  <2>1. s \in StepsOf(draft, {"fanout"})
    BY <1>1, <1>7 DEF StepsOf
  <2>2. s.width \in 2..MAX_FANOUT /\ s.aggregate # Unset
    BY <2>1, <1>4 DEF BadFanout
  <2> QED BY <2>2, <1>2, <1>7 DEF s, MAX_FANOUT
<1>8. CASE s.type = "verify"
  <2>1. s \in StepsOf(draft, {"verify"})
    BY <1>1, <1>8 DEF StepsOf
  <2>2. /\ s.width # Unset /\ s.width \in 1..MAX_VERIFIERS
        /\ s.width \notin {Unset, 0} => QuorumGiven(s) \in 1..s.width
    BY <2>1, <1>4 DEF BadVerify
  <2>3. s.width \in Nat /\ s.width >= 1
    BY <2>2 DEF MAX_VERIFIERS
  <2>4. QuorumGiven(s) \in 1..s.width
    BY <2>2, <2>3
  <2>5. QuorumAtRun(s) \in 1..s.width /\ (s.verifyQuorum # Unset => QuorumAtRun(s) = s.verifyQuorum)
    BY <2>3, <2>4 DEF QuorumAtRun, QuorumGiven
  <2> QED BY <2>3, <2>5, <1>8 DEF s
<1> QED BY <1>5, <1>7, <1>8

\* What the steps of the pool have in common.
LEMMA InPool ==
  ASSUME CompInv, UNCHANGED <<draft, searchVars>>, phase \in {"ordered", "pool"},
         phase' \in {"pool", "done", "raised"}, phase' = "raised" => Raised \in Range(answers'),
         PoolOK', step' \in StepIds(draft) \cup {Unset},
         Range(answers') \subseteq Outcomes \cup {Raised, Unset}, arrived' \in Seq(DOMAIN answers'),
         result' # Unset <=> phase' = "done"
  PROVE  CompInv'
<1>0. draft' = draft /\ errors' = errors /\ color' = color /\ frames' = frames /\ order' = order
  BY DEF searchVars
<1>1. CompTypeOK'
  BY <1>0 DEF CompInv, CompTypeOK, Phases
<1>2. WellFormed(draft)' /\ CycleRefusalJust'
  BY <1>0, RefusalKept DEF CompInv
<1>3. PathOK' /\ CyclesOK'
  BY <1>0 DEF CompInv, PathOK, CyclesOK
<1>4. ErrorsOK'
  BY <1>0 DEF CompInv, ErrorsOK, Accepted
<1>5. IsInjective(order) /\ Topological(draft, order) /\ Range(order) = StepIds(draft)
  BY DEF CompInv, OrderOK
<1>6. IsInjective(order') /\ Topological(draft', order') /\ Range(order') = StepIds(draft')
  BY <1>0, <1>5
<1>7. OrderOK'
  BY <1>6 DEF OrderOK
<1>8. DOMAIN order' = 1..Len(order')
  BY <1>0 DEF CompInv, CompTypeOK
<1>9. OrderSound'
  BY <1>6, <1>8 DEF OrderSound, Topological, Edges
<1> QED BY <1>1, <1>2, <1>3, <1>4, <1>7, <1>9 DEF CompInv

LEMMA LaunchStep ==
  ASSUME CompInv, NEW n \in Range(order), Launch(n)
  PROVE  CompInv'
<1>0. /\ phase = "ordered" /\ phase' = "pool" /\ step' = n /\ Pooled(n)
      /\ answers' = [k \in 1..StepOf(draft, n).width |-> Unset]
      /\ UNCHANGED <<draft, searchVars>> /\ draft' = draft /\ arrived' = arrived /\ result' = result
  BY DEF Launch, Pooled
<1>1. n \in StepIds(draft) /\ arrived = <<>> /\ result = Unset
  BY <1>0 DEF CompInv, CompTypeOK, OrderOK, PoolOK
<1>2. PoolOK'
  BY <1>0, <1>1 DEF PoolOK, Pooled, Width
<1>3. Range(answers') \subseteq {Unset} /\ arrived' \in Seq(DOMAIN answers')
  BY <1>0, <1>1 DEF Range
<1> QED BY <1>0, <1>1, <1>2, <1>3, InPool

LEMMA AnswerStep ==
  ASSUME CompInv, NEW k \in DOMAIN answers, NEW a \in Outcomes \cup {Raised}, Answer(k, a)
  PROVE  CompInv'
<1>0. /\ phase = "pool" /\ phase' = "pool" /\ step' = step
      /\ answers' = [answers EXCEPT ![k] = a] /\ arrived' = Append(arrived, k)
      /\ UNCHANGED <<draft, searchVars>> /\ draft' = draft /\ result' = result
  BY DEF Answer
<1>1. /\ step \in StepIds(draft) /\ StepOf(draft, step).type \in {"fanout", "verify"}
      /\ answers \in [1..Width -> Outcomes \cup {Raised, Unset}]
      /\ arrived \in Seq(DOMAIN answers) /\ result = Unset
  BY <1>0 DEF CompInv, CompTypeOK, PoolOK
<1>2. answers' \in [1..Width -> Outcomes \cup {Raised, Unset}] /\ Width' = Width
  BY <1>0, <1>1 DEF Width
<1>3. PoolOK'
  BY <1>0, <1>1, <1>2 DEF PoolOK
<1>4. Range(answers') \subseteq Outcomes \cup {Raised, Unset}
  BY <1>2 DEF Range
<1>5. arrived' \in Seq(DOMAIN answers')
  BY <1>0, <1>1
<1> QED BY <1>0, <1>1, <1>3, <1>4, <1>5, InPool

LEMMA ApprovalsFacts ==
  ASSUME NEW w \in Nat, NEW cs \in Cands(w)
  PROVE  /\ Approvals(cs) = Cardinality({k \in 1..w : cs[k].approve})
         /\ Approvals(cs) \in 0..w
<1>1. DOMAIN cs = 1..w
  BY DEF Cands
<1>2. Approvals(cs) = Cardinality({k \in 1..w : cs[k].approve})
  BY <1>1 DEF Approvals
<1> DEFINE Y == {k \in 1..w : cs[k].approve}
<1>3. Y \subseteq 1..w
  OBVIOUS
<1> HIDE DEF Y
<1>4. Cardinality(Y) \in Nat /\ Cardinality(Y) <= w
  <2>1. IsFiniteSet(1..w) /\ Cardinality(1..w) = w
    BY Interval
  <2>2. IsFiniteSet(Y) /\ Cardinality(Y) <= Cardinality(1..w)
    BY <2>1, <1>3, FS_Subset
  <2> QED BY <2>1, <2>2, FS_CardinalityType
<1> QED BY <1>2, <1>4 DEF Y

LEMMA CollectStep ==
  ASSUME CompInv, Collect
  PROVE  CompInv'
<1>0. /\ phase = "pool" /\ Unset \notin Range(answers)
      /\ UNCHANGED <<draft, searchVars>>
      /\ draft' = draft /\ step' = step /\ answers' = answers /\ arrived' = arrived
      /\ \/ Raised \in Range(answers) /\ phase' = "raised" /\ result' = Unset
         \/ Raised \notin Range(answers) /\ phase' = "done" /\ result' = Reduced
  BY DEF Collect, Reduced
<1>1. /\ step \in StepIds(draft) /\ Pooled(step) /\ Accepted
      /\ answers \in [1..Width -> Outcomes \cup {Raised, Unset}]
      /\ arrived \in Seq(DOMAIN answers) /\ Range(answers) \subseteq Outcomes \cup {Raised, Unset}
  BY <1>0 DEF CompInv, CompTypeOK, PoolOK, Pooled, Accepted
<1>2. CASE Raised \in Range(answers)
  <2>1. phase' = "raised" /\ result' = Unset
    BY <1>0, <1>2
  <2>2. PoolOK'
    BY <2>1 DEF PoolOK
  <2> QED BY <2>1, <2>2, <1>0, <1>1, <1>2, InPool
<1>3. CASE Raised \notin Range(answers)
  <2>1. phase' = "done" /\ result' = Reduced
    BY <1>0, <1>3
  <2>2. answers \in Cands(Width)
    <3>1. \A k \in 1..Width : answers[k] \in Range(answers)
      BY <1>1 DEF Range
    <3> QED BY <3>1, <1>0, <1>1, <1>3 DEF Cands
  <2>3. Candidates = answers
    BY <2>2 DEF Candidates, Cands, Width
  <2>4. Reduced # Unset
    <3>1. Width \in Nat /\ Width >= 1 /\ Pooled(step)
      BY <1>1, PoolFacts DEF Width
    <3>2. CASE StepOf(draft, step).type = "fanout"
      <4>1. StepOf(draft, step).aggregate \in {"first", "best", "majority"}
        BY <3>2, <1>1, PoolFacts
      <4>2. aggregate(answers, StepOf(draft, step).aggregate) \in Outcomes
        BY <4>1, <3>1, <2>2, AggregateOne
      <4> QED BY <4>2, <3>2, <2>3, CompilerAssumption DEF Reduced
    <3>3. CASE StepOf(draft, step).type # "fanout"
      <4>1. QuorumAtRun(StepOf(draft, step)) \in Int
        <5>1. StepOf(draft, step).type = "verify"
          BY <3>3, <1>1 DEF Pooled
        <5>2. QuorumAtRun(StepOf(draft, step)) \in 1..StepOf(draft, step).width
          BY <5>1, <1>1, PoolFacts
        <5> QED BY <5>2
      <4>2. Approvals(answers) \in Nat
        <5>1. PICK w \in Nat : w = Width
          BY <3>1
        <5>2. Approvals(answers) \in 0..w
          BY <5>1, <2>2, ApprovalsFacts
        <5> QED BY <5>2
      <4>3. (Approvals(answers) >= QuorumAtRun(StepOf(draft, step))) \in BOOLEAN
        BY <4>1, <4>2
      <4>4. Reduced \in [verified : BOOLEAN, approvals : Nat]
        BY <4>2, <4>3, <3>3, <2>3 DEF Reduced
      <4> QED BY <4>4, CompilerAssumption
    <3> QED BY <3>2, <3>3
  <2>5. Width' = Width /\ Reduced' = Reduced
    BY <1>0 DEF Width, Reduced, Candidates
  <2>6. PoolOK'
    BY <1>0, <1>1, <2>1, <2>2, <2>5 DEF PoolOK, Pooled, Cands
  <2> QED BY <2>1, <2>4, <2>6, <1>0, <1>1, InPool
<1> QED BY <1>2, <1>3

-----------------------------------------------------------------------------
(* The theorems *)

LEMMA CompStart ==
  ASSUME CompInit
  PROVE  CompInv
<1>0. /\ phase = "draft" /\ errors = {} /\ frames = <<>> /\ order = <<>>
      /\ step = Unset /\ answers = <<>> /\ arrived = <<>> /\ result = Unset
  BY DEF CompInit
<1>1. WellFormed(draft)
  BY CompilerAssumption DEF CompInit
<1>2. Len(frames) = 0 /\ Len(order) = 0 /\ DOMAIN order = {} /\ Range(answers) = {}
  BY <1>0 DEF Range
<1>3. CompTypeOK
  BY <1>0, <1>2 DEF CompTypeOK, Phases
<1>4. PathOK /\ CyclesOK /\ ErrorsOK /\ PoolOK
  BY <1>0, <1>2 DEF PathOK, Path, CyclesOK, ErrorsOK, PoolOK, Accepted
<1>5. OrderOK
  BY <1>0, <1>2 DEF OrderOK, IsInjective, Topological
<1>6. CycleRefusalJust /\ OrderSound
  BY <1>0 DEF CycleRefusalJust, OrderSound, Accepted
<1> QED BY <1>1, <1>3, <1>4, <1>5, <1>6 DEF CompInv

LEMMA Stutter ==
  ASSUME CompInv, UNCHANGED compVars
  PROVE  CompInv'
<1>0. /\ draft' = draft /\ phase' = phase /\ errors' = errors /\ color' = color /\ frames' = frames
      /\ order' = order /\ step' = step /\ answers' = answers /\ arrived' = arrived /\ result' = result
  BY DEF compVars, searchVars, poolVars
<1>1. CompTypeOK' /\ WellFormed(draft)' /\ CycleRefusalJust'
  BY <1>0, RefusalKept DEF CompInv, CompTypeOK
<1>2. PathOK' /\ CyclesOK'
  <2>1. Black' = Black
    BY <1>0 DEF Black
  <2> QED BY <2>1, <1>0 DEF CompInv, PathOK, CyclesOK
<1>3. ErrorsOK' /\ OrderOK'
  BY <1>0 DEF CompInv, ErrorsOK, OrderOK, Accepted
<1>4. PoolOK'
  <2>1. Width' = Width /\ Reduced' = Reduced
    BY <1>0 DEF Width, Reduced, Candidates
  <2> QED BY <2>1, <1>0 DEF CompInv, PoolOK
<1>5. OrderSound'
  BY <1>0 DEF CompInv, OrderSound, Accepted
<1> QED BY <1>1, <1>2, <1>3, <1>4, <1>5 DEF CompInv

LEMMA CompSteps ==
  ASSUME CompInv, [CompNext]_compVars
  PROVE  CompInv'
<1>1. CASE compile_company
  BY <1>1, CompileStep
<1>2. CASE Visit
  BY <1>2, VisitStep
<1>3. CASE VisitGrey
  BY <1>3, VisitGreyStep
<1>4. CASE VisitBlack
  BY <1>4, VisitBlackStep
<1>5. CASE VisitEnds
  BY <1>5, VisitEndsStep
<1>6. CASE CompileEnds
  BY <1>6, CompileEndsStep
<1>7. CASE PlaceBegins
  BY <1>7, PlaceBeginsStep
<1>8. CASE PlaceSeen
  BY <1>8, PlaceSeenStep
<1>9. CASE PlaceRaises
  BY <1>9, PlaceRaisesStep
<1>10. CASE Place
  BY <1>10, PlaceStep
<1>11. CASE OrderEnds
  BY <1>11, OrderEndsStep
<1>12. CASE \E n \in Range(order) : Launch(n)
  BY <1>12, LaunchStep
<1>13. CASE \E k \in DOMAIN answers, a \in Outcomes \cup {Raised} : Answer(k, a)
  BY <1>13, AnswerStep
<1>14. CASE Collect
  BY <1>14, CollectStep
<1>15. CASE UNCHANGED compVars
  BY <1>15, Stutter
<1> QED BY <1>1, <1>2, <1>3, <1>4, <1>5, <1>6, <1>7, <1>8, <1>9, <1>10, <1>11, <1>12, <1>13, <1>14, <1>15
        DEF CompNext

\* The invariant holds in every state a compilation and its pool can reach.
THEOREM CompAlways == CompSpec => []CompInv
BY CompStart, CompSteps, PTL DEF CompSpec

\* The compiler's state has its type: a result there is only when a step was reduced, and
\* then it is an artifact, whatever the agents answered.
THEOREM CompTypes == CompSpec => []CompTypeOK
<1>1. CompInv => CompTypeOK
  BY DEF CompInv
<1> QED BY <1>1, CompAlways, PTL

\* A compiled workflow without loop bounds is ordered without raising, every step once and
\* after all it needs (_check_cycles, _in_dependency_order).
THEOREM OrdersSoundly == CompSpec => []OrderSound
<1>1. CompInv => OrderSound
  BY DEF CompInv
<1> QED BY <1>1, CompAlways, PTL

\* A workflow is refused for a cycle only when it has one without a bound (_check_cycles).
THEOREM RefusesJustly == CompSpec => []CycleRefusalJust
<1>1. CompInv => CycleRefusalJust
  BY DEF CompInv
<1> QED BY <1>1, CompAlways, PTL

\* An accepted company broke none of the rules about authority.
LEMMA Unbroken ==
  ASSUME CompInv, Accepted
  PROVE  /\ ~MetaInvented(draft) /\ ~TierLowered(draft) /\ ~Unrepeatable(draft) /\ ~NoApprover(draft)
         /\ ~UnknownRole(draft) /\ ~TooWeak(draft) /\ ~UnknownStep(draft)
<1>1. \A code \in Checks : ~Breaks(draft, code)
  BY DEF CompInv, ErrorsOK, Accepted
<1>2. /\ ~Breaks(draft, "E-META-LOCKED") /\ ~Breaks(draft, "E-TIER-LOWERED")
      /\ ~Breaks(draft, "E-IDEMPOTENCY") /\ ~Breaks(draft, "E-APPROVER")
      /\ ~Breaks(draft, "E-REF-ROLE") /\ ~Breaks(draft, "E-CAP-DEFAULTALLOW")
      /\ ~Breaks(draft, "E-REF-WORKFLOW")
  BY <1>1 DEF Checks
<1> QED BY <1>2 DEF Breaks

LEMMA ClosedAuthority ==
  ASSUME CompInv
  PROVE  AuthorityClosed
<1> SUFFICES ASSUME Accepted PROVE AuthorityClosed
  BY DEF AuthorityClosed
<1>1. ASSUME NEW a \in draft.actions, a.risk \in SIDE_EFFECTING
      PROVE  /\ a.id \notin Reserved /\ a.idempotent
             /\ a.approval.roles \cap (Human \cup RoleIds(draft)) # {}
             /\ a.risk = "consequential" => a.approval.require = "hardware_passkey"
  <2>1. a.risk \in {"external_reversible", "consequential"}
    BY <1>1 DEF SIDE_EFFECTING
  <2>2. a.id \notin Reserved
    <3>1. a.id \in Reserved => a.id \in Locked
      BY Unbroken DEF MetaInvented
    <3>2. a.id \in Locked => ~(RISK_RANK[a.risk] < RISK_RANK[LOCKED_RISK])
      BY Unbroken DEF TierLowered
    <3>3. RISK_RANK[a.risk] < RISK_RANK[LOCKED_RISK]
      BY <2>1 DEF RISK_RANK, LOCKED_RISK
    <3> QED BY <3>1, <3>2, <3>3
  <2>3. a.idempotent
    BY <1>1, Unbroken DEF Unrepeatable
  <2>4. Approvable(a) /\ a.approval.roles # {}
    BY <1>1, Unbroken DEF NoApprover
  <2>5. a.approval.roles \subseteq Human \cup RoleIds(draft)
    BY <1>1, <2>4, Unbroken DEF UnknownRole, UnknownApprover
  <2>6. a.approval.require \in REQUIRED_APPROVAL[a.risk]
    BY <1>1, <2>4, Unbroken DEF TooWeak
  <2>7. a.risk = "consequential" => a.approval.require = "hardware_passkey"
    BY <2>6 DEF REQUIRED_APPROVAL
  <2> QED BY <2>2, <2>3, <2>4, <2>5, <2>7
<1>2. ASSUME NEW s \in StepsOf(draft, {"humanGate"})
      PROVE  \E a \in draft.actions : a.id = s.policy
  BY Unbroken DEF UnknownStep
<1> QED BY <1>1, <1>2 DEF AuthorityClosed

\* What an accepted company lets the gateway authorize on signatures can be repeated, is no
\* action of the engine and has a signer of the strength its risk demands (compile_company).
THEOREM ClosesAuthority == CompSpec => []AuthorityClosed
<1>1. CompInv => AuthorityClosed
  BY ClosedAuthority
<1> QED BY <1>1, CompAlways, PTL

\* What a reduced step's pool looked like.
LEMMA DoneFacts ==
  ASSUME CompInv, phase = "done"
  PROVE  /\ step \in StepIds(draft) /\ Pooled(step) /\ Accepted
         /\ Width \in Nat /\ Width >= 1 /\ answers \in Cands(Width) /\ DOMAIN answers = 1..Width
         /\ Candidates = answers /\ result = Reduced
<1>1. step \in StepIds(draft) /\ Pooled(step) /\ Accepted /\ answers \in Cands(Width) /\ result = Reduced
  BY DEF CompInv, PoolOK, Pooled, Accepted, Cands
<1>2. Width \in Nat /\ Width >= 1
  BY <1>1, PoolFacts DEF Width
<1>3. DOMAIN answers = 1..Width /\ Candidates = answers
  BY <1>1 DEF Cands, Candidates, Width
<1> QED BY <1>1, <1>2, <1>3

LEMMA EarnedVerify ==
  ASSUME CompInv
  PROVE  VerifyEarned
<1> SUFFICES ASSUME phase = "done", StepOf(draft, step).type = "verify" PROVE VerifyEarned
  BY DEF VerifyEarned
<1> DEFINE s == StepOf(draft, step)
           yes == {k \in 1..s.width : answers[k].approve}
<1>1. PICK w \in Nat : w = Width
  BY DoneFacts
<1>2. w = s.width /\ w >= 1 /\ answers \in Cands(w) /\ Candidates = answers /\ result = Reduced
  BY <1>1, DoneFacts DEF Width
<1>3. QuorumAtRun(s) \in 1..w /\ (s.verifyQuorum # Unset => QuorumAtRun(s) = s.verifyQuorum)
  BY <1>2, DoneFacts, PoolFacts
<1>4. Approvals(answers) = Cardinality(yes) /\ Approvals(answers) \in 0..w
  BY <1>2, ApprovalsFacts
<1>5. result.verified <=> Cardinality(yes) >= QuorumAtRun(s)
  BY <1>2, <1>4 DEF Reduced
<1>6. Cardinality({}) = 0 /\ Cardinality(1..w) = w
  BY FS_EmptySet, Interval
<1> HIDE DEF yes, s
<1>7. yes = {} => ~result.verified
  BY <1>3, <1>5, <1>6
<1>8. yes = 1..s.width => result.verified
  BY <1>2, <1>3, <1>5, <1>6
<1>9. result.verified /\ s.verifyQuorum # Unset => Cardinality(yes) >= s.verifyQuorum
  BY <1>3, <1>5
<1> QED BY <1>7, <1>8, <1>9 DEF VerifyEarned, yes, s

\* A verify step passes by the approvals of its verifiers and no others (_run_verify).
THEOREM VerifiesByApprovals == CompSpec => []VerifyEarned
<1>1. CompInv => VerifyEarned
  BY EarnedVerify
<1> QED BY <1>1, CompAlways, PTL

LEMMA StableAggregate ==
  ASSUME CompInv
  PROVE  AggregateStable
<1> SUFFICES ASSUME phase = "done", StepOf(draft, step).type = "fanout" PROVE AggregateStable
  BY DEF AggregateStable
<1> DEFINE how == StepOf(draft, step).aggregate
           backers(k) == {j \in DOMAIN answers : answers[j].label = answers[k].label}
           weight(k) == CASE how = "first" -> 0 [] how = "best" -> answers[k].score
                          [] how = "majority" -> Cardinality(backers(k))
           tops == {k \in DOMAIN answers : \A j \in DOMAIN answers : weight(j) <= weight(k)}
<1>1. PICK w \in Nat : w = Width
  BY DoneFacts
<1>2. w >= 1 /\ answers \in Cands(w) /\ DOMAIN answers = 1..w
  BY <1>1, DoneFacts
<1>3. result = aggregate(answers, how)
  BY DoneFacts DEF Reduced
<1>4. how \in {"first", "best", "majority"}
  BY DoneFacts, PoolFacts
<1>5. ASSUME how = "first" PROVE \E k \in tops : result = answers[k] /\ \A j \in tops : k <= j
  <2>1. result = answers[1] /\ 1 \in DOMAIN answers
    BY <1>2, <1>3, <1>5 DEF aggregate
  <2>2. \A k \in DOMAIN answers : weight(k) = 0
    BY <1>5
  <2> HIDE DEF weight
  <2>3. 1 \in tops /\ \A j \in tops : 1 <= j
    BY <2>1, <2>2, <1>2
  <2> QED BY <2>1, <2>3
<1>6. ASSUME how = "best" PROVE \E k \in tops : result = answers[k] /\ \A j \in tops : k <= j
  <2>1. result = answers[BestOf(answers)]
    BY <1>3, <1>6 DEF aggregate, BestOf
  <2>2. \A k \in DOMAIN answers : weight(k) = answers[k].score
    BY <1>6
  <2>3. PICK b \in 1..w : /\ b = BestOf(answers)
                          /\ \A j \in 1..w : answers[j].score <= answers[b].score
                          /\ \A j \in 1..(b - 1) : answers[j].score < answers[b].score
    BY <1>2, BestFacts
  <2>4. \A j \in 1..w : answers[j].score \in Int
    BY <1>2, CompilerAssumption DEF Cands
  <2>5. b \in tops
    BY <2>2, <2>3, <1>2
  <2>6. ASSUME NEW j \in tops PROVE b <= j
    <3>1. j \in 1..w /\ answers[b].score <= answers[j].score
      BY <2>2, <2>3, <1>2
    <3>2. j \notin 1..(b - 1)
      BY <3>1, <2>3, <2>4
    <3> QED BY <3>1, <3>2
  <2> QED BY <2>1, <2>3, <2>5, <2>6
<1>7. ASSUME how = "majority" PROVE \E k \in tops : result = answers[k] /\ \A j \in tops : k <= j
  <2>1. PICK v : v = Modal(answers)
    OBVIOUS
  <2>2. v \in Labels(answers) /\ \A u \in Labels(answers) \ {v} : Wins(answers, v, u)
    BY <2>1, <1>2, ModalFacts
  <2>3. PICK b \in 1..w : /\ b = FirstSeen(answers, v) /\ answers[b].label = v
                          /\ \A j \in 1..w : answers[j].label = v => b <= j
    BY <2>2, <1>2, FirstSeenFacts
  <2>4. result = answers[b]
    BY <2>1, <2>3, <1>3, <1>7 DEF aggregate
  <2>5. ASSUME NEW k \in 1..w
        PROVE  /\ weight(k) = Votes(answers, answers[k].label)
               /\ answers[k].label \in Labels(answers) /\ Votes(answers, answers[k].label) \in Nat
    BY <1>2, <1>7, VotesFacts DEF Votes, Labels
  <2> HIDE DEF weight
  <2>6. ASSUME NEW j \in 1..w PROVE weight(j) <= weight(b)
    <3>1. CASE answers[j].label = v
      BY <3>1, <2>3, <2>5
    <3>2. CASE answers[j].label # v
      <4>1. Wins(answers, v, answers[j].label)
        BY <3>2, <2>2, <2>5
      <4> QED BY <4>1, <2>3, <2>5 DEF Wins
    <3> QED BY <3>1, <3>2
  <2>7. b \in tops
    BY <2>6, <1>2
  <2>8. ASSUME NEW j \in tops PROVE b <= j
    <3>1. j \in 1..w /\ weight(b) <= weight(j)
      BY <2>3, <1>2
    <3>2. CASE answers[j].label = v
      BY <3>1, <3>2, <2>3
    <3>3. CASE answers[j].label # v
      <4>1. Wins(answers, v, answers[j].label)
        BY <3>1, <3>3, <2>2, <2>5
      <4>2. b < FirstSeen(answers, answers[j].label)
        BY <4>1, <3>1, <2>3, <2>5 DEF Wins
      <4>3. FirstSeen(answers, answers[j].label) <= j /\ FirstSeen(answers, answers[j].label) \in 1..w
        BY <3>1, <2>5, <1>2, FirstSeenFacts
      <4> QED BY <4>2, <4>3, <3>1
    <3> QED BY <3>2, <3>3
  <2> QED BY <2>4, <2>7, <2>8
<1>8. \E k \in tops : result = answers[k] /\ \A j \in tops : k <= j
  BY <1>4, <1>5, <1>6, <1>7
<1> QED BY <1>8 DEF AggregateStable

\* The artifact of a fanout is that of the first agent no other outdoes, in whatever order
\* they answered (aggregate, _run_fanout).
THEOREM AggregatesStably == CompSpec => []AggregateStable
<1>1. CompInv => AggregateStable
  BY StableAggregate
<1> QED BY <1>1, CompAlways, PTL
=============================================================================
