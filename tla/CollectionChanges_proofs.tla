------------------------ MODULE CollectionChanges_proofs ------------------------
(***************************************************************************)
(* Theorems about IndexSets, CollectionChangeBuilder and                   *)
(* CollectionChanges: the operations of the builder compose changes, for   *)
(* any change sets, and the changes accumulated for a list are true, for   *)
(* lists of any size and any sequence of instructions and runs.            *)
(*                                                                         *)
(* A change leads indices of the old collection to indices of the new one  *)
(* (Tracks): the ones that stay are shifted past deletions and insertions, *)
(* the others are moved.  Everything is proved about that relation: what   *)
(* is merged leads an index to where one change after the other leads it   *)
(* (Continues), and a change of a collection leads an index to one of the  *)
(* same element (Follows).  The last part is the invariant of lists;       *)
(* CollectionTables_proofs goes on with results, and with the theorems     *)
(* about the collections of all kinds.                                     *)
(***************************************************************************)
EXTENDS CollectionChanges, FiniteSetTheorems, TLAPS

-----------------------------------------------------------------------------
\* Index sets: what shift and unshift do to the order of indices

\* An IndexSet holds finitely many indices.
IndexSet == {s \in SUBSET Nat : IsFiniteSet(s)}

\* Every set of indices that is not empty has a least member.
LEMMA LeastIndex ==
    ASSUME NEW T \in SUBSET Nat, T # {}
    PROVE  \E n \in T : \A k \in T : n <= k
<1>1. PICK x \in T : x \in Nat
  OBVIOUS
<1> DEFINE Q == {0 .. y : y \in {z \in T : z <= x}}
<1>2. Q \subseteq FiniteSubsetsOf(0 .. x) /\ Q # {}
  <2>1. \A y \in {z \in T : z <= x} : 0 .. y \in FiniteSubsetsOf(0 .. x)
    <3> SUFFICES ASSUME NEW y \in T, y <= x PROVE 0 .. y \in FiniteSubsetsOf(0 .. x)
      OBVIOUS
    <3>1. y \in Nat /\ 0 .. y \subseteq 0 .. x
      BY <1>1
    <3> QED
      BY <3>1, FS_Interval DEF FiniteSubsetsOf
  <2>2. 0 .. x \in Q
    BY <1>1
  <2> QED
    BY <2>1, <2>2
<1>3. PICK q \in Q : \A p \in Q : <<p, q>> \notin StrictSubsetOrdering(0 .. x)
  <2> HIDE DEF Q
  <2> QED
    BY <1>2, FS_StrictSubsetOrderingWellFounded, WFMin
<1>4. PICK n \in T : n <= x /\ q = 0 .. n
  OBVIOUS
<1>5. ASSUME NEW k \in T, k < n PROVE FALSE
  <2>1. k \in Nat /\ n \in Nat /\ k <= x
    BY <1>1, <1>4, <1>5
  <2>2. 0 .. k \in Q
    BY <2>1
  <2>3. 0 .. k \subseteq 0 .. n /\ 0 .. n \subseteq 0 .. x /\ n \in 0 .. n /\ n \notin 0 .. k
    BY <1>1, <1>4, <1>5, <2>1
  <2>4. <<0 .. k, 0 .. n>> \in StrictSubsetOrdering(0 .. x)
    BY <2>3 DEF StrictSubsetOrdering
  <2> QED
    BY <1>3, <1>4, <2>2, <2>4
<1> QED
  BY <1>5

\* count(0, n) grows by at most one from each index to the next, and just at those of
\* the set.
LEMMA CountFacts ==
    ASSUME NEW s \in IndexSet, NEW i \in Nat, NEW j \in Nat, i <= j
    PROVE  /\ CountBelow(s, i) \in Nat /\ CountBelow(s, j) \in Nat /\ Cardinality(s) \in Nat
           /\ CountBelow(s, i) <= i /\ CountBelow(s, i) <= Cardinality(s)
           /\ CountBelow(s, i) <= CountBelow(s, j)
           /\ CountBelow(s, j) - CountBelow(s, i) <= j - i
           /\ i < j /\ i \notin s => CountBelow(s, j) - CountBelow(s, i) < j - i
           /\ j = i + 1 /\ i \in s => CountBelow(s, j) = CountBelow(s, i) + 1
<1>a. s \subseteq Nat /\ IsFiniteSet(s)
  BY DEF IndexSet
<1>b. \A x \in s : x \in Nat
  BY <1>a
<1> DEFINE Below(k) == {x \in s : x < k}
           D == {x \in s : i <= x /\ x < j}
<1>1. IsFiniteSet(Below(i)) /\ IsFiniteSet(Below(j)) /\ IsFiniteSet(D)
  BY <1>a, FS_Subset
<1>2. Below(j) = Below(i) \cup D /\ Below(i) \cap D = {}
  <2>1. \A x \in s : x < j <=> (x < i \/ (i <= x /\ x < j))
    BY <1>b
  <2>2. \A x \in s : ~(x < i /\ i <= x)
    BY <1>b
  <2> QED
    BY <2>1, <2>2
<1>3. Cardinality(Below(j)) = Cardinality(Below(i)) + Cardinality(D) - Cardinality(Below(i) \cap D)
  BY <1>1, <1>2, FS_Union
<1>4. Cardinality(Below(i) \cap D) = 0
  BY <1>2, FS_EmptySet
<1>5. /\ Cardinality(Below(i)) \in Nat /\ Cardinality(Below(j)) \in Nat /\ Cardinality(D) \in Nat
      /\ Cardinality(s) \in Nat
  BY <1>1, <1>a, FS_CardinalityType
<1>6. Cardinality(D) <= j - i
  <2>1. D \in SUBSET (i .. j - 1)
    BY <1>b
  <2>2. IsFiniteSet(i .. j - 1) /\ Cardinality(i .. j - 1) = j - i
    <3>1. i \in Int /\ j - 1 \in Int /\ (i > j - 1 => j - i = 0) /\ (j - 1) - i + 1 = j - i
      OBVIOUS
    <3> QED
      BY <3>1, FS_Interval
  <2>3. Cardinality(D) <= Cardinality(i .. j - 1)
    BY <2>1, <2>2, FS_Subset
  <2> QED
    BY <2>2, <2>3
<1>7. i < j /\ i \notin s => Cardinality(D) < j - i
  <2> SUFFICES ASSUME i < j, i \notin s PROVE Cardinality(D) < j - i
    OBVIOUS
  <2>1. D \in SUBSET (i + 1 .. j - 1)
    <3>1. \A x \in D : x \in Nat /\ x # i /\ i <= x /\ x < j
      BY <1>b
    <3> QED
      BY <3>1
  <2>2. IsFiniteSet(i + 1 .. j - 1) /\ Cardinality(i + 1 .. j - 1) = j - i - 1
    BY FS_Interval
  <2>3. Cardinality(D) <= Cardinality(i + 1 .. j - 1)
    BY <2>1, <2>2, FS_Subset
  <2> QED
    BY <2>2, <2>3, <1>5
<1>8. j = i + 1 /\ i \in s => Cardinality(D) = 1
  <2> SUFFICES ASSUME j = i + 1, i \in s PROVE Cardinality(D) = 1
    OBVIOUS
  <2>1. \A x \in s : i <= x /\ x < j <=> x = i
    BY <1>b
  <2>2. D = {i}
    BY <2>1
  <2> QED
    BY <2>2, FS_Singleton
<1>9. Cardinality(Below(i)) <= i
  <2>1. Below(i) \in SUBSET (0 .. i - 1)
    BY <1>b
  <2>2. IsFiniteSet(0 .. i - 1) /\ Cardinality(0 .. i - 1) = i
    BY FS_Interval
  <2>3. Cardinality(Below(i)) <= Cardinality(0 .. i - 1)
    BY <2>1, <2>2, FS_Subset
  <2> QED
    BY <2>2, <2>3
<1>10. Cardinality(Below(i)) <= Cardinality(s)
  BY <1>a, FS_Subset
<1>11. CountBelow(s, i) = Cardinality(Below(i)) /\ CountBelow(s, j) = Cardinality(Below(j))
  BY DEF CountBelow
<1> HIDE DEF Below, D
<1> QED
  BY <1>3, <1>4, <1>5, <1>6, <1>7, <1>8, <1>9, <1>10, <1>11

\* unshift never goes below zero, and is strictly monotonic outside of the set.
LEMMA UnshiftFacts ==
    ASSUME NEW s \in IndexSet
    PROVE  /\ Cardinality(s) \in Nat
           /\ \A i \in Nat : /\ Unshift(s, i) \in Nat /\ Unshift(s, i) <= i
                             /\ i <= Unshift(s, i) + Cardinality(s)
           /\ \A i, j \in Nat : i <= j => Unshift(s, i) <= Unshift(s, j)
           /\ \A i, j \in Nat : i < j /\ i \notin s => Unshift(s, i) < Unshift(s, j)
           /\ \A i \in Nat : Unshift(s, i + 1) = IF i \in s THEN Unshift(s, i) ELSE Unshift(s, i) + 1
<1>1. \A i \in Nat : /\ Unshift(s, i) \in Nat /\ Unshift(s, i) <= i
                     /\ i <= Unshift(s, i) + Cardinality(s)
  BY CountFacts DEF Unshift
<1>2. ASSUME NEW i \in Nat, NEW j \in Nat, i <= j
      PROVE  /\ Unshift(s, i) <= Unshift(s, j) /\ Unshift(s, j) - Unshift(s, i) <= j - i
             /\ i < j /\ i \notin s => Unshift(s, i) < Unshift(s, j)
             /\ j = i + 1 /\ i \in s => Unshift(s, j) = Unshift(s, i)
  BY SMTT(30), <1>2, CountFacts DEF Unshift
<1>3. ASSUME NEW i \in Nat
      PROVE  Unshift(s, i + 1) = IF i \in s THEN Unshift(s, i) ELSE Unshift(s, i) + 1
  <2> DEFINE j == i + 1
  <2>1. j \in Nat /\ i <= j /\ i < j /\ j - i = 1 /\ j = i + 1
    OBVIOUS
  <2> HIDE DEF j
  <2>2. /\ Unshift(s, i) <= Unshift(s, j) /\ Unshift(s, j) - Unshift(s, i) <= j - i
        /\ i \notin s => Unshift(s, i) < Unshift(s, j)
        /\ i \in s => Unshift(s, j) = Unshift(s, i)
    BY <1>2, <2>1
  <2>3. Unshift(s, i) \in Nat /\ Unshift(s, j) \in Nat
    BY <1>1, <2>1
  <2>4. Unshift(s, j) = IF i \in s THEN Unshift(s, i) ELSE Unshift(s, i) + 1
    BY <2>1, <2>2, <2>3
  <2> QED
    BY <2>1, <2>4
<1>4. Cardinality(s) \in Nat
  BY FS_CardinalityType DEF IndexSet
<1>5. \A i, j \in Nat : i < j /\ i \notin s => Unshift(s, i) < Unshift(s, j)
  BY <1>2
<1> QED
  BY <1>1, <1>2, <1>3, <1>4, <1>5

\* shift, which model and code alike search for, finds an index: one outside of the
\* set that unshift takes back.
LEMMA ShiftFacts ==
    ASSUME NEW s \in IndexSet, NEW i \in Nat
    PROVE  Shift(s, i) \in Nat /\ Shift(s, i) \notin s /\ Unshift(s, Shift(s, i)) = i
<1> DEFINE T == {k \in Nat : Unshift(s, k) > i}
<1>1. i + Cardinality(s) + 1 \in T
  <2>1. i + Cardinality(s) + 1 \in Nat
    BY UnshiftFacts
  <2> QED
    BY <2>1, UnshiftFacts
<1>2. PICK m \in T : \A k \in T : m <= k
  BY <1>1, LeastIndex
<1>3. m \in Nat /\ Unshift(s, m) > i /\ m # 0
  BY UnshiftFacts
<1>4. m - 1 \in Nat /\ Unshift(s, m - 1) <= i
  <2>1. m - 1 \in Nat /\ m - 1 \notin T
    BY <1>2, <1>3
  <2> QED
    BY <2>1, UnshiftFacts
<1>5. m - 1 \notin s /\ Unshift(s, m - 1) = i
  <2>1. m = (m - 1) + 1
    BY <1>3
  <2>2. Unshift(s, m) = IF m - 1 \in s THEN Unshift(s, m - 1) ELSE Unshift(s, m - 1) + 1
    BY SMTT(30), <1>4, <2>1, UnshiftFacts
  <2>3. Unshift(s, m - 1) \in Nat /\ Unshift(s, m) \in Nat
    BY <1>3, <1>4, UnshiftFacts
  <2> QED
    BY <1>3, <1>4, <2>2, <2>3
<1>6. m - 1 \in i .. i + Cardinality(s)
  BY <1>4, <1>5, UnshiftFacts
<1>7. Shift(s, i) \in i .. i + Cardinality(s) /\ Shift(s, i) \notin s /\ Unshift(s, Shift(s, i)) = i
  BY <1>5, <1>6 DEF Shift
<1> QED
  BY <1>7, UnshiftFacts

\* shift takes back what unshift did to an index outside of the set.
LEMMA ShiftUnshift ==
    ASSUME NEW s \in IndexSet, NEW k \in Nat, k \notin s
    PROVE  Shift(s, Unshift(s, k)) = k
<1> DEFINE y == Shift(s, Unshift(s, k))
<1>1. Unshift(s, k) \in Nat
  BY UnshiftFacts
<1>2. y \in Nat /\ y \notin s /\ Unshift(s, y) = Unshift(s, k)
  BY <1>1, ShiftFacts
<1> HIDE DEF y
<1>a. \A i, j \in Nat : i < j /\ i \notin s => Unshift(s, i) < Unshift(s, j)
  BY UnshiftFacts
<1>3. ~(y < k) /\ ~(k < y)
  BY <1>1, <1>2, <1>a
<1>4. y = k
  BY <1>2, <1>3
<1> QED
  BY <1>4 DEF y

\* Where the index k is after the deletions del and the insertions ins, when it is not
\* deleted itself.
Where(del, ins, k) == Shift(ins, Unshift(del, k))

\* Deletions and insertions lead every index that stays to one that is not inserted,
\* and the reverse change leads it back.
LEMMA WhereFacts ==
    ASSUME NEW d \in IndexSet, NEW i \in IndexSet, NEW k \in Nat, k \notin d
    PROVE  /\ Where(d, i, k) \in Nat /\ Where(d, i, k) \notin i
           /\ Unshift(i, Where(d, i, k)) = Unshift(d, k)
           /\ Where(i, d, Where(d, i, k)) = k
<1>1. Unshift(d, k) \in Nat
  BY UnshiftFacts
<1>2. /\ Where(d, i, k) \in Nat /\ Where(d, i, k) \notin i
      /\ Unshift(i, Where(d, i, k)) = Unshift(d, k)
  BY <1>1, ShiftFacts DEF Where
<1>3. Where(i, d, Where(d, i, k)) = k
  <2>1. Where(i, d, Where(d, i, k)) = Shift(d, Unshift(i, Where(d, i, k)))
    BY DEF Where
  <2> QED
    BY <1>2, <2>1, ShiftUnshift
<1> QED
  BY <1>2, <1>3

\* Deletions and insertions keep the order of the indices that stay.
LEMMA WhereOrder ==
    ASSUME NEW d \in IndexSet, NEW i \in IndexSet, NEW k \in Nat, NEW l \in Nat,
           k \notin d, l \notin d, k < l
    PROVE  Where(d, i, k) < Where(d, i, l)
<1> DEFINE x == Where(d, i, k)
           y == Where(d, i, l)
<1>1. /\ x \in Nat /\ Unshift(i, x) = Unshift(d, k)
      /\ y \in Nat /\ Unshift(i, y) = Unshift(d, l)
  BY WhereFacts
<1>2. Unshift(d, k) < Unshift(d, l) /\ Unshift(d, k) \in Nat /\ Unshift(d, l) \in Nat
  BY UnshiftFacts
<1> HIDE DEF x, y
<1>3. ~(y <= x)
  BY <1>1, <1>2, UnshiftFacts
<1>4. x < y
  BY <1>1, <1>3
<1> QED
  BY <1>4 DEF x, y

\* The only map of the indices onto themselves that keeps their order is the identity.
LEMMA OrderIsIdentity ==
    ASSUME NEW h \in [Nat -> Nat],
           \A i, j \in Nat : i < j => h[i] < h[j],
           \A j \in Nat : \E i \in Nat : h[i] = j
    PROVE  \A i \in Nat : h[i] = i
<1> DEFINE T == {n \in Nat : h[n] # n}
<1> SUFFICES ASSUME T # {} PROVE FALSE
  OBVIOUS
<1>1. PICK i \in T : \A k \in T : i <= k
  BY LeastIndex
<1>2. i \in Nat /\ h[i] \in Nat /\ h[i] # i
  OBVIOUS
<1>3. \A k \in Nat : k < i => h[k] = k
  BY <1>1, <1>2
<1>4. CASE h[i] < i
  BY <1>2, <1>3, <1>4
<1>5. CASE h[i] > i
  <2>1. PICK j \in Nat : h[j] = i
    BY <1>2
  <2>2. j < i \/ j = i \/ j > i
    BY <1>2, <2>1
  <2> QED
    BY <1>2, <1>3, <1>5, <2>1, <2>2
<1> QED
  BY <1>2, <1>4, <1>5

\* What stays has only one order to stay in: a map that keeps the order, from the
\* indices outside of d onto those outside of i, is Where.  Every equation between
\* shifts below is a use of this lemma.
LEMMA WhereIsUnique ==
    ASSUME NEW d \in IndexSet, NEW i \in IndexSet, NEW f \in [Nat \ d -> Nat \ i],
           \A k, l \in Nat \ d : k < l => f[k] < f[l],
           \A y \in Nat \ i : \E k \in Nat \ d : f[k] = y
    PROVE  \A k \in Nat \ d : f[k] = Where(d, i, k)
<1> DEFINE h == [n \in Nat |-> Unshift(i, f[Shift(d, n)])]
<1>1. \A n \in Nat : Shift(d, n) \in Nat \ d /\ f[Shift(d, n)] \in Nat \ i
  BY ShiftFacts
<1>2. h \in [Nat -> Nat]
  BY <1>1, UnshiftFacts
<1>3. ASSUME NEW m \in Nat, NEW n \in Nat, m < n PROVE h[m] < h[n]
  <2>1. Shift(d, m) < Shift(d, n)
    <3>1. Shift(d, m) \in Nat /\ Shift(d, n) \in Nat
          /\ Unshift(d, Shift(d, m)) = m /\ Unshift(d, Shift(d, n)) = n
      BY ShiftFacts
    <3>2. ~(Shift(d, n) <= Shift(d, m))
      BY <1>3, <3>1, UnshiftFacts
    <3> QED
      BY <3>1, <3>2
  <2>2. f[Shift(d, m)] < f[Shift(d, n)]
    BY <1>1, <2>1
  <2> QED
    BY <1>1, <2>2, UnshiftFacts
<1>4. ASSUME NEW j \in Nat PROVE \E n \in Nat : h[n] = j
  <2>1. Shift(i, j) \in Nat \ i /\ Unshift(i, Shift(i, j)) = j
    BY ShiftFacts
  <2>2. PICK k \in Nat \ d : f[k] = Shift(i, j)
    BY <2>1
  <2>3. Unshift(d, k) \in Nat /\ Shift(d, Unshift(d, k)) = k
    BY UnshiftFacts, ShiftUnshift
  <2> QED
    BY <2>1, <2>2, <2>3
<1> HIDE DEF h
<1>5. \A n \in Nat : h[n] = n
  BY <1>2, <1>3, <1>4, OrderIsIdentity
<1>6. ASSUME NEW k \in Nat \ d PROVE f[k] = Where(d, i, k)
  <2>1. Unshift(d, k) \in Nat /\ Shift(d, Unshift(d, k)) = k
    BY UnshiftFacts, ShiftUnshift
  <2>2. h[Unshift(d, k)] = Unshift(i, f[k])
    BY <2>1 DEF h
  <2>3. Unshift(i, f[k]) = Unshift(d, k)
    BY <1>5, <2>1, <2>2
  <2>4. f[k] \in Nat /\ f[k] \notin i
    OBVIOUS
  <2>5. Shift(i, Unshift(i, f[k])) = f[k]
    BY <2>4, ShiftUnshift
  <2> QED
    BY <2>3, <2>5 DEF Where
<1> QED
  BY <1>6

-----------------------------------------------------------------------------
\* Two changes, one after the other: the sets

\* Unions and parts of index sets are index sets.
LEMMA IndexSetParts ==
    ASSUME NEW s \in IndexSet, NEW t \in IndexSet
    PROVE  s \cup t \in IndexSet /\ \A u \in SUBSET s : u \in IndexSet
<1>1. IsFiniteSet(s \cup t)
  BY FS_Union DEF IndexSet
<1>2. \A u \in SUBSET s : IsFiniteSet(u)
  BY FS_Subset DEF IndexSet
<1> QED
  BY <1>1, <1>2 DEF IndexSet

\* So are their images.
LEMMA ImageIsIndexSet ==
    ASSUME NEW s \in IndexSet, NEW f \in [s -> Nat]
    PROVE  {f[x] : x \in s} \in IndexSet
<1> DEFINE t == {f[x] : x \in s}
<1>1. f \in Surjection(s, t)
  BY DEF Surjection
<1>2. IsFiniteSet(t)
  <2> HIDE DEF t
  <2> QED
    BY <1>1, FS_Surjection DEF IndexSet
<1>3. t \subseteq Nat
  OBVIOUS
<1> QED
  BY <1>2, <1>3 DEF IndexSet

\* add_shifted_by: an index is deleted by two changes when the first deletes it, or
\* the second deletes where the first leads it.
LEMMA DeletedInBoth ==
    ASSUME NEW d1 \in IndexSet, NEW i1 \in IndexSet, NEW d2 \in IndexSet
    PROVE  /\ AddShiftedBy(d1, i1, d2) \in IndexSet
           /\ \A k \in Nat : k \in AddShiftedBy(d1, i1, d2) <=> k \in d1 \/ Where(d1, i1, k) \in d2
<1> DEFINE f == [x \in d2 \ i1 |-> Where(i1, d1, x)]
           t == {f[x] : x \in d2 \ i1}
<1>1. AddShiftedBy(d1, i1, d2) = d1 \cup t
  BY DEF AddShiftedBy, Where
<1>2. \A x \in d2 \ i1 : x \in Nat
  BY DEF IndexSet
<1>3. f \in [d2 \ i1 -> Nat]
  BY <1>2, WhereFacts
<1>4. t \in IndexSet
  <2>1. d2 \ i1 \in IndexSet
    BY IndexSetParts
  <2> HIDE DEF f
  <2> QED
    BY <1>3, <2>1, ImageIsIndexSet
<1>5. ASSUME NEW k \in Nat, k \notin d1 PROVE k \in t <=> Where(d1, i1, k) \in d2
  <2>1. ASSUME k \in t PROVE Where(d1, i1, k) \in d2
    <3>1. PICK x \in d2 \ i1 : k = Where(i1, d1, x)
      BY <2>1
    <3> QED
      BY <1>2, <3>1, WhereFacts
  <2>2. ASSUME Where(d1, i1, k) \in d2 PROVE k \in t
    <3>1. /\ Where(d1, i1, k) \in d2 \ i1
          /\ k = Where(i1, d1, Where(d1, i1, k))
      BY <1>5, <2>2, WhereFacts
    <3> QED
      BY <3>1
  <2> QED
    BY <2>1, <2>2
<1> HIDE DEF t
<1> QED
  BY <1>1, <1>4, <1>5, IndexSetParts

\* erase_at and then insert_at: an index is inserted by two changes when the second
\* inserts it, or the first inserted where it comes from.
LEMMA InsertedInBoth ==
    ASSUME NEW i1 \in IndexSet, NEW d2 \in IndexSet, NEW i2 \in IndexSet
    PROVE  /\ InsertAll(EraseAll(i1, d2), i2) \in IndexSet
           /\ \A y \in Nat : y \in InsertAll(EraseAll(i1, d2), i2)
                               <=> y \in i2 \/ Where(i2, d2, y) \in i1
<1> DEFINE f == [x \in i1 \ d2 |-> Where(d2, i2, x)]
           t == {f[x] : x \in i1 \ d2}
<1>1. InsertAll(EraseAll(i1, d2), i2) = t \cup i2
  <2>1. ShiftForAll(EraseAll(i1, d2), i2) = {Shift(i2, Unshift(d2, x)) : x \in i1 \ d2}
    BY DEF ShiftForAll, EraseAll
  <2> QED
    BY <2>1 DEF InsertAll, Where
<1>2. \A x \in i1 \ d2 : x \in Nat
  BY DEF IndexSet
<1>3. f \in [i1 \ d2 -> Nat]
  BY <1>2, WhereFacts
<1>4. t \in IndexSet
  <2>1. i1 \ d2 \in IndexSet
    BY IndexSetParts
  <2> HIDE DEF f
  <2> QED
    BY <1>3, <2>1, ImageIsIndexSet
<1>5. ASSUME NEW y \in Nat, y \notin i2 PROVE y \in t <=> Where(i2, d2, y) \in i1
  <2>1. ASSUME y \in t PROVE Where(i2, d2, y) \in i1
    <3>1. PICK x \in i1 \ d2 : y = Where(d2, i2, x)
      BY <2>1
    <3> QED
      BY <1>2, <3>1, WhereFacts
  <2>2. ASSUME Where(i2, d2, y) \in i1 PROVE y \in t
    <3>1. /\ Where(i2, d2, y) \in i1 \ d2
          /\ y = Where(d2, i2, Where(i2, d2, y))
      BY <1>5, <2>2, WhereFacts
    <3> QED
      BY <3>1
  <2> QED
    BY <2>1, <2>2
<1> HIDE DEF t
<1> QED
  BY <1>1, <1>4, <1>5, IndexSetParts

\* The sets that merge makes of two changes lead an index to where one change after
\* the other leads it.
LEMMA WhereInBoth ==
    ASSUME NEW d1 \in IndexSet, NEW i1 \in IndexSet, NEW d2 \in IndexSet, NEW i2 \in IndexSet,
           NEW k \in Nat, k \notin d1, Where(d1, i1, k) \notin d2
    PROVE  Where(AddShiftedBy(d1, i1, d2), InsertAll(EraseAll(i1, d2), i2), k)
             = Where(d2, i2, Where(d1, i1, k))
<1> DEFINE d == AddShiftedBy(d1, i1, d2)
           i == InsertAll(EraseAll(i1, d2), i2)
           f == [n \in Nat \ d |-> Where(d2, i2, Where(d1, i1, n))]
<1>1. d \in IndexSet /\ \A n \in Nat : n \in d <=> n \in d1 \/ Where(d1, i1, n) \in d2
  BY DeletedInBoth
<1>2. i \in IndexSet /\ \A y \in Nat : y \in i <=> y \in i2 \/ Where(i2, d2, y) \in i1
  BY InsertedInBoth
<1> HIDE DEF d, i
<1>3. \A n \in Nat \ d : n \notin d1 /\ Where(d1, i1, n) \in Nat \ i1 /\ Where(d1, i1, n) \notin d2
  BY <1>1, WhereFacts
<1>4. ASSUME NEW n \in Nat \ d PROVE f[n] \in Nat \ i
  <2> DEFINE x == Where(d1, i1, n)
  <2>1. x \in Nat /\ x \notin i1 /\ x \notin d2
    BY <1>3
  <2> HIDE DEF x
  <2>2. Where(d2, i2, x) \in Nat /\ Where(d2, i2, x) \notin i2 /\ Where(i2, d2, Where(d2, i2, x)) = x
    BY <2>1, WhereFacts
  <2>3. Where(d2, i2, x) \in Nat \ i
    BY <1>2, <2>1, <2>2
  <2> QED
    BY <2>3 DEF x
<1>5. f \in [Nat \ d -> Nat \ i]
  BY <1>4
<1>6. ASSUME NEW m \in Nat \ d, NEW n \in Nat \ d, m < n PROVE f[m] < f[n]
  <2>1. Where(d1, i1, m) < Where(d1, i1, n)
    BY <1>3, <1>6, WhereOrder
  <2> QED
    BY <1>3, <2>1, WhereOrder
<1>7. ASSUME NEW y \in Nat \ i PROVE \E n \in Nat \ d : f[n] = y
  <2> DEFINE x == Where(i2, d2, y)
  <2>1. y \notin i2 /\ x \notin i1
    BY <1>2
  <2>2. x \in Nat /\ x \notin d2 /\ Where(d2, i2, x) = y
    BY <2>1, WhereFacts
  <2> HIDE DEF x
  <2>3. /\ Where(i1, d1, x) \in Nat /\ Where(i1, d1, x) \notin d1
        /\ Where(d1, i1, Where(i1, d1, x)) = x
    BY <2>1, <2>2, WhereFacts
  <2>4. Where(i1, d1, x) \in Nat \ d
    BY <1>1, <2>2, <2>3
  <2> QED
    BY <2>2, <2>3, <2>4
<1>8. k \in Nat \ d
  BY <1>1
<1> HIDE DEF f
<1>9. \A n \in Nat \ d : f[n] = Where(d, i, n)
  <2>1. d \in IndexSet /\ i \in IndexSet
    BY <1>1, <1>2
  <2>2. \A m, n \in Nat \ d : m < n => f[m] < f[n]
    BY <1>6
  <2>3. \A y \in Nat \ i : \E n \in Nat \ d : f[n] = y
    BY <1>7
  <2> QED
    BY <1>5, <2>1, <2>2, <2>3, WhereIsUnique
<1> QED
  BY <1>8, <1>9 DEF f, d, i

\* A void move, which leads a row to where deletions and insertions would take it
\* anyway, may be dropped with its deletion and its insertion.
LEMMA WhereOfVoidMove ==
    ASSUME NEW d \in IndexSet, NEW i \in IndexSet, NEW from \in d, NEW to \in i,
           Unshift(d, from) = Unshift(i, to)
    PROVE  /\ \A k \in Nat \ d : Where(d \ {from}, i \ {to}, k) = Where(d, i, k)
           /\ Where(d \ {from}, i \ {to}, from) = to
<1> DEFINE e == d \ {from}
           j == i \ {to}
           f == [k \in Nat \ e |-> IF k = from THEN to ELSE Where(d, i, k)]
<1>1. e \in IndexSet /\ j \in IndexSet
  BY IndexSetParts
<1>2. from \in Nat /\ to \in Nat
  BY DEF IndexSet
<1>3. \A k \in Nat \ e : k # from => k \in Nat \ d
  OBVIOUS
<1>4. \A k \in Nat \ d : Where(d, i, k) \in Nat \ i /\ Where(d, i, k) # to
                         /\ Unshift(i, Where(d, i, k)) = Unshift(d, k)
  BY WhereFacts
<1>5. f \in [Nat \ e -> Nat \ j]
  <2>1. \A k \in Nat \ e : f[k] \in Nat \ j
    BY <1>2, <1>3, <1>4
  <2> QED
    BY <2>1
<1>6. ASSUME NEW k \in Nat \ d
      PROVE  (k < from => Where(d, i, k) < to) /\ (from < k => to < Where(d, i, k))
  <2> DEFINE y == Where(d, i, k)
  <2>1. y \in Nat /\ y \notin i /\ y # to /\ Unshift(i, y) = Unshift(d, k)
    BY <1>4
  <2>2. k \notin d /\ k \in Nat
    OBVIOUS
  <2> HIDE DEF y
  <2>3. k < from => Unshift(i, y) < Unshift(i, to)
    BY <1>2, <2>1, <2>2, UnshiftFacts
  <2>4. from < k => ~(Unshift(i, y) < Unshift(i, to))
    <3> SUFFICES ASSUME from < k PROVE ~(Unshift(i, y) < Unshift(i, to))
      OBVIOUS
    <3>1. Unshift(d, from) <= Unshift(d, k) /\ Unshift(d, from) \in Nat /\ Unshift(d, k) \in Nat
      BY <1>2, <2>2, UnshiftFacts
    <3> QED
      BY <2>1, <3>1
  <2>5. to < y => ~(Unshift(i, y) < Unshift(i, to))
    <3> SUFFICES ASSUME to < y PROVE ~(Unshift(i, y) < Unshift(i, to))
      OBVIOUS
    <3>1. Unshift(i, to) <= Unshift(i, y) /\ Unshift(i, to) \in Nat /\ Unshift(i, y) \in Nat
      BY <1>2, <2>1, UnshiftFacts
    <3> QED
      BY <3>1
  <2>6. y < to => Unshift(i, y) < Unshift(i, to)
    BY <1>2, <2>1, UnshiftFacts
  <2>7. y < to \/ to < y
    BY <1>2, <2>1
  <2>8. (k < from => y < to) /\ (from < k => to < y)
    BY <2>3, <2>4, <2>5, <2>6, <2>7
  <2> QED
    BY <2>8 DEF y
<1>7. ASSUME NEW k \in Nat \ e, NEW l \in Nat \ e, k < l PROVE f[k] < f[l]
  <2>1. CASE k = from
    <3>1. l # from /\ l \in Nat \ d
      BY <1>2, <1>7, <2>1
    <3> QED
      BY <1>6, <1>7, <2>1, <3>1
  <2>2. CASE l = from
    <3>1. k # from /\ k \in Nat \ d
      BY <1>2, <1>7, <2>2
    <3> QED
      BY <1>6, <1>7, <2>2, <3>1
  <2>3. CASE k # from /\ l # from
    <3>1. k \in Nat \ d /\ l \in Nat \ d
      BY <2>3
    <3>2. Where(d, i, k) < Where(d, i, l)
      BY <1>7, <3>1, WhereOrder
    <3> QED
      BY <2>3, <3>2
  <2> QED
    BY <2>1, <2>2, <2>3
<1>8. ASSUME NEW y \in Nat \ j PROVE \E k \in Nat \ e : f[k] = y
  <2>1. CASE y = to
    BY <1>2, <2>1
  <2>2. CASE y # to
    <3>1. y \in Nat \ i
      BY <2>2
    <3>2. /\ Where(i, d, y) \in Nat /\ Where(i, d, y) \notin d
          /\ Where(d, i, Where(i, d, y)) = y
      BY <3>1, WhereFacts
    <3>3. Where(i, d, y) \in Nat \ e /\ Where(i, d, y) # from
      BY <3>2
    <3> QED
      BY <3>2, <3>3
  <2> QED
    BY <2>1, <2>2
<1>9. \A k \in Nat \ e : f[k] = Where(e, j, k)
  <2> HIDE DEF f, e, j
  <2> QED
    BY <1>1, <1>5, <1>7, <1>8, WhereIsUnique
<1>10. from \in Nat \ e /\ \A k \in Nat \ d : k \in Nat \ e /\ k # from
  BY <1>2
<1> QED
  BY <1>9, <1>10

-----------------------------------------------------------------------------
\* Loops

\* Induction on the steps of a loop, from the least one that would fail.
LEMMA UpTo ==
    ASSUME NEW N \in Nat, NEW P, 0 \in P, \A n \in 1 .. N : n - 1 \in P => n \in P
    PROVE  N \in P
<1> DEFINE T == {n \in 0 .. N : n \notin P}
<1> SUFFICES ASSUME N \notin P PROVE FALSE
  OBVIOUS
<1>1. N \in T /\ T \subseteq Nat
  OBVIOUS
<1>2. PICK n \in T : \A k \in T : n <= k
  <2> HIDE DEF T
  <2> QED
    BY <1>1, LeastIndex
<1>3. n \in 1 .. N /\ n - 1 \in 0 .. N
  OBVIOUS
<1>4. n - 1 \notin T
  BY <1>2, <1>3
<1> QED
  BY <1>3, <1>4

\* f is the run of a loop of N rounds, from s0.
RunOf(f, N, S, s0, G) ==
    f \in [0 .. N -> S] /\ f[0] = s0 /\ \A n \in 1 .. N : f[n] = G[<<f[n - 1], n>>]

\* Every loop has a run: the recursive functions of the builder are what their
\* equations say.
LEMMA Recursion ==
    ASSUME NEW N \in Nat, NEW S, NEW s0 \in S, NEW G \in [S \X (1 .. N) -> S]
    PROVE  \E f : RunOf(f, N, S, s0, G)
<1> DEFINE Good(f, n) == f[0] = s0 /\ \A m \in 1 .. n : f[m] = G[<<f[m - 1], m>>]
           Has(n) == \E f \in [0 .. n -> S] : Good(f, n)
           P == {n \in 0 .. N : Has(n)}
<1>1. Has(0)
  <2>1. [m \in 0 .. 0 |-> s0] \in [0 .. 0 -> S] /\ Good([m \in 0 .. 0 |-> s0], 0)
    OBVIOUS
  <2> QED
    BY <2>1
<1>2. ASSUME NEW n \in 1 .. N, Has(n - 1) PROVE Has(n)
  <2>1. PICK f \in [0 .. n - 1 -> S] : Good(f, n - 1)
    BY <1>2
  <2> DEFINE g == [m \in 0 .. n |-> IF m = n THEN G[<<f[n - 1], n>>] ELSE f[m]]
  <2>2. n - 1 \in 0 .. n - 1 /\ 0 \in 0 .. n - 1 /\ \A m \in 0 .. n : m # n => m \in 0 .. n - 1
    OBVIOUS
  <2>3. G[<<f[n - 1], n>>] \in S
    BY <2>2
  <2>4. g \in [0 .. n -> S]
    BY <2>2, <2>3
  <2>5. g[0] = s0
    <3>1. 0 \in 0 .. n /\ 0 # n
      OBVIOUS
    <3> QED
      BY <2>1, <3>1
  <2>6. ASSUME NEW m \in 1 .. n PROVE g[m] = G[<<g[m - 1], m>>]
    <3>1. m - 1 \in 0 .. n - 1 /\ m - 1 # n /\ m - 1 \in 0 .. n /\ m \in 0 .. n
      OBVIOUS
    <3>2. g[m - 1] = f[m - 1]
      BY <3>1
    <3>3. CASE m = n
      BY <3>1, <3>2, <3>3
    <3>4. CASE m # n
      <4>1. m \in 1 .. n - 1
        BY <3>4
      <4>2. f[m] = G[<<f[m - 1], m>>]
        BY <2>1, <4>1
      <4> QED
        BY <3>1, <3>2, <3>4, <4>2
    <3> QED
      BY <3>3, <3>4
  <2> HIDE DEF g
  <2>7. Good(g, n)
    BY <2>5, <2>6
  <2> QED
    BY <2>4, <2>7
<1>3. N \in P
  <2> HIDE DEF Has
  <2>1. 0 \in P /\ \A n \in 1 .. N : n - 1 \in P => n \in P
    BY <1>1, <1>2
  <2> HIDE DEF P
  <2> QED
    BY <2>1, UpTo
<1> QED
  BY <1>3 DEF RunOf

-----------------------------------------------------------------------------
\* Change sets

\* A change set, as the builder keeps it.
Move == [from : Nat, to : Nat]
ChangeSet == [del : IndexSet, ins : IndexSet, mod : IndexSet, moves : Seq(Move),
              mapping : UNION {[s -> Nat] : s \in IndexSet}]
\* Every move is a deletion and an insertion too, and no two moves share one of them.
MovesMatch(c) ==
    \A k \in 1 .. Len(c.moves) :
        /\ c.moves[k].from \in c.del /\ c.moves[k].to \in c.ins
        /\ \A l \in 1 .. Len(c.moves) :
               l # k => c.moves[l].from # c.moves[k].from /\ c.moves[l].to # c.moves[k].to
\* What the operations of the builder are given, and what they must return.
IsChange(c) == c \in ChangeSet /\ MovesMatch(c)

\* Where a change leads the indices of the old collection: those that stay are
\* shifted, those that move are moved.
Stays(c) == {<<k, Where(c.del, c.ins, k)>> : k \in Nat \ c.del}
Moves(moves) == {<<moves[k].from, moves[k].to>> : k \in 1 .. Len(moves)}
Tracks(c) == Stays(c) \cup Moves(c.moves)

-----------------------------------------------------------------------------
\* clean_up_stale_moves

\* clean_up_stale_moves, one move: whether it is kept or dropped, the change leads
\* every index to where it led it with the move.
LEMMA SiftKeeps ==
    ASSUME NEW d \in ChangeSet, MovesMatch(d), NEW move \in Move,
           move.from \in d.del, move.to \in d.ins,
           \A k \in 1 .. Len(d.moves) :
               d.moves[k].from # move.from /\ d.moves[k].to # move.to
    PROVE  LET e == Sift(d, move)
           IN  /\ e \in ChangeSet /\ MovesMatch(e) /\ e.mod = d.mod /\ e.mapping = d.mapping
               /\ d.del \ {move.from} \subseteq e.del /\ e.del \subseteq d.del
               /\ d.ins \ {move.to} \subseteq e.ins /\ e.ins \subseteq d.ins
               /\ e.moves = d.moves \/ e.moves = Append(d.moves, move)
               /\ Tracks(e) = Tracks(d) \cup {<<move.from, move.to>>}
<1> DEFINE e == Sift(d, move)
<1>1. /\ d.del \in IndexSet /\ d.ins \in IndexSet /\ d.mod \in IndexSet /\ d.moves \in Seq(Move)
      /\ d = [del |-> d.del, ins |-> d.ins, mod |-> d.mod, moves |-> d.moves, mapping |-> d.mapping]
  BY DEF ChangeSet
<1>2. CASE Unshift(d.del, move.from) = Unshift(d.ins, move.to)
  <2>1. e = [d EXCEPT !.del = @ \ {move.from}, !.ins = @ \ {move.to}]
    BY <1>2 DEF Sift
  <2>2. /\ e.del = d.del \ {move.from} /\ e.ins = d.ins \ {move.to} /\ e.mod = d.mod
        /\ e.moves = d.moves /\ e.mapping = d.mapping
    BY <1>1, <2>1
  <2>3. e \in ChangeSet
    BY <1>1, <2>1, <2>2, IndexSetParts DEF ChangeSet
  <2>4. MovesMatch(e)
    BY <2>2 DEF MovesMatch
  <2>5. Stays(e) = Stays(d) \cup {<<move.from, move.to>>}
    <3>a. /\ \A k \in Nat \ d.del :
                 Where(d.del \ {move.from}, d.ins \ {move.to}, k) = Where(d.del, d.ins, k)
          /\ Where(d.del \ {move.from}, d.ins \ {move.to}, move.from) = move.to
      <4> DEFINE D == d.del
                 I == d.ins
                 x == move.from
                 y == move.to
      <4>1. D \in IndexSet /\ I \in IndexSet /\ x \in D /\ y \in I /\ Unshift(D, x) = Unshift(I, y)
        BY <1>1, <1>2
      <4> HIDE DEF D, I, x, y
      <4>2. /\ \A k \in Nat \ D : Where(D \ {x}, I \ {y}, k) = Where(D, I, k)
            /\ Where(D \ {x}, I \ {y}, x) = y
        BY <4>1, WhereOfVoidMove
      <4> QED
        BY <4>2 DEF D, I, x, y
    <3>1. /\ \A k \in Nat \ d.del : Where(e.del, e.ins, k) = Where(d.del, d.ins, k)
          /\ Where(e.del, e.ins, move.from) = move.to
      BY <2>2, <3>a
    <3>2. Nat \ e.del = (Nat \ d.del) \cup {move.from}
      BY <2>2 DEF Move
    <3> QED
      BY <3>1, <3>2 DEF Stays
  <2> HIDE DEF e
  <2>6. Tracks(e) = Tracks(d) \cup {<<move.from, move.to>>}
    BY <2>2, <2>5 DEF Tracks
  <2> QED
    BY <2>2, <2>3, <2>4, <2>6 DEF e
<1>3. CASE Unshift(d.del, move.from) # Unshift(d.ins, move.to)
  <2>1. e = [d EXCEPT !.moves = Append(@, move)]
    BY <1>3 DEF Sift
  <2>2. /\ e.del = d.del /\ e.ins = d.ins /\ e.mod = d.mod
        /\ e.moves = Append(d.moves, move) /\ e.mapping = d.mapping
    BY <1>1, <2>1
  <2>3. /\ e.moves \in Seq(Move) /\ Len(e.moves) = Len(d.moves) + 1
        /\ \A k \in 1 .. Len(e.moves) :
               e.moves[k] = IF k = Len(d.moves) + 1 THEN move ELSE d.moves[k]
        /\ Len(d.moves) \in Nat
    BY <1>1, <2>2
  <2>4. e \in ChangeSet
    BY <1>1, <2>1, <2>3 DEF ChangeSet
  <2> HIDE DEF e
  <2>5. MovesMatch(e)
    <3>1. \A k \in 1 .. Len(e.moves) : k # Len(d.moves) + 1 => k \in 1 .. Len(d.moves)
      BY <2>3
    <3> QED
      BY <2>2, <2>3, <3>1 DEF MovesMatch
  <2>6. Stays(e) = Stays(d)
    BY <2>2 DEF Stays
  <2>7. Moves(e.moves) = Moves(d.moves) \cup {<<move.from, move.to>>}
    <3>1. \A k \in 1 .. Len(e.moves) : k # Len(d.moves) + 1 => k \in 1 .. Len(d.moves)
      BY <2>3
    <3>2. Len(d.moves) + 1 \in 1 .. Len(e.moves)
          /\ \A k \in 1 .. Len(d.moves) : k \in 1 .. Len(e.moves) /\ k # Len(d.moves) + 1
      BY <2>3
    <3> QED
      BY SMTT(30), <2>3, <3>1, <3>2 DEF Moves
  <2>8. Tracks(e) = Tracks(d) \cup {<<move.from, move.to>>}
    BY <2>6, <2>7 DEF Tracks
  <2> QED
    BY <2>2, <2>4, <2>5, <2>8 DEF e
<1> QED
  BY <1>2, <1>3

\* It stays a change set, whatever the move.
LEMMA SiftType ==
    ASSUME NEW d \in ChangeSet, NEW move \in Move
    PROVE  Sift(d, move) \in ChangeSet
<1>1. d.del \in IndexSet /\ d.ins \in IndexSet /\ d.moves \in Seq(Move)
  BY DEF ChangeSet
<1>2. /\ d.del \ {move.from} \in IndexSet /\ d.ins \ {move.to} \in IndexSet
      /\ Append(d.moves, move) \in Seq(Move)
  BY <1>1, IndexSetParts
<1>3. [d EXCEPT !.del = @ \ {move.from}, !.ins = @ \ {move.to}] \in ChangeSet
  BY <1>2 DEF ChangeSet
<1>4. [d EXCEPT !.moves = Append(@, move)] \in ChangeSet
  BY <1>2 DEF ChangeSet
<1> QED
  BY <1>3, <1>4 DEF Sift

\* clean_up_stale_moves is a loop over the moves.
LEMMA CleanUpSteps ==
    ASSUME NEW c \in ChangeSet
    PROVE  \E f :
               /\ f[0] = [c EXCEPT !.moves = <<>>]
               /\ \A n \in 1 .. Len(c.moves) : f[n] = Sift(f[n - 1], c.moves[n])
               /\ CleanUp(c) = f[Len(c.moves)]
<1> DEFINE N == Len(c.moves)
           s0 == [c EXCEPT !.moves = <<>>]
           G == [p \in ChangeSet \X (1 .. N) |-> Sift(p[1], c.moves[p[2]])]
           Runs(g) == g = [n \in 0 .. N |-> IF n = 0 THEN s0 ELSE Sift(g[n - 1], c.moves[n])]
           R == CHOOSE g : Runs(g)
<1>1. c.moves \in Seq(Move) /\ N \in Nat /\ \A n \in 1 .. N : c.moves[n] \in Move
  BY DEF ChangeSet
<1>2. s0 \in ChangeSet
  <2>1. <<>> \in Seq(Move)
    OBVIOUS
  <2> QED
    BY <2>1 DEF ChangeSet
<1>3. G \in [ChangeSet \X (1 .. N) -> ChangeSet]
  BY <1>1, SiftType
<1>4. CleanUp(c) = R[N]
  BY DEF CleanUp
<1>a. PICK f : RunOf(f, N, ChangeSet, s0, G)
  <2>1. N \in Nat
    BY <1>1
  <2> HIDE DEF N, s0, G
  <2> QED
    BY <2>1, <1>2, <1>3, Recursion
<1>5. f \in [0 .. N -> ChangeSet] /\ f[0] = s0 /\ \A n \in 1 .. N : f[n] = G[<<f[n - 1], n>>]
  BY <1>a DEF RunOf
<1>6. \A n \in 1 .. N : f[n - 1] \in ChangeSet /\ f[n] = Sift(f[n - 1], c.moves[n])
  <2> SUFFICES ASSUME NEW n \in 1 .. N
               PROVE  f[n - 1] \in ChangeSet /\ f[n] = Sift(f[n - 1], c.moves[n])
    OBVIOUS
  <2>1. n - 1 \in 0 .. N
    BY <1>1
  <2>2. f[n - 1] \in ChangeSet /\ <<f[n - 1], n>> \in ChangeSet \X (1 .. N)
    BY <1>5, <2>1
  <2> QED
    BY <1>5, <2>2
<1> HIDE DEF G, s0
<1>7. Runs(f)
  <2>1. f = [n \in 0 .. N |-> f[n]]
    BY <1>5
  <2>2. ASSUME NEW n \in 0 .. N
        PROVE  f[n] = IF n = 0 THEN s0 ELSE Sift(f[n - 1], c.moves[n])
    <3>1. n = 0 \/ n \in 1 .. N
      BY <1>1
    <3>2. \A m \in 1 .. N : m # 0
      OBVIOUS
    <3> QED
      BY <1>5, <1>6, <3>1, <3>2
  <2> HIDE DEF N
  <2> QED
    BY <2>1, <2>2
<1>8. Runs(R)
  <2> HIDE DEF Runs
  <2> QED
    BY <1>7
<1>9. R[0] = s0 /\ \A n \in 1 .. N : R[n] = Sift(R[n - 1], c.moves[n])
  <2> HIDE DEF R
  <2>1. R[0] = s0
    BY <1>1, <1>8
  <2>2. ASSUME NEW n \in 1 .. N PROVE R[n] = Sift(R[n - 1], c.moves[n])
    BY <1>1, <1>8
  <2> QED
    BY <2>1, <2>2
<1> HIDE DEF R
<1> QED
  BY <1>4, <1>9 DEF s0

\* clean_up_stale_moves only drops what is void: the change leads every index to where
\* it led it before, and its modifications stay.
THEOREM CleanUpKeepsTracks ==
    ASSUME NEW c, IsChange(c)
    PROVE  /\ IsChange(CleanUp(c)) /\ Tracks(CleanUp(c)) = Tracks(c)
           /\ CleanUp(c).mod = c.mod /\ CleanUp(c).mapping = c.mapping
           /\ CleanUp(c).del \subseteq c.del /\ CleanUp(c).ins \subseteq c.ins
<1> DEFINE N == Len(c.moves)
           Later(n) == {<<c.moves[j].from, c.moves[j].to>> : j \in n + 1 .. N}
           Before(d) == /\ d \in ChangeSet /\ MovesMatch(d) /\ d.mod = c.mod /\ d.mapping = c.mapping
                        /\ d.del \subseteq c.del /\ d.ins \subseteq c.ins
           Ahead(d, n) == \A j \in n + 1 .. N : c.moves[j].from \in d.del /\ c.moves[j].to \in d.ins
           Past(d, n) == \A k \in 1 .. Len(d.moves) : \E j \in 1 .. n : d.moves[k] = c.moves[j]
           Whole(d, n) == Tracks(d) \cup Later(n) = Tracks(c)
<1>1. /\ c \in ChangeSet /\ N \in Nat /\ c.moves \in Seq(Move)
      /\ \A j \in 1 .. N : /\ c.moves[j] \in Move
                           /\ c.moves[j].from \in c.del /\ c.moves[j].to \in c.ins
      /\ \A j, k \in 1 .. N : j # k => /\ c.moves[j].from # c.moves[k].from
                                       /\ c.moves[j].to # c.moves[k].to
  <2>1. c \in ChangeSet /\ c.moves \in Seq(Move)
    BY DEF IsChange, ChangeSet
  <2>2. N \in Nat /\ \A j \in 1 .. N : c.moves[j] \in Move
    BY <2>1
  <2> QED
    BY <2>1, <2>2 DEF IsChange, MovesMatch
<1>2. PICK f : /\ f[0] = [c EXCEPT !.moves = <<>>]
               /\ \A n \in 1 .. N : f[n] = Sift(f[n - 1], c.moves[n])
               /\ CleanUp(c) = f[N]
  BY <1>1, CleanUpSteps
<1> DEFINE P == {n \in 0 .. N : Before(f[n]) /\ Ahead(f[n], n) /\ Past(f[n], n) /\ Whole(f[n], n)}
<1>3. 0 \in P
  <2> DEFINE d == f[0]
  <2>1. /\ d.del = c.del /\ d.ins = c.ins /\ d.mod = c.mod /\ d.moves = <<>>
        /\ d.mapping = c.mapping /\ d \in ChangeSet
    <3>1. <<>> \in Seq(Move)
      OBVIOUS
    <3> QED
      BY <1>1, <1>2, <3>1 DEF ChangeSet
  <2> HIDE DEF d
  <2>2. Len(d.moves) = 0 /\ Moves(d.moves) = {}
    BY <2>1 DEF Moves
  <2>3. Before(d)
    BY <2>1, <2>2 DEF MovesMatch
  <2>4. Ahead(d, 0)
    BY <1>1, <2>1
  <2>5. Past(d, 0)
    BY <2>2
  <2>6. Stays(d) = Stays(c)
    BY <2>1 DEF Stays
  <2>7. Later(0) = Moves(c.moves)
    BY <1>1 DEF Moves
  <2>8. Whole(d, 0)
    BY <2>2, <2>6, <2>7 DEF Tracks
  <2> HIDE DEF Before, Ahead, Past, Whole
  <2> QED
    BY <1>1, <2>3, <2>4, <2>5, <2>8 DEF d
<1>4. ASSUME NEW n \in 1 .. N, n - 1 \in P PROVE n \in P
  <2> DEFINE d == f[n - 1]
             m == c.moves[n]
             e == f[n]
  <2>1. Before(d) /\ Ahead(d, n - 1) /\ Past(d, n - 1) /\ Whole(d, n - 1)
    BY <1>4
  <2>2. e = Sift(d, m) /\ m \in Move
    BY <1>1, <1>2
  <2> HIDE DEF d, e, P
  <2>3. m.from \in d.del /\ m.to \in d.ins
    <3>1. n \in (n - 1) + 1 .. N
      BY <1>1
    <3> QED
      BY <2>1, <3>1
  <2>4. ASSUME NEW k \in 1 .. Len(d.moves)
        PROVE  d.moves[k].from # m.from /\ d.moves[k].to # m.to
    <3>1. PICK j \in 1 .. n - 1 : d.moves[k] = c.moves[j]
      BY <2>1
    <3>2. j \in 1 .. N /\ j # n
      BY <1>1
    <3> QED
      BY <1>1, <3>1, <3>2
  <2> HIDE DEF m
  <2>5. /\ e \in ChangeSet /\ MovesMatch(e) /\ e.mod = d.mod /\ e.mapping = d.mapping
        /\ d.del \ {m.from} \subseteq e.del /\ e.del \subseteq d.del
        /\ d.ins \ {m.to} \subseteq e.ins /\ e.ins \subseteq d.ins
        /\ e.moves = d.moves \/ e.moves = Append(d.moves, m)
        /\ Tracks(e) = Tracks(d) \cup {<<m.from, m.to>>}
    BY <2>1, <2>2, <2>3, <2>4, SiftKeeps
  <2>6. Before(e)
    BY <2>1, <2>5
  <2>7. Ahead(e, n)
    <3> SUFFICES ASSUME NEW j \in n + 1 .. N
                 PROVE  c.moves[j].from \in e.del /\ c.moves[j].to \in e.ins
      OBVIOUS
    <3>1. j \in (n - 1) + 1 .. N /\ j \in 1 .. N /\ j # n
      BY <1>1
    <3>2. c.moves[j].from \in d.del /\ c.moves[j].to \in d.ins
      BY <2>1, <3>1
    <3>3. c.moves[j].from # m.from /\ c.moves[j].to # m.to
      BY <1>1, <3>1 DEF m
    <3> QED
      BY <2>5, <3>2, <3>3
  <2>8. Past(e, n)
    <3> SUFFICES ASSUME NEW k \in 1 .. Len(e.moves) PROVE \E j \in 1 .. n : e.moves[k] = c.moves[j]
      OBVIOUS
    <3>1. d.moves \in Seq(Move) /\ Len(d.moves) \in Nat
      BY <2>1 DEF ChangeSet
    <3>2. \A j \in 1 .. n - 1 : j \in 1 .. n
      BY <1>1
    <3>3. CASE k \in 1 .. Len(d.moves)
      <4>1. e.moves[k] = d.moves[k]
        BY <2>2, <2>5, <3>1, <3>3
      <4> QED
        BY <2>1, <3>2, <3>3, <4>1
    <3>4. CASE k \notin 1 .. Len(d.moves)
      <4>1. e.moves = Append(d.moves, m) /\ k = Len(d.moves) + 1
        BY <2>2, <2>5, <3>1, <3>4
      <4>2. e.moves[k] = m /\ n \in 1 .. n
        BY <2>2, <3>1, <4>1
      <4> QED
        BY <4>2 DEF m
    <3> QED
      BY <3>3, <3>4
  <2>9. Whole(e, n)
    <3>1. Later(n - 1) = Later(n) \cup {<<m.from, m.to>>}
      <4>1. \A j : j \in (n - 1) + 1 .. N <=> j = n \/ j \in n + 1 .. N
        BY <1>1
      <4> QED
        BY <4>1 DEF m
    <3> HIDE DEF Later
    <3> QED
      BY <2>1, <2>5, <3>1
  <2> HIDE DEF Before, Ahead, Past, Whole
  <2>10. Before(f[n]) /\ Ahead(f[n], n) /\ Past(f[n], n) /\ Whole(f[n], n)
    BY <2>6, <2>7, <2>8, <2>9 DEF e
  <2> QED
    BY <1>1, <2>10 DEF P
<1>5. N \in P
  <2> HIDE DEF P
  <2> QED
    BY <1>1, <1>3, <1>4, UpTo
<1>6. Before(f[N]) /\ Whole(f[N], N)
  BY <1>5
<1>7. Later(N) = {}
  BY <1>1
<1> QED
  BY <1>2, <1>6, <1>7 DEF IsChange

-----------------------------------------------------------------------------
\* merge: the moves

\* Dropping the moves with an end in s, one after the other.
ExcludeOne(kept, move, end, s) == IF move[end] \in s THEN kept ELSE Append(kept, move)

\* f are the moves that are left after each of them.
ExcludingRun(f, moves, end, s) ==
    /\ f[0] = <<>>
    /\ \A n \in 1 .. Len(moves) : f[n] = ExcludeOne(f[n - 1], moves[n], end, s)
    /\ Excluding(moves, end, s) = f[Len(moves)]

\* It is a loop over the moves.
LEMMA ExcludingSteps ==
    ASSUME NEW moves \in Seq(Move), NEW end, NEW s
    PROVE  \E f : ExcludingRun(f, moves, end, s)
<1> DEFINE N == Len(moves)
           G == [p \in Seq(Move) \X (1 .. N) |-> ExcludeOne(p[1], moves[p[2]], end, s)]
           Runs(g) == g = [n \in 0 .. N |-> IF n = 0 THEN <<>>
                                            ELSE IF moves[n][end] \in s THEN g[n - 1]
                                                 ELSE Append(g[n - 1], moves[n])]
           R == CHOOSE g : Runs(g)
<1>1. N \in Nat /\ \A n \in 1 .. N : moves[n] \in Move
  OBVIOUS
<1>2. <<>> \in Seq(Move)
  OBVIOUS
<1>3. G \in [Seq(Move) \X (1 .. N) -> Seq(Move)]
  BY <1>1 DEF ExcludeOne
<1>4. Excluding(moves, end, s) = R[N]
  BY DEF Excluding
<1>5. PICK f : RunOf(f, N, Seq(Move), <<>>, G)
  <2>1. N \in Nat
    BY <1>1
  <2> HIDE DEF N, G
  <2> QED
    BY <2>1, <1>2, <1>3, Recursion
<1>6. f \in [0 .. N -> Seq(Move)] /\ f[0] = <<>> /\ \A n \in 1 .. N : f[n] = G[<<f[n - 1], n>>]
  BY <1>5 DEF RunOf
<1>7. ASSUME NEW n \in 1 .. N
      PROVE  f[n] = IF moves[n][end] \in s THEN f[n - 1] ELSE Append(f[n - 1], moves[n])
  <2>1. n - 1 \in 0 .. N
    BY <1>1
  <2>2. <<f[n - 1], n>> \in Seq(Move) \X (1 .. N)
    BY <1>6, <2>1
  <2> QED
    BY <1>6, <2>2 DEF ExcludeOne
<1> HIDE DEF G
<1>8. Runs(f)
  <2>1. f = [n \in 0 .. N |-> f[n]]
    BY <1>6
  <2>2. ASSUME NEW n \in 0 .. N
        PROVE  f[n] = IF n = 0 THEN <<>>
                      ELSE IF moves[n][end] \in s THEN f[n - 1] ELSE Append(f[n - 1], moves[n])
    <3>1. n = 0 \/ n \in 1 .. N
      BY <1>1
    <3>2. \A m \in 1 .. N : m # 0
      OBVIOUS
    <3> QED
      BY <1>6, <1>7, <3>1, <3>2
  <2> HIDE DEF N
  <2> QED
    BY <2>1, <2>2
<1>9. Runs(R)
  <2> HIDE DEF Runs
  <2> QED
    BY <1>8
<1>10. R[0] = <<>> /\ \A n \in 1 .. N : R[n] = ExcludeOne(R[n - 1], moves[n], end, s)
  <2> HIDE DEF R
  <2>1. R[0] = <<>>
    BY <1>1, <1>9
  <2>2. ASSUME NEW n \in 1 .. N PROVE R[n] = ExcludeOne(R[n - 1], moves[n], end, s)
    <3>1. n \in 0 .. N /\ n # 0
      BY <1>1
    <3> HIDE DEF N
    <3>2. R[n] = IF n = 0 THEN <<>>
                 ELSE IF moves[n][end] \in s THEN R[n - 1] ELSE Append(R[n - 1], moves[n])
      <4> DEFINE g(k) == IF k = 0 THEN <<>>
                         ELSE IF moves[k][end] \in s THEN R[k - 1] ELSE Append(R[k - 1], moves[k])
      <4>1. R = [k \in 0 .. N |-> g(k)]
        BY <1>9
      <4> HIDE DEF g
      <4>2. R[n] = g(n)
        BY <3>1, <4>1
      <4> QED
        BY <4>2 DEF g
    <3> QED
      BY <3>1, <3>2 DEF ExcludeOne
  <2> QED
    BY <2>1, <2>2
<1> HIDE DEF R
<1> QED
  BY <1>4, <1>10 DEF ExcludingRun

\* No two moves have the same source, or the same destination.
Apart(moves) ==
    \A j, k \in 1 .. Len(moves) : j # k => moves[j].from # moves[k].from /\ moves[j].to # moves[k].to

\* One more move with a source and a destination of its own keeps moves apart.
LEMMA AppendedApart ==
    ASSUME NEW t \in Seq(Move), Apart(t), NEW m \in Move,
           \A k \in 1 .. Len(t) : t[k].from # m.from /\ t[k].to # m.to
    PROVE  Apart(Append(t, m))
<1> DEFINE u == Append(t, m)
           K == Len(t)
<1>1. /\ K \in Nat /\ Len(u) = K + 1 /\ u[K + 1] = m
      /\ \A k \in 1 .. K : u[k] = t[k]
      /\ \A k \in 1 .. Len(u) : k = K + 1 \/ k \in 1 .. K
  OBVIOUS
<1> HIDE DEF u
<1> SUFFICES ASSUME NEW j \in 1 .. Len(u), NEW k \in 1 .. Len(u), j # k
             PROVE  u[j].from # u[k].from /\ u[j].to # u[k].to
  BY DEF Apart, u
<1>2. CASE j \in 1 .. K /\ k \in 1 .. K
  <2>1. t[j].from # t[k].from /\ t[j].to # t[k].to
    BY <1>2 DEF Apart
  <2> QED
    BY <1>1, <1>2, <2>1
<1>3. CASE j = K + 1 /\ k \in 1 .. K
  BY <1>1, <1>3
<1>4. CASE k = K + 1 /\ j \in 1 .. K
  BY <1>1, <1>4
<1> QED
  BY <1>1, <1>2, <1>3, <1>4

\* The moves kept are those of `moves` whose end is not in s.
KeptOf(kept, moves, end, s) ==
    /\ kept \in Seq(Move) /\ Apart(kept)
    /\ \A k \in 1 .. Len(kept) :
           kept[k][end] \notin s /\ \E j \in 1 .. Len(moves) : kept[k] = moves[j]
    /\ \A j \in 1 .. Len(moves) :
           moves[j][end] \notin s => \E k \in 1 .. Len(kept) : kept[k] = moves[j]

\* Just the moves with the end in the set are dropped, and what is left stays apart.
LEMMA ExcludingFacts ==
    ASSUME NEW moves \in Seq(Move), Apart(moves), NEW end \in {"from", "to"}, NEW s
    PROVE  KeptOf(Excluding(moves, end, s), moves, end, s)
<1> DEFINE N == Len(moves)
           From(t, n) == \A k \in 1 .. Len(t) : t[k][end] \notin s /\ \E j \in 1 .. n : t[k] = moves[j]
           All(t, n) == \A j \in 1 .. n : moves[j][end] \notin s => \E k \in 1 .. Len(t) : t[k] = moves[j]
<1>1. N \in Nat /\ \A n \in 1 .. N : moves[n] \in Move
  OBVIOUS
<1>a. PICK f : ExcludingRun(f, moves, end, s)
  BY ExcludingSteps
<1>2. /\ f[0] = <<>>
      /\ \A n \in 1 .. N : f[n] = ExcludeOne(f[n - 1], moves[n], end, s)
      /\ Excluding(moves, end, s) = f[N]
  BY <1>a DEF ExcludingRun
<1> DEFINE P == {n \in 0 .. N : /\ f[n] \in Seq(Move) /\ Apart(f[n])
                                /\ From(f[n], n) /\ All(f[n], n)}
<1>3. 0 \in P
  <2>1. <<>> \in Seq(Move) /\ Len(<<>>) = 0
    OBVIOUS
  <2>2. Apart(<<>>) /\ From(<<>>, 0) /\ All(<<>>, 0)
    BY <2>1 DEF Apart
  <2> HIDE DEF From, All
  <2>3. f[0] \in Seq(Move) /\ Apart(f[0]) /\ From(f[0], 0) /\ All(f[0], 0)
    BY <1>2, <2>1, <2>2
  <2> QED
    BY <1>1, <2>3
<1>4. ASSUME NEW n \in 1 .. N, n - 1 \in P PROVE n \in P
  <2> DEFINE t == f[n - 1]
             m == moves[n]
             u == f[n]
  <2>1. t \in Seq(Move) /\ Apart(t) /\ From(t, n - 1) /\ All(t, n - 1)
    BY <1>4
  <2>2. u = ExcludeOne(t, m, end, s) /\ m \in Move
    BY <1>1, <1>2
  <2>3. n \in 1 .. n /\ n \in Nat /\ \A j \in 1 .. n - 1 : j \in 1 .. n /\ j # n /\ j \in 1 .. N
    BY <1>1
  <2>4. \A j \in 1 .. n : j = n \/ j \in 1 .. n - 1
    BY <1>1
  <2>5. \A j \in 1 .. n - 1 : moves[j].from # m.from /\ moves[j].to # m.to
    BY <2>3 DEF Apart
  <2> HIDE DEF t, u, m, P
  <2>6. CASE m[end] \in s
    <3>1. u = t
      BY <2>2, <2>6 DEF ExcludeOne
    <3>2. From(u, n) /\ All(u, n)
      BY <2>1, <2>3, <2>4, <2>6, <3>1 DEF m
    <3> HIDE DEF From, All
    <3>3. u \in Seq(Move) /\ Apart(u) /\ From(u, n) /\ All(u, n)
      BY <2>1, <3>1, <3>2
    <3> QED
      BY <1>1, <3>3 DEF P, u
  <2>7. CASE m[end] \notin s
    <3>1. u = Append(t, m)
      BY <2>2, <2>7 DEF ExcludeOne
    <3>2. /\ u \in Seq(Move) /\ Len(u) = Len(t) + 1 /\ Len(t) \in Nat /\ u[Len(t) + 1] = m
          /\ \A k \in 1 .. Len(t) : u[k] = t[k] /\ k \in 1 .. Len(u)
          /\ \A k \in 1 .. Len(u) : k = Len(t) + 1 \/ k \in 1 .. Len(t)
          /\ Len(t) + 1 \in 1 .. Len(u)
      BY <2>1, <2>2, <3>1
    <3>3. \A k \in 1 .. Len(t) : t[k].from # m.from /\ t[k].to # m.to
      BY <2>1, <2>5
    <3>4. Apart(u)
      BY <2>1, <2>2, <3>1, <3>3, AppendedApart
    <3>5. From(u, n)
      BY <2>1, <2>3, <2>7, <3>2 DEF m
    <3>6. All(u, n)
      BY <2>1, <2>4, <3>2 DEF m
    <3> HIDE DEF From, All
    <3>7. u \in Seq(Move) /\ Apart(u) /\ From(u, n) /\ All(u, n)
      BY <3>2, <3>4, <3>5, <3>6
    <3> QED
      BY <1>1, <3>7 DEF P, u
  <2> QED
    BY <2>6, <2>7
<1>5. N \in P
  <2> HIDE DEF P
  <2> QED
    BY <1>1, <1>3, <1>4, UpTo
<1> QED
  BY <1>2, <1>5 DEF KeptOf

\* A change leads no two indices to the same one and no index to two, and what it
\* deletes to what it inserts, if anywhere.
LEMMA TracksFacts ==
    ASSUME NEW c, IsChange(c)
    PROVE  /\ \A x, y : <<x, y>> \in Tracks(c)
                 <=> \/ x \in Nat /\ x \notin c.del /\ y = Where(c.del, c.ins, x)
                     \/ \E k \in 1 .. Len(c.moves) : x = c.moves[k].from /\ y = c.moves[k].to
           /\ \A x, y, u, v : <<x, y>> \in Tracks(c) /\ <<u, v>> \in Tracks(c) => (x = u <=> y = v)
           /\ \A x, y : <<x, y>> \in Tracks(c) => x \in Nat /\ y \in Nat
           /\ \A x, y : <<x, y>> \in Tracks(c) => (x \in c.del <=> y \in c.ins)
           /\ \A p \in Tracks(c) : p = <<p[1], p[2]>>
<1>1. \A x, y : <<x, y>> \in Tracks(c)
        <=> \/ x \in Nat /\ x \notin c.del /\ y = Where(c.del, c.ins, x)
            \/ \E k \in 1 .. Len(c.moves) : x = c.moves[k].from /\ y = c.moves[k].to
  BY DEF Tracks, Stays, Moves
<1>2. c.del \in IndexSet /\ c.ins \in IndexSet /\ c.moves \in Seq(Move)
  BY DEF IsChange, ChangeSet
<1>3. \A k \in 1 .. Len(c.moves) :
          /\ c.moves[k].from \in c.del /\ c.moves[k].to \in c.ins
          /\ c.moves[k].from \in Nat /\ c.moves[k].to \in Nat
  <2>1. \A k \in 1 .. Len(c.moves) : c.moves[k] \in Move
    BY <1>2
  <2> QED
    BY <2>1 DEF IsChange, MovesMatch, Move
<1>4. \A x \in Nat : x \notin c.del =>
          /\ Where(c.del, c.ins, x) \in Nat /\ Where(c.del, c.ins, x) \notin c.ins
          /\ Where(c.ins, c.del, Where(c.del, c.ins, x)) = x
  BY <1>2, WhereFacts
<1>5. \A x, y : <<x, y>> \in Tracks(c) => x \in Nat /\ y \in Nat
  BY <1>1, <1>3, <1>4
<1>6. \A x, y : <<x, y>> \in Tracks(c) => (x \in c.del <=> y \in c.ins)
  BY <1>1, <1>3, <1>4
<1>7. ASSUME NEW x, NEW y, NEW u, NEW v, <<x, y>> \in Tracks(c), <<u, v>> \in Tracks(c)
      PROVE  x = u <=> y = v
  <2>1. (x \in c.del <=> y \in c.ins) /\ (u \in c.del <=> v \in c.ins)
    BY <1>6, <1>7
  <2>2. CASE x \notin c.del /\ u \notin c.del
    <3>1. /\ x \in Nat /\ u \in Nat
          /\ y = Where(c.del, c.ins, x) /\ v = Where(c.del, c.ins, u)
      BY <1>1, <1>3, <1>7, <2>2
    <3> QED
      BY <1>4, <2>2, <3>1
  <2>3. CASE x \in c.del /\ u \in c.del
    <3>1. PICK j \in 1 .. Len(c.moves) : x = c.moves[j].from /\ y = c.moves[j].to
      BY <1>1, <1>7, <2>3
    <3>2. PICK k \in 1 .. Len(c.moves) : u = c.moves[k].from /\ v = c.moves[k].to
      BY <1>1, <1>7, <2>3
    <3> QED
      BY <3>1, <3>2 DEF IsChange, MovesMatch
  <2> QED
    BY <2>1, <2>2, <2>3
<1>8. \A p \in Tracks(c) : p = <<p[1], p[2]>>
  BY DEF Tracks, Stays, Moves
<1> QED
  BY <1>1, <1>5, <1>6, <1>7, <1>8

\* The last move takes the place of the one at k: only that one is lost.
LEMMA LastTakesPlace ==
    ASSUME NEW later \in Seq(Move), NEW k \in 1 .. Len(later)
    PROVE  LET rest == Front([later EXCEPT ![k] = Last(later)])
           IN  /\ rest \in Seq(Move) /\ (Apart(later) => Apart(rest))
               /\ \A j \in 1 .. Len(rest) :
                      \E l \in 1 .. Len(later) : l # k /\ rest[j] = later[l]
               /\ \A l \in 1 .. Len(later) :
                      l # k => \E j \in 1 .. Len(rest) : rest[j] = later[l]
<1> DEFINE N == Len(later)
           swapped == [later EXCEPT ![k] = Last(later)]
           rest == Front(swapped)
           Old(j) == IF j = k THEN N ELSE j
<1>1. N \in Nat /\ N >= 1 /\ N \in 1 .. N /\ \A j \in 1 .. N : later[j] \in Move
  OBVIOUS
<1>2. Last(later) = later[N]
  BY DEF Last
<1>3. swapped \in Seq(Move) /\ Len(swapped) = N /\ \A j \in 1 .. N : swapped[j] = later[Old(j)]
  BY <1>1, <1>2
<1> HIDE DEF swapped
<1>4. /\ rest \in Seq(Move) /\ Len(rest) = N - 1
      /\ \A j \in 1 .. N - 1 : rest[j] = swapped[j]
  <2>1. rest = SubSeq(swapped, 1, N - 1)
    BY <1>3 DEF Front
  <2> HIDE DEF rest, N
  <2> QED
    BY <1>1, <1>3, <2>1
<1>5. \A j \in 1 .. N - 1 : j \in 1 .. N /\ Old(j) \in 1 .. N /\ Old(j) # k /\ rest[j] = later[Old(j)]
  BY <1>1, <1>3, <1>4
<1>6. \A j, l \in 1 .. N - 1 : j # l => Old(j) # Old(l)
  BY <1>1
<1>7. Apart(later) => Apart(rest)
  <2> HIDE DEF rest, Old
  <2> QED
    BY <1>4, <1>5, <1>6 DEF Apart
<1>8. ASSUME NEW l \in 1 .. N, l # k PROVE \E j \in 1 .. N - 1 : rest[j] = later[l]
  <2>1. CASE l = N
    <3>1. k \in 1 .. N - 1 /\ Old(k) = l
      BY <1>1, <1>8, <2>1
    <3> QED
      BY <1>5, <3>1
  <2>2. CASE l # N
    <3>1. l \in 1 .. N - 1 /\ Old(l) = l
      BY <1>1, <1>8, <2>2
    <3> QED
      BY <1>5, <3>1
  <2> QED
    BY <2>1, <2>2
<1> HIDE DEF rest, Old
<1>9. /\ rest \in Seq(Move) /\ (Apart(later) => Apart(rest))
      /\ \A j \in 1 .. Len(rest) : \E l \in 1 .. N : l # k /\ rest[j] = later[l]
      /\ \A l \in 1 .. N : l # k => \E j \in 1 .. Len(rest) : rest[j] = later[l]
  BY <1>4, <1>5, <1>7, <1>8
<1> QED
  BY <1>9 DEF rest, swapped

\* The state of the loop of merge over the moves.
Updated == [kept : Seq(Move), later : Seq(Move), mod : IndexSet]

\* A round of the loop keeps its type.
LEMMA UpdateOneType ==
    ASSUME NEW s \in Updated, NEW old \in Move, NEW a \in ChangeSet, NEW c \in ChangeSet
    PROVE  UpdateOne(s, old, a, c) \in Updated
<1> DEFINE t == UpdateOne(s, old, a, c)
           again == {k \in DOMAIN s.later : s.later[k].from = old.to}
           first == CHOOSE k \in again : \A n \in again : k <= n
<1>1. /\ s.kept \in Seq(Move) /\ s.later \in Seq(Move) /\ s.mod \in IndexSet
      /\ s = [kept |-> s.kept, later |-> s.later, mod |-> s.mod]
      /\ old.from \in Nat /\ old.to \in Nat /\ c.del \in IndexSet /\ c.ins \in IndexSet
  BY DEF Updated, Move, ChangeSet
<1>2. DOMAIN s.later = 1 .. Len(s.later) /\ Len(s.later) \in Nat
  BY <1>1
<1>3. CASE again # {}
  <2> DEFINE to == s.later[first].to
             rest == Front([s.later EXCEPT ![first] = Last(s.later)])
             more == IF old.to \in a.mod THEN {to} ELSE {}
  <2>1. first \in 1 .. Len(s.later)
    <3>1. again \subseteq Nat
      BY <1>2
    <3>2. \E k \in again : \A n \in again : k <= n
      <4> HIDE DEF again
      <4> QED
        BY <1>3, <3>1, LeastIndex
    <3>3. first \in again
      <4> HIDE DEF again
      <4> QED
        BY <3>2
    <3> QED
      BY <1>2, <3>3
  <2>2. t = [kept |-> Append(s.kept, [old EXCEPT !.to = to]), later |-> rest,
             mod |-> s.mod \cup more]
    BY <1>3 DEF UpdateOne
  <2> HIDE DEF again, first, t
  <2>3. s.later[first] \in Move
    BY <1>1, <2>1
  <2>4. to \in Nat
    BY <2>3 DEF Move
  <2>5. rest \in Seq(Move)
    BY <1>1, <2>1, LastTakesPlace
  <2>6. [old EXCEPT !.to = to] \in Move
    BY <2>4 DEF Move
  <2>7. s.mod \cup more \in IndexSet
    <3>1. {} \in IndexSet /\ {to} \in IndexSet
      BY <2>4, FS_EmptySet, FS_Singleton DEF IndexSet
    <3> QED
      BY <1>1, <3>1, IndexSetParts
  <2> HIDE DEF rest, to, more
  <2>8. Append(s.kept, [old EXCEPT !.to = to]) \in Seq(Move)
    BY <1>1, <2>6
  <2> QED
    BY <2>2, <2>5, <2>7, <2>8 DEF Updated, t
<1>4. CASE again = {}
  <2>1. CASE old.to \in c.del
    BY <1>4, <2>1 DEF UpdateOne
  <2>2. CASE old.to \notin c.del
    <3> DEFINE m == [old EXCEPT !.to = Where(c.del, c.ins, @)]
    <3>1. t = [s EXCEPT !.kept = Append(@, m)]
      BY <1>4, <2>2 DEF UpdateOne, Where
    <3>2. m \in Move
      BY <1>1, <2>2, WhereFacts DEF Move
    <3> HIDE DEF m, t
    <3>3. Append(s.kept, m) \in Seq(Move)
      BY <1>1, <3>2
    <3> QED
      BY <3>1, <3>3 DEF Updated, t
  <2> QED
    BY <2>1, <2>2
<1> QED
  BY <1>3, <1>4

\* each of the moves is one of the others
AreAmong(moves, others) == \A j \in 1 .. Len(moves) : \E l \in 1 .. Len(others) : moves[j] = others[l]
\* the moves of x are among the others
AreLeft(moves, x, others) ==
    \A l \in 1 .. Len(moves) : moves[l].from = x => \E j \in 1 .. Len(others) : others[j] = moves[l]
\* c moves a row from w to z
MovedFrom(c, w, z) == \E l \in 1 .. Len(c.moves) : c.moves[l].from = w /\ c.moves[l].to = z
\* what one round of UpdateMoves makes of s
RoundOf(s, t, old, a, c) ==
    /\ \A z : z \in t.mod <=> z \in s.mod \/ (old.to \in a.mod /\ MovedFrom(c, old.to, z))
    /\ Apart(t.later)
    /\ \A j \in 1 .. Len(t.later) : \E l \in 1 .. Len(s.later) : t.later[j] = s.later[l]
    /\ \A l \in 1 .. Len(s.later) : s.later[l].from # old.to =>
           \E j \in 1 .. Len(t.later) : t.later[j] = s.later[l]
    /\ \/ \E y \in Nat : /\ <<old.to, y>> \in Tracks(c)
                         /\ t.kept = Append(s.kept, [from |-> old.from, to |-> y])
       \/ t.kept = s.kept /\ \A y : <<old.to, y>> \notin Tracks(c)

\* A round of the loop: a move is continued to where the later changes lead its
\* destination, or dropped when they delete it; a later move of the same row is used
\* up, and hands on the modification.
LEMMA UpdateOneFacts ==
    ASSUME NEW s \in Updated, Apart(s.later), NEW old \in Move,
           NEW a \in ChangeSet, NEW c, IsChange(c),
           AreAmong(s.later, c.moves), AreLeft(c.moves, old.to, s.later)
    PROVE  RoundOf(s, UpdateOne(s, old, a, c), old, a, c)
<1> DEFINE t == UpdateOne(s, old, a, c)
           again == {k \in DOMAIN s.later : s.later[k].from = old.to}
           first == CHOOSE k \in again : \A n \in again : k <= n
<1>1. /\ s.kept \in Seq(Move) /\ s.later \in Seq(Move) /\ s.mod \in IndexSet
      /\ s = [kept |-> s.kept, later |-> s.later, mod |-> s.mod]
      /\ old.from \in Nat /\ old.to \in Nat /\ old = [from |-> old.from, to |-> old.to]
      /\ c.del \in IndexSet /\ c.ins \in IndexSet
  BY DEF Updated, Move, IsChange, ChangeSet
<1>2. DOMAIN s.later = 1 .. Len(s.later) /\ Len(s.later) \in Nat
  BY <1>1
<1>3. CASE again # {}
  <2> DEFINE to == s.later[first].to
             rest == Front([s.later EXCEPT ![first] = Last(s.later)])
             more == IF old.to \in a.mod THEN {to} ELSE {}
  <2>1. first \in 1 .. Len(s.later) /\ s.later[first].from = old.to
    <3>1. again \subseteq Nat
      BY <1>2
    <3>2. \E k \in again : \A n \in again : k <= n
      <4> HIDE DEF again
      <4> QED
        BY <1>3, <3>1, LeastIndex
    <3>3. first \in again
      <4> HIDE DEF again
      <4> QED
        BY <3>2
    <3> QED
      BY <1>2, <3>3
  <2>2. t = [kept |-> Append(s.kept, [old EXCEPT !.to = to]), later |-> rest,
             mod |-> s.mod \cup more]
    BY <1>3 DEF UpdateOne
  <2> HIDE DEF again, first, t
  <2>a. s.later[first] \in Move
    BY <1>1, <2>1
  <2>3. to \in Nat
    BY <2>a DEF Move
  <2>4. <<old.to, to>> \in Tracks(c) /\ MovedFrom(c, old.to, to)
    <3>1. PICK l \in 1 .. Len(c.moves) : s.later[first] = c.moves[l]
      BY <2>1 DEF AreAmong
    <3> QED
      BY <2>1, <3>1, TracksFacts DEF MovedFrom
  <2>5. /\ rest \in Seq(Move) /\ Apart(rest)
        /\ \A j \in 1 .. Len(rest) :
               \E l \in 1 .. Len(s.later) : l # first /\ rest[j] = s.later[l]
        /\ \A l \in 1 .. Len(s.later) :
               l # first => \E j \in 1 .. Len(rest) : rest[j] = s.later[l]
    BY <1>1, <2>1, LastTakesPlace
  <2>6. [old EXCEPT !.to = to] = [from |-> old.from, to |-> to]
    BY <1>1
  <2>7. \A z : z \in more <=> old.to \in a.mod /\ MovedFrom(c, old.to, z)
    <3>1. \A z : MovedFrom(c, old.to, z) => z = to
      <4> SUFFICES ASSUME NEW z, MovedFrom(c, old.to, z) PROVE z = to
        OBVIOUS
      <4>1. <<old.to, z>> \in Tracks(c)
        BY TracksFacts DEF MovedFrom
      <4> HIDE DEF to
      <4> QED
        BY <2>4, <4>1, TracksFacts
    <3> QED
      BY <2>4, <3>1
  <2> HIDE DEF rest, to, more
  <2>8. /\ t.kept = Append(s.kept, [from |-> old.from, to |-> to]) /\ t.later = rest
        /\ t.mod = s.mod \cup more
    BY <2>2, <2>6
  <2>10. \A l \in 1 .. Len(s.later) : s.later[l].from # old.to => l # first
    BY <2>1
  <2>11. \A l \in 1 .. Len(s.later) : s.later[l].from # old.to =>
             \E j \in 1 .. Len(t.later) : t.later[j] = s.later[l]
    BY <2>5, <2>8, <2>10
  <2>12. \A j \in 1 .. Len(t.later) : \E l \in 1 .. Len(s.later) : t.later[j] = s.later[l]
    BY <2>5, <2>8
  <2> QED
    BY <2>3, <2>4, <2>5, <2>7, <2>8, <2>11, <2>12 DEF t, RoundOf
<1>4. CASE again = {}
  <2>1. \A l \in 1 .. Len(c.moves) : c.moves[l].from # old.to
    BY <1>2, <1>4 DEF AreLeft
  <2>a. \A z : ~MovedFrom(c, old.to, z)
    BY <2>1 DEF MovedFrom
  <2>2. CASE old.to \in c.del
    <3>1. t = s
      BY <1>4, <2>2 DEF UpdateOne
    <3>2. \A y : <<old.to, y>> \notin Tracks(c)
      BY <2>1, <2>2, TracksFacts
    <3> QED
      BY <1>1, <2>a, <3>1, <3>2 DEF RoundOf
  <2>3. CASE old.to \notin c.del
    <3> DEFINE y == Where(c.del, c.ins, old.to)
    <3>1. t = [s EXCEPT !.kept = Append(@, [old EXCEPT !.to = Where(c.del, c.ins, @)])]
      BY <1>4, <2>3 DEF UpdateOne, Where
    <3>2. [old EXCEPT !.to = Where(c.del, c.ins, @)] = [from |-> old.from, to |-> y]
      BY <1>1
    <3>3. y \in Nat /\ <<old.to, y>> \in Tracks(c)
      BY <1>1, <2>3, WhereFacts, TracksFacts
    <3> HIDE DEF y, t
    <3>5. t = [kept |-> Append(s.kept, [from |-> old.from, to |-> y]), later |-> s.later, mod |-> s.mod]
      BY <1>1, <3>1, <3>2
    <3>7. /\ t.kept = Append(s.kept, [from |-> old.from, to |-> y]) /\ t.later = s.later
          /\ t.mod = s.mod
      BY <3>5
    <3> QED
      BY <2>a, <3>3, <3>7 DEF t, RoundOf
  <2> QED
    BY <2>2, <2>3
<1> QED
  BY <1>3, <1>4

\* The loop over the moves of the earlier change.
UpdatingRun(f, a, c) ==
    /\ f[0] = [kept |-> <<>>, later |-> c.moves, mod |-> c.mod]
    /\ \A n \in 1 .. Len(a.moves) : f[n] = UpdateOne(f[n - 1], a.moves[n], a, c)
    /\ UpdateMoves(a, c) = f[Len(a.moves)]

\* It has a run.
LEMMA UpdatingSteps ==
    ASSUME NEW a \in ChangeSet, NEW c \in ChangeSet
    PROVE  \E f : UpdatingRun(f, a, c)
<1> DEFINE N == Len(a.moves)
           s0 == [kept |-> <<>>, later |-> c.moves, mod |-> c.mod]
           G == [p \in Updated \X (1 .. N) |-> UpdateOne(p[1], a.moves[p[2]], a, c)]
           Runs(g) == g = [n \in 0 .. N |-> IF n = 0 THEN s0
                                            ELSE UpdateOne(g[n - 1], a.moves[n], a, c)]
           R == CHOOSE g : Runs(g)
<1>1. a.moves \in Seq(Move) /\ N \in Nat /\ \A n \in 1 .. N : a.moves[n] \in Move
  BY DEF ChangeSet
<1>2. s0 \in Updated
  <2>1. <<>> \in Seq(Move)
    OBVIOUS
  <2> QED
    BY <2>1 DEF ChangeSet, Updated
<1>3. G \in [Updated \X (1 .. N) -> Updated]
  BY <1>1, UpdateOneType
<1>4. UpdateMoves(a, c) = R[N]
  BY DEF UpdateMoves
<1>a. PICK f : RunOf(f, N, Updated, s0, G)
  <2>1. N \in Nat
    BY <1>1
  <2> HIDE DEF N, s0, G
  <2> QED
    BY <2>1, <1>2, <1>3, Recursion
<1>5. f \in [0 .. N -> Updated] /\ f[0] = s0 /\ \A n \in 1 .. N : f[n] = G[<<f[n - 1], n>>]
  BY <1>a DEF RunOf
<1>6. ASSUME NEW n \in 1 .. N PROVE f[n] = UpdateOne(f[n - 1], a.moves[n], a, c)
  <2>1. n - 1 \in 0 .. N
    BY <1>1
  <2>2. <<f[n - 1], n>> \in Updated \X (1 .. N)
    BY <1>5, <2>1
  <2> QED
    BY <1>5, <2>2
<1> HIDE DEF G, s0
<1>7. Runs(f)
  <2>1. f = [n \in 0 .. N |-> f[n]]
    BY <1>5
  <2>2. ASSUME NEW n \in 0 .. N
        PROVE  f[n] = IF n = 0 THEN s0 ELSE UpdateOne(f[n - 1], a.moves[n], a, c)
    <3>1. n = 0 \/ n \in 1 .. N
      BY <1>1
    <3>2. \A m \in 1 .. N : m # 0
      OBVIOUS
    <3> QED
      BY <1>5, <1>6, <3>1, <3>2
  <2> HIDE DEF N
  <2> QED
    BY <2>1, <2>2
<1>8. Runs(R)
  <2> HIDE DEF Runs
  <2> QED
    BY <1>7
<1>9. R[0] = s0 /\ \A n \in 1 .. N : R[n] = UpdateOne(R[n - 1], a.moves[n], a, c)
  <2> HIDE DEF R
  <2>1. R[0] = s0
    BY <1>1, <1>8
  <2>2. ASSUME NEW n \in 1 .. N PROVE R[n] = UpdateOne(R[n - 1], a.moves[n], a, c)
    BY SMTT(30), <1>1, <1>8
  <2> QED
    BY <2>1, <2>2
<1> HIDE DEF R
<1> QED
  BY <1>4, <1>9 DEF s0, UpdatingRun

\* What the loop leaves: the moves of a continued, the moves of c that continue none
\* of them, and the modifications of rows moved twice.
UpdatedMoves(t, a, c) ==
    /\ t \in Updated /\ Apart(t.later) /\ Apart(t.kept)
    /\ \A z : z \in t.mod
                <=> \/ z \in c.mod
                    \/ \E m \in 1 .. Len(a.moves) :
                           a.moves[m].to \in a.mod /\ MovedFrom(c, a.moves[m].to, z)
    /\ \A j \in 1 .. Len(t.later) : \E l \in 1 .. Len(c.moves) : t.later[j] = c.moves[l]
    /\ \A l \in 1 .. Len(c.moves) :
           \/ \E m \in 1 .. Len(a.moves) : a.moves[m].to = c.moves[l].from
           \/ \E j \in 1 .. Len(t.later) : t.later[j] = c.moves[l]
    /\ \A k \in 1 .. Len(t.kept) : \E m \in 1 .. Len(a.moves) :
           /\ t.kept[k].from = a.moves[m].from
           /\ <<a.moves[m].to, t.kept[k].to>> \in Tracks(c)
    /\ \A m \in 1 .. Len(a.moves) : \A y : <<a.moves[m].to, y>> \in Tracks(c) =>
           \E k \in 1 .. Len(t.kept) : t.kept[k] = [from |-> a.moves[m].from, to |-> y]

\* The loop of merge over the moves leaves this, for any two changes.
LEMMA UpdateMovesFacts ==
    ASSUME NEW a, IsChange(a), NEW c, IsChange(c)
    PROVE  UpdatedMoves(UpdateMoves(a, c), a, c)
<1> DEFINE N == Len(a.moves)
           Taken(t) == \A j \in 1 .. Len(t.later) : \E l \in 1 .. Len(c.moves) : t.later[j] = c.moves[l]
           Left(t, n) == \A l \in 1 .. Len(c.moves) :
                             \/ \E m \in 1 .. n : a.moves[m].to = c.moves[l].from
                             \/ \E j \in 1 .. Len(t.later) : t.later[j] = c.moves[l]
           Kept(t, n) == \A k \in 1 .. Len(t.kept) : \E m \in 1 .. n :
                             /\ t.kept[k].from = a.moves[m].from
                             /\ <<a.moves[m].to, t.kept[k].to>> \in Tracks(c)
           All(t, n) == \A m \in 1 .. n : \A y : <<a.moves[m].to, y>> \in Tracks(c) =>
                            \E k \in 1 .. Len(t.kept) :
                                t.kept[k] = [from |-> a.moves[m].from, to |-> y]
           Mod(t, n) == \A z : z \in t.mod
                            <=> \/ z \in c.mod
                                \/ \E m \in 1 .. n : /\ a.moves[m].to \in a.mod
                                                     /\ MovedFrom(c, a.moves[m].to, z)
<1>1. /\ a \in ChangeSet /\ c \in ChangeSet /\ N \in Nat /\ c.moves \in Seq(Move)
      /\ \A m \in 1 .. N : a.moves[m] \in Move
  <2>1. a \in ChangeSet /\ c \in ChangeSet /\ a.moves \in Seq(Move) /\ c.moves \in Seq(Move)
    BY DEF IsChange, ChangeSet
  <2> QED
    BY <2>1
<1>2. Apart(c.moves) /\ Apart(a.moves)
  BY DEF IsChange, MovesMatch, Apart
<1>a. PICK f : UpdatingRun(f, a, c)
  BY <1>1, UpdatingSteps
<1>3. /\ f[0] = [kept |-> <<>>, later |-> c.moves, mod |-> c.mod]
      /\ \A n \in 1 .. N : f[n] = UpdateOne(f[n - 1], a.moves[n], a, c)
      /\ UpdateMoves(a, c) = f[N]
  BY <1>a DEF UpdatingRun
<1> DEFINE Good(t, n) == /\ t \in Updated /\ Apart(t.later) /\ Apart(t.kept)
                         /\ Taken(t) /\ Left(t, n) /\ Kept(t, n) /\ All(t, n) /\ Mod(t, n)
           P == {n \in 0 .. N : Good(f[n], n)}
<1>4. 0 \in P
  <2> DEFINE t == f[0]
  <2>1. t.kept = <<>> /\ t.later = c.moves /\ t.mod = c.mod /\ t \in Updated
    <3>1. <<>> \in Seq(Move)
      OBVIOUS
    <3> QED
      BY <1>1, <1>3, <3>1 DEF ChangeSet, Updated
  <2> HIDE DEF t
  <2>2. Len(t.kept) = 0 /\ Apart(t.kept)
    BY <2>1 DEF Apart
  <2>3. Taken(t) /\ Left(t, 0)
    BY <2>1
  <2>4. Kept(t, 0) /\ All(t, 0) /\ Mod(t, 0)
    BY <2>1, <2>2
  <2> HIDE DEF Taken, Left, Kept, All, Mod
  <2>5. Good(t, 0)
    BY <1>2, <2>1, <2>2, <2>3, <2>4
  <2> HIDE DEF Good
  <2> QED
    BY <1>1, <2>5 DEF t
<1>5. ASSUME NEW n \in 1 .. N, n - 1 \in P PROVE n \in P
  <2> DEFINE s == f[n - 1]
             old == a.moves[n]
             t == f[n]
  <2>1. Good(s, n - 1)
    BY <1>5
  <2>2. t = UpdateOne(s, old, a, c) /\ old \in Move
    BY <1>1, <1>3
  <2>3. n \in 1 .. n /\ n \in Nat /\ \A m \in 1 .. n - 1 : m \in 1 .. n /\ m # n /\ m \in 1 .. N
    BY <1>1
  <2>4. \A m \in 1 .. n : m = n \/ m \in 1 .. n - 1
    BY <1>1
  <2>5. \A m \in 1 .. n - 1 : a.moves[m].from # old.from /\ a.moves[m].to # old.to
    BY <1>2, <2>3 DEF Apart
  <2> HIDE DEF s, t, P
  <2>6. \A l \in 1 .. Len(c.moves) : c.moves[l].from = old.to =>
            \E j \in 1 .. Len(s.later) : s.later[j] = c.moves[l]
    BY <2>1, <2>5
  <2>7. s \in Updated /\ Apart(s.later) /\ Taken(s)
    BY <2>1
  <2> HIDE DEF old
  <2>a. AreAmong(s.later, c.moves) /\ AreLeft(c.moves, old.to, s.later)
    BY <2>6, <2>7 DEF AreAmong, AreLeft
  <2>b. s \in Updated /\ Apart(s.later)
    BY <2>7
  <2>c. a \in ChangeSet /\ c \in ChangeSet
    BY <1>1
  <2>d. t \in Updated /\ RoundOf(s, t, old, a, c)
    BY <2>2, <2>a, <2>b, <2>c, UpdateOneFacts, UpdateOneType
  <2>8. /\ t \in Updated /\ Apart(t.later)
        /\ \A j \in 1 .. Len(t.later) : \E l \in 1 .. Len(s.later) : t.later[j] = s.later[l]
        /\ \A l \in 1 .. Len(s.later) : s.later[l].from # old.to =>
               \E j \in 1 .. Len(t.later) : t.later[j] = s.later[l]
        /\ \A z : z \in t.mod <=> z \in s.mod \/ (old.to \in a.mod /\ MovedFrom(c, old.to, z))
        /\ \/ \E y \in Nat : /\ <<old.to, y>> \in Tracks(c)
                             /\ t.kept = Append(s.kept, [from |-> old.from, to |-> y])
           \/ t.kept = s.kept /\ \A y : <<old.to, y>> \notin Tracks(c)
    BY <2>d DEF RoundOf
  <2>9. Taken(t)
    BY <2>7, <2>8
  <2>10. Left(t, n)
    <3> SUFFICES ASSUME NEW l \in 1 .. Len(c.moves),
                        ~ \E m \in 1 .. n : a.moves[m].to = c.moves[l].from
                 PROVE  \E j \in 1 .. Len(t.later) : t.later[j] = c.moves[l]
      OBVIOUS
    <3>1. c.moves[l].from # old.to
      BY <2>3 DEF old
    <3>2. PICK j \in 1 .. Len(s.later) : s.later[j] = c.moves[l]
      BY <2>1, <2>3
    <3> QED
      BY <2>8, <3>1, <3>2
  <2>11. Apart(t.kept) /\ Kept(t, n) /\ All(t, n)
    <3>1. CASE t.kept = s.kept /\ \A y : <<old.to, y>> \notin Tracks(c)
      <4>1. Apart(t.kept)
        BY <2>1, <3>1
      <4>2. Kept(t, n)
        BY <2>1, <2>3, <3>1
      <4>3. All(t, n)
        BY <2>1, <2>4, <3>1 DEF old
      <4> QED
        BY <4>1, <4>2, <4>3
    <3>2. ASSUME NEW y \in Nat, <<old.to, y>> \in Tracks(c),
                 t.kept = Append(s.kept, [from |-> old.from, to |-> y])
          PROVE  Apart(t.kept) /\ Kept(t, n) /\ All(t, n)
      <4> DEFINE m == [from |-> old.from, to |-> y]
                 K == Len(s.kept)
      <4>1. s.kept \in Seq(Move) /\ K \in Nat /\ m \in Move /\ m.from = old.from /\ m.to = y
        BY <2>2, <2>7 DEF Updated, Move
      <4> HIDE DEF m
      <4>2. /\ Len(t.kept) = K + 1 /\ t.kept[K + 1] = m
            /\ \A k \in 1 .. K : t.kept[k] = s.kept[k] /\ k \in 1 .. Len(t.kept)
            /\ \A k \in 1 .. Len(t.kept) : k = K + 1 \/ k \in 1 .. K
            /\ K + 1 \in 1 .. Len(t.kept)
        BY <3>2, <4>1 DEF m
      <4> HIDE DEF K
      <4>3. \A k \in 1 .. K : s.kept[k].from # m.from /\ s.kept[k].to # m.to
        <5> SUFFICES ASSUME NEW k \in 1 .. K
                     PROVE  s.kept[k].from # m.from /\ s.kept[k].to # m.to
          OBVIOUS
        <5>1. PICK j \in 1 .. n - 1 : /\ s.kept[k].from = a.moves[j].from
                                      /\ <<a.moves[j].to, s.kept[k].to>> \in Tracks(c)
          BY <2>1 DEF K
        <5>2. a.moves[j].from # old.from /\ a.moves[j].to # old.to
          BY <2>5
        <5> QED
          BY SMTT(30), <3>2, <4>1, <5>1, <5>2, TracksFacts
      <4>4. Apart(t.kept)
        <5>1. Apart(s.kept)
          BY <2>1
        <5>2. \A k \in 1 .. Len(s.kept) : s.kept[k].from # m.from /\ s.kept[k].to # m.to
          BY <4>3 DEF K
        <5>3. t.kept = Append(s.kept, m)
          BY <3>2 DEF m
        <5> QED
          BY <4>1, <5>1, <5>2, <5>3, AppendedApart
      <4>5. Kept(t, n)
        <5> SUFFICES ASSUME NEW k \in 1 .. Len(t.kept)
                     PROVE  \E j \in 1 .. n : /\ t.kept[k].from = a.moves[j].from
                                              /\ <<a.moves[j].to, t.kept[k].to>> \in Tracks(c)
          OBVIOUS
        <5>1. CASE k = K + 1
          BY <2>3, <3>2, <4>1, <4>2, <5>1 DEF old
        <5>2. CASE k \in 1 .. K
          BY <2>1, <2>3, <4>2, <5>2 DEF K
        <5> QED
          BY <4>2, <5>1, <5>2
      <4>6. All(t, n)
        <5> SUFFICES ASSUME NEW j \in 1 .. n, NEW z, <<a.moves[j].to, z>> \in Tracks(c)
                     PROVE  \E k \in 1 .. Len(t.kept) :
                                t.kept[k] = [from |-> a.moves[j].from, to |-> z]
          OBVIOUS
        <5>1. CASE j = n
          <6>1. z = y
            BY <3>2, <5>1, TracksFacts DEF old
          <6> QED
            BY <4>2, <5>1, <6>1 DEF m, old
        <5>2. CASE j \in 1 .. n - 1
          <6>1. PICK k \in 1 .. K : s.kept[k] = [from |-> a.moves[j].from, to |-> z]
            BY <2>1, <5>2 DEF K
          <6> QED
            BY <4>2, <6>1
        <5> QED
          BY <2>4, <5>1, <5>2
      <4> QED
        BY <4>4, <4>5, <4>6
    <3> HIDE DEF Kept, All
    <3> QED
      BY <2>8, <3>1, <3>2
  <2>12. Mod(t, n)
    <3>1. Mod(s, n - 1)
      BY <2>1
    <3> SUFFICES ASSUME NEW z
                 PROVE  z \in t.mod <=> \/ z \in c.mod
                                        \/ \E m \in 1 .. n : /\ a.moves[m].to \in a.mod
                                                             /\ MovedFrom(c, a.moves[m].to, z)
      OBVIOUS
    <3>2. z \in t.mod <=> z \in s.mod \/ (old.to \in a.mod /\ MovedFrom(c, old.to, z))
      BY <2>8
    <3>3. z \in s.mod <=> \/ z \in c.mod
                          \/ \E m \in 1 .. n - 1 : /\ a.moves[m].to \in a.mod
                                                   /\ MovedFrom(c, a.moves[m].to, z)
      BY <3>1
    <3>4. (\E m \in 1 .. n : a.moves[m].to \in a.mod /\ MovedFrom(c, a.moves[m].to, z))
            <=> \/ \E m \in 1 .. n - 1 : /\ a.moves[m].to \in a.mod
                                         /\ MovedFrom(c, a.moves[m].to, z)
                \/ (a.moves[n].to \in a.mod /\ MovedFrom(c, a.moves[n].to, z))
      BY <2>3, <2>4
    <3> QED
      BY <3>2, <3>3, <3>4 DEF old
  <2> HIDE DEF Taken, Left, Kept, All, Mod
  <2>13. Good(t, n)
    BY <2>8, <2>9, <2>10, <2>11, <2>12
  <2> HIDE DEF Good
  <2> QED
    BY <1>1, <2>13 DEF t, P
<1>6. N \in P
  <2> HIDE DEF P
  <2> QED
    BY <1>1, <1>4, <1>5, UpTo
<1>7. Good(f[N], N)
  BY <1>6
<1> QED
  BY SMTT(30), <1>3, <1>7 DEF UpdatedMoves

-----------------------------------------------------------------------------
\* merge: the result

\* One relation and then the other.
FollowedBy(R, S) ==
    {p \in Nat \X Nat : \E w \in Nat : <<p[1], w>> \in R /\ <<w, p[2]>> \in S}

\* m is a followed by c, or leaves out deletions and insertions that are void
Continues(m, a, c) ==
    /\ IsChange(m) /\ Tracks(m) = FollowedBy(Tracks(a), Tracks(c))
    /\ m.del \subseteq MergedDel(a, c) /\ m.ins \subseteq MergedIns(a, c)

\* the moves that MergedMoves makes of kept ones and of those of new
OfKept(a, c, x, y) ==
    \E m \in 1 .. Len(a.moves) : x = a.moves[m].from /\ <<a.moves[m].to, y>> \in Tracks(c)
OfNew(a, c, x, y) ==
    \E l \in 1 .. Len(c.moves) : /\ c.moves[l].from \notin a.ins /\ y = c.moves[l].to
                                 /\ x = Where(a.ins, a.del, c.moves[l].from)

\* Two sequences of moves, one behind the other.
LEMMA OneAfterAnother ==
    ASSUME NEW s \in Seq(Move), NEW t \in Seq(Move)
    PROVE  /\ s \o t \in Seq(Move) /\ Len(s \o t) = Len(s) + Len(t)
           /\ \A k \in 1 .. Len(s) : (s \o t)[k] = s[k]
           /\ \A k \in 1 .. Len(t) : (s \o t)[Len(s) + k] = t[k]
  OBVIOUS

\* The parts of a change, for the provers.
LEMMA ChangeFacts ==
    ASSUME NEW c, IsChange(c)
    PROVE  /\ c \in ChangeSet /\ c.del \in IndexSet /\ c.ins \in IndexSet /\ c.mod \in IndexSet
           /\ c.moves \in Seq(Move) /\ Len(c.moves) \in Nat /\ Apart(c.moves)
           /\ \A k \in 1 .. Len(c.moves) : /\ c.moves[k] \in Move
                                           /\ c.moves[k].from \in Nat /\ c.moves[k].to \in Nat
                                           /\ c.moves[k].from \in c.del /\ c.moves[k].to \in c.ins
<1>1. /\ c \in ChangeSet /\ c.del \in IndexSet /\ c.ins \in IndexSet /\ c.mod \in IndexSet
      /\ c.moves \in Seq(Move)
  BY DEF IsChange, ChangeSet
<1>2. \A k \in 1 .. Len(c.moves) : c.moves[k] \in Move
  BY <1>1
<1>3. \A k \in 1 .. Len(c.moves) : c.moves[k].from \in Nat /\ c.moves[k].to \in Nat
  BY <1>2 DEF Move
<1> QED
  BY <1>1, <1>2, <1>3 DEF IsChange, MovesMatch, Apart

\* The moves that merge makes are the earlier ones, continued, and the later ones of
\* rows that the earlier change did not insert, in old indices; no two of them clash.
LEMMA MergedMovesFacts ==
    ASSUME NEW a, IsChange(a), NEW c, IsChange(c)
    PROVE  LET moves == MergedMoves(a, c)
           IN  /\ moves \in Seq(Move) /\ Apart(moves)
               /\ \A k \in 1 .. Len(moves) : \/ OfKept(a, c, moves[k].from, moves[k].to)
                                             \/ OfNew(a, c, moves[k].from, moves[k].to)
               /\ \A x, y : OfKept(a, c, x, y) \/ OfNew(a, c, x, y) =>
                      \E k \in 1 .. Len(moves) : moves[k].from = x /\ moves[k].to = y
<1> DEFINE s == UpdateMoves(a, c)
           new == Excluding(s.later, "from", a.ins)
           moved == [k \in DOMAIN new |-> [new[k] EXCEPT !.from = OldIndex(a, @)]]
           moves == s.kept \o moved
           K == Len(s.kept)
           N == Len(new)
<1>1. /\ s \in Updated /\ Apart(s.later) /\ Apart(s.kept)
      /\ \A j \in 1 .. Len(s.later) : \E l \in 1 .. Len(c.moves) : s.later[j] = c.moves[l]
      /\ \A l \in 1 .. Len(c.moves) :
             \/ \E m \in 1 .. Len(a.moves) : a.moves[m].to = c.moves[l].from
             \/ \E j \in 1 .. Len(s.later) : s.later[j] = c.moves[l]
      /\ \A k \in 1 .. Len(s.kept) : \E m \in 1 .. Len(a.moves) :
             /\ s.kept[k].from = a.moves[m].from
             /\ <<a.moves[m].to, s.kept[k].to>> \in Tracks(c)
      /\ \A m \in 1 .. Len(a.moves) : \A y : <<a.moves[m].to, y>> \in Tracks(c) =>
             \E k \in 1 .. Len(s.kept) : s.kept[k] = [from |-> a.moves[m].from, to |-> y]
  <2>1. UpdatedMoves(s, a, c)
    BY UpdateMovesFacts
  <2> HIDE DEF s
  <2> QED
    BY <2>1 DEF UpdatedMoves
<1> HIDE DEF s
<1>2. s.kept \in Seq(Move) /\ s.later \in Seq(Move)
  BY <1>1 DEF Updated
<1>3. /\ new \in Seq(Move) /\ Apart(new)
      /\ \A k \in 1 .. Len(new) : /\ new[k].from \notin a.ins
                                  /\ \E j \in 1 .. Len(s.later) : new[k] = s.later[j]
      /\ \A j \in 1 .. Len(s.later) :
             s.later[j].from \notin a.ins => \E k \in 1 .. Len(new) : new[k] = s.later[j]
  <2>1. Apart(s.later)
    BY <1>1
  <2>2. KeptOf(new, s.later, "from", a.ins)
    BY <1>2, <2>1, ExcludingFacts
  <2> HIDE DEF new
  <2> QED
    BY <2>2 DEF KeptOf
<1> HIDE DEF new
<1>a. a.del \in IndexSet /\ a.ins \in IndexSet
  BY ChangeFacts
<1>b. N \in Nat /\ K \in Nat /\ DOMAIN new = 1 .. N /\ \A k \in 1 .. N : new[k] \in Move
  BY <1>2, <1>3
<1>4. /\ moved \in Seq(Move) /\ Len(moved) = N
      /\ \A k \in 1 .. N : /\ moved[k].from = Where(a.ins, a.del, new[k].from)
                           /\ moved[k].to = new[k].to
  <2>1. ASSUME NEW k \in 1 .. N
        PROVE  /\ [new[k] EXCEPT !.from = OldIndex(a, @)] \in Move
               /\ moved[k] = [new[k] EXCEPT !.from = OldIndex(a, @)]
               /\ moved[k].from = Where(a.ins, a.del, new[k].from)
               /\ moved[k].to = new[k].to
    <3>1. new[k] \in Move /\ new[k].from \in Nat /\ new[k].from \notin a.ins /\ new[k].to \in Nat
      BY <1>3, <1>b DEF Move
    <3>2. OldIndex(a, new[k].from) = Where(a.ins, a.del, new[k].from)
      BY DEF OldIndex, Where
    <3>3. OldIndex(a, new[k].from) \in Nat
      BY <1>a, <3>1, <3>2, WhereFacts
    <3> QED
      BY <1>b, <3>1, <3>2, <3>3 DEF Move
  <2>2. moved \in [1 .. N -> Move]
    BY <1>b, <2>1
  <2> HIDE DEF moved, N
  <2>3. moved \in Seq(Move) /\ Len(moved) = N
    BY <1>b, <2>2
  <2> QED
    BY <2>1, <2>3
<1> HIDE DEF moved
<1>5. /\ moves \in Seq(Move) /\ Len(moves) = K + N
      /\ \A k \in 1 .. K : moves[k] = s.kept[k] /\ k \in 1 .. Len(moves)
      /\ \A k \in 1 .. N : moves[K + k] = moved[k] /\ K + k \in 1 .. Len(moves)
      /\ \A k \in 1 .. Len(moves) : k \in 1 .. K \/ (k - K \in 1 .. N /\ K + (k - K) = k)
  <2>1. /\ moves \in Seq(Move) /\ Len(moves) = K + N
        /\ \A k \in 1 .. K : moves[k] = s.kept[k]
        /\ \A k \in 1 .. N : moves[K + k] = moved[k]
    <3>1. Len(moved) = N
      BY <1>4
    <3> HIDE DEF N
    <3>2. s.kept \in Seq(Move) /\ moved \in Seq(Move)
      BY <1>2, <1>4
    <3>3. /\ s.kept \o moved \in Seq(Move) /\ Len(s.kept \o moved) = Len(s.kept) + Len(moved)
          /\ \A k \in 1 .. Len(s.kept) : (s.kept \o moved)[k] = s.kept[k]
          /\ \A k \in 1 .. Len(moved) : (s.kept \o moved)[Len(s.kept) + k] = moved[k]
      BY <3>2, OneAfterAnother
    <3> QED
      BY <3>1, <3>3
  <2> HIDE DEF moves, K, N
  <2>2. /\ \A k \in 1 .. K : k \in 1 .. K + N
        /\ \A k \in 1 .. N : K + k \in 1 .. K + N
        /\ \A k \in 1 .. K + N : k \in 1 .. K \/ (k - K \in 1 .. N /\ K + (k - K) = k)
    BY <1>b
  <2> QED
    BY <2>1, <2>2
<1> HIDE DEF moves, K, N
<1>6. ASSUME NEW k \in 1 .. K
      PROVE  /\ OfKept(a, c, moves[k].from, moves[k].to) /\ moves[k].from \in a.del
             /\ \E w \in a.ins : <<w, moves[k].to>> \in Tracks(c)
  <2>1. PICK m \in 1 .. Len(a.moves) : /\ s.kept[k].from = a.moves[m].from
                                       /\ <<a.moves[m].to, s.kept[k].to>> \in Tracks(c)
    BY <1>1 DEF K
  <2>2. a.moves[m].from \in a.del /\ a.moves[m].to \in a.ins
    BY ChangeFacts
  <2> QED
    BY <1>5, <2>1, <2>2 DEF OfKept
<1>7. ASSUME NEW k \in 1 .. N
      PROVE  /\ OfNew(a, c, moves[K + k].from, moves[K + k].to)
             /\ moves[K + k].from \in Nat /\ moves[K + k].from \notin a.del
             /\ new[k].from \in Nat /\ new[k].from \notin a.ins
             /\ moves[K + k].from = Where(a.ins, a.del, new[k].from)
             /\ moves[K + k].to = new[k].to
             /\ <<new[k].from, moves[K + k].to>> \in Tracks(c)
  <2>1. new[k].from \in Nat /\ new[k].from \notin a.ins
    BY <1>3, <1>b DEF Move, N
  <2>2. PICK j \in 1 .. Len(s.later) : new[k] = s.later[j]
    BY <1>3 DEF N
  <2>3. PICK l \in 1 .. Len(c.moves) : new[k] = c.moves[l]
    BY <1>1, <2>2
  <2>4. /\ moves[K + k].from = Where(a.ins, a.del, new[k].from)
        /\ moves[K + k].to = new[k].to
    BY <1>4, <1>5
  <2>5. <<new[k].from, new[k].to>> \in Tracks(c)
    BY <2>3, TracksFacts
  <2>6. OfNew(a, c, moves[K + k].from, moves[K + k].to)
    BY <2>1, <2>3, <2>4 DEF OfNew
  <2> QED
    BY <1>a, <2>1, <2>4, <2>5, <2>6, WhereFacts
<1>8. \A k \in 1 .. Len(moves) : \/ OfKept(a, c, moves[k].from, moves[k].to)
                                 \/ OfNew(a, c, moves[k].from, moves[k].to)
  <2> SUFFICES ASSUME NEW k \in 1 .. Len(moves)
               PROVE  \/ OfKept(a, c, moves[k].from, moves[k].to)
                      \/ OfNew(a, c, moves[k].from, moves[k].to)
    OBVIOUS
  <2>1. CASE k \in 1 .. K
    BY <1>6, <2>1
  <2>2. CASE k - K \in 1 .. N /\ K + (k - K) = k
    <3>1. OfNew(a, c, moves[K + (k - K)].from, moves[K + (k - K)].to)
      BY <1>7, <2>2
    <3> QED
      BY <2>2, <3>1
  <2> QED
    BY <1>5, <2>1, <2>2
<1>9. ASSUME NEW x, NEW y, OfKept(a, c, x, y)
      PROVE  \E k \in 1 .. Len(moves) : moves[k].from = x /\ moves[k].to = y
  <2>1. PICK m \in 1 .. Len(a.moves) : x = a.moves[m].from /\ <<a.moves[m].to, y>> \in Tracks(c)
    BY <1>9 DEF OfKept
  <2>2. PICK k \in 1 .. K : s.kept[k] = [from |-> x, to |-> y]
    BY <1>1, <2>1 DEF K
  <2> QED
    BY <1>5, <2>2
<1>10. ASSUME NEW x, NEW y, OfNew(a, c, x, y)
       PROVE  \E k \in 1 .. Len(moves) : moves[k].from = x /\ moves[k].to = y
  <2>1. PICK l \in 1 .. Len(c.moves) : /\ c.moves[l].from \notin a.ins /\ y = c.moves[l].to
                                       /\ x = Where(a.ins, a.del, c.moves[l].from)
    BY <1>10 DEF OfNew
  <2>2. \A m \in 1 .. Len(a.moves) : a.moves[m].to \in a.ins
    BY ChangeFacts
  <2>3. PICK j \in 1 .. Len(s.later) : s.later[j] = c.moves[l]
    BY <1>1, <2>1, <2>2
  <2>4. PICK k \in 1 .. N : new[k] = s.later[j]
    BY <1>3, <2>1, <2>3 DEF N
  <2>5. K + k \in 1 .. Len(moves)
    BY <1>5
  <2>6. moves[K + k].from = x /\ moves[K + k].to = y
    BY <1>7, <2>1, <2>3, <2>4
  <2> QED
    BY <2>5, <2>6
<1>11. Apart(moves)
  <2>1. ASSUME NEW j \in 1 .. K, NEW k \in 1 .. K, j # k
        PROVE  moves[j].from # moves[k].from /\ moves[j].to # moves[k].to
    <3>1. Apart(s.kept) /\ moves[j] = s.kept[j] /\ moves[k] = s.kept[k]
      BY <1>1, <1>5
    <3> QED
      BY <2>1, <3>1 DEF Apart, K
  <2>2. ASSUME NEW j \in 1 .. N, NEW k \in 1 .. N, j # k
        PROVE  /\ moves[K + j].from # moves[K + k].from
               /\ moves[K + j].to # moves[K + k].to
    <3>1. new[j].from # new[k].from /\ new[j].to # new[k].to
      BY <1>3, <2>2 DEF Apart, N
    <3>2. /\ Where(a.del, a.ins, Where(a.ins, a.del, new[j].from)) = new[j].from
          /\ Where(a.del, a.ins, Where(a.ins, a.del, new[k].from)) = new[k].from
      <4>1. \A l \in 1 .. N : new[l].from \in Nat /\ new[l].from \notin a.ins
        BY <1>7
      <4> QED
        BY <1>a, <4>1, WhereFacts
    <3> QED
      BY <1>7, <3>1, <3>2
  <2>3. ASSUME NEW j \in 1 .. K, NEW k \in 1 .. N
        PROVE  /\ moves[j].from # moves[K + k].from
               /\ moves[j].to # moves[K + k].to
    <3>1. PICK w \in a.ins : <<w, moves[j].to>> \in Tracks(c)
      BY <1>6
    <3>2. w # new[k].from
      BY <1>7
    <3>3. moves[j].to # moves[K + k].to
      <4>1. <<new[k].from, moves[K + k].to>> \in Tracks(c)
        BY <1>7
      <4> QED
        BY <3>1, <3>2, <4>1, TracksFacts
    <3> QED
      BY <1>6, <1>7, <3>3
  <2> SUFFICES ASSUME NEW j \in 1 .. Len(moves), NEW k \in 1 .. Len(moves), j # k
               PROVE  moves[j].from # moves[k].from /\ moves[j].to # moves[k].to
    BY DEF Apart
  <2> DEFINE p == j - K
             q == k - K
  <2>4. j \in 1 .. K \/ (p \in 1 .. N /\ K + p = j)
    BY <1>5
  <2>5. k \in 1 .. K \/ (q \in 1 .. N /\ K + q = k)
    BY <1>5
  <2>6. K + p = j /\ K + q = k => p # q
    OBVIOUS
  <2> HIDE DEF p, q
  <2> QED
    BY <2>1, <2>2, <2>3, <2>4, <2>5, <2>6
<1>12. MergedMoves(a, c) = moves
  BY DEF MergedMoves, moves, moved, new, s
<1> QED
  BY <1>5, <1>8, <1>9, <1>10, <1>11, <1>12

\* The modifications that merge makes are a set of indices.
LEMMA MergedModIsIndexSet ==
    ASSUME NEW a, IsChange(a), NEW c, IsChange(c)
    PROVE  MergedMod(a, c) \in IndexSet
<1> DEFINE s == UpdateMoves(a, c)
           new == Excluding(s.later, "from", a.ins)
           Shifted == ShiftForAll(EraseAll(a.mod, c.del), c.ins)
           moved == {move.to : move \in {m \in ToSet(new) : m.from \in a.mod}}
<1>a. a.mod \in IndexSet /\ c.del \in IndexSet /\ c.ins \in IndexSet
  BY ChangeFacts
<1>1. UpdatedMoves(s, a, c)
  BY UpdateMovesFacts
<1> HIDE DEF s
<1>2. s.mod \in IndexSet /\ s.later \in Seq(Move) /\ Apart(s.later)
  BY <1>1 DEF UpdatedMoves, Updated
<1>3. new \in Seq(Move)
  <2>1. KeptOf(new, s.later, "from", a.ins)
    BY <1>2, ExcludingFacts
  <2> HIDE DEF new
  <2> QED
    BY <2>1 DEF KeptOf
<1>4. Shifted \in IndexSet
  <2> DEFINE rest == a.mod \ c.del
             f == [x \in rest |-> Shift(c.ins, Unshift(c.del, x))]
  <2>1. Shifted = {f[x] : x \in rest}
    BY DEF ShiftForAll, EraseAll
  <2>2. rest \in IndexSet
    BY <1>a, IndexSetParts
  <2>3. f \in [rest -> Nat]
    BY <1>a, UnshiftFacts, ShiftFacts DEF IndexSet
  <2> HIDE DEF f, rest, Shifted
  <2> QED
    BY <2>1, <2>2, <2>3, ImageIsIndexSet
<1>5. moved \in IndexSet
  <2> DEFINE N == Len(new)
             chosen == {k \in 1 .. N : new[k].from \in a.mod}
             f == [k \in chosen |-> new[k].to]
  <2> HIDE DEF new
  <2>1. N \in Nat /\ DOMAIN new = 1 .. N /\ \A k \in 1 .. N : new[k] \in Move
    BY <1>3
  <2>2. moved = {f[k] : k \in chosen}
    BY <2>1 DEF ToSet
  <2>3. chosen \in IndexSet
    <3>1. IsFiniteSet(1 .. N)
      BY <2>1, FS_Interval
    <3>2. 1 .. N \in IndexSet
      BY <2>1, <3>1 DEF IndexSet
    <3> QED
      BY <3>2, IndexSetParts
  <2>4. f \in [chosen -> Nat]
    BY <2>1 DEF Move
  <2> HIDE DEF f, chosen, moved
  <2> QED
    BY <2>2, <2>3, <2>4, ImageIsIndexSet
<1>6. MergedMod(a, c) = Shifted \cup s.mod \cup moved
  BY DEF MergedMod, s
<1> HIDE DEF Shifted, moved
<1> QED
  BY <1>2, <1>4, <1>5, <1>6, IndexSetParts

\* m is a followed by c, as far as its sets and moves go
Composes(m, a, c) ==
    /\ m \in ChangeSet /\ m.del = MergedDel(a, c) /\ m.ins = MergedIns(a, c) /\ Apart(m.moves)
    /\ \A k \in 1 .. Len(m.moves) : \/ OfKept(a, c, m.moves[k].from, m.moves[k].to)
                                    \/ OfNew(a, c, m.moves[k].from, m.moves[k].to)
    /\ \A x, y : OfKept(a, c, x, y) \/ OfNew(a, c, x, y) =>
           \E k \in 1 .. Len(m.moves) : m.moves[k].from = x /\ m.moves[k].to = y

\* With the sets and moves of merge a change is well formed.
LEMMA ComposedIsChange ==
    ASSUME NEW a, IsChange(a), NEW c, IsChange(c), NEW m, Composes(m, a, c)
    PROVE  IsChange(m)
<1>1. /\ a.del \in IndexSet /\ a.ins \in IndexSet /\ c.del \in IndexSet /\ c.ins \in IndexSet
      /\ \A k \in 1 .. Len(a.moves) : a.moves[k].from \in a.del /\ a.moves[k].to \in a.ins
      /\ \A k \in 1 .. Len(c.moves) : /\ c.moves[k].from \in Nat /\ c.moves[k].to \in Nat
                                      /\ c.moves[k].from \in c.del /\ c.moves[k].to \in c.ins
  BY ChangeFacts
<1>2. /\ MergedDel(a, c) \in IndexSet
      /\ \A k \in Nat : k \in MergedDel(a, c) <=> k \in a.del \/ Where(a.del, a.ins, k) \in c.del
  BY <1>1, DeletedInBoth DEF MergedDel
<1>3. /\ MergedIns(a, c) \in IndexSet
      /\ \A y \in Nat : y \in MergedIns(a, c) <=> y \in c.ins \/ Where(c.ins, c.del, y) \in a.ins
  BY <1>1, InsertedInBoth DEF MergedIns
<1>5. ASSUME NEW x, NEW y, OfKept(a, c, x, y)
      PROVE  x \in MergedDel(a, c) /\ y \in MergedIns(a, c)
  <2>1. PICK k \in 1 .. Len(a.moves) : x = a.moves[k].from /\ <<a.moves[k].to, y>> \in Tracks(c)
    BY <1>5 DEF OfKept
  <2> DEFINE w == a.moves[k].to
  <2>2. x \in a.del /\ w \in a.ins /\ x \in Nat
    BY <1>1, <2>1 DEF IndexSet
  <2> HIDE DEF w
  <2>3. w \in Nat /\ y \in Nat
    BY <2>1, TracksFacts DEF w
  <2>4. \/ w \notin c.del /\ y = Where(c.del, c.ins, w)
        \/ y \in c.ins
    BY <1>1, <2>1, TracksFacts DEF w
  <2>5. w \notin c.del => Where(c.ins, c.del, Where(c.del, c.ins, w)) = w
    BY <1>1, <2>3, WhereFacts
  <2> QED
    BY <1>2, <1>3, <2>2, <2>3, <2>4, <2>5
<1>6. ASSUME NEW x, NEW y, OfNew(a, c, x, y)
      PROVE  x \in MergedDel(a, c) /\ y \in MergedIns(a, c)
  <2>1. PICK k \in 1 .. Len(c.moves) : /\ c.moves[k].from \notin a.ins /\ y = c.moves[k].to
                                       /\ x = Where(a.ins, a.del, c.moves[k].from)
    BY <1>6 DEF OfNew
  <2>2. c.moves[k].from \in c.del /\ c.moves[k].from \in Nat /\ y \in c.ins /\ y \in Nat
    BY <1>1, <2>1
  <2> DEFINE w == c.moves[k].from
  <2>3. w \in Nat /\ w \notin a.ins /\ x = Where(a.ins, a.del, w)
    BY <2>1, <2>2
  <2> HIDE DEF w
  <2>4. x \in Nat /\ Where(a.del, a.ins, x) = w
    BY <1>1, <2>3, WhereFacts
  <2> QED
    BY <1>2, <1>3, <2>2, <2>4 DEF w
<1>7. \A k \in 1 .. Len(m.moves) : /\ m.moves[k].from \in MergedDel(a, c)
                                    /\ m.moves[k].to \in MergedIns(a, c)
  BY <1>5, <1>6 DEF Composes
<1>8. MovesMatch(m)
  BY <1>7 DEF Composes, MovesMatch, Apart
<1> QED
  BY <1>8 DEF IsChange, Composes

\* With the sets and moves of merge a change leads every index to where one change
\* after the other leads it.
LEMMA ComposedTracks ==
    ASSUME NEW a, IsChange(a), NEW c, IsChange(c), NEW m, Composes(m, a, c)
    PROVE  Tracks(m) = FollowedBy(Tracks(a), Tracks(c))
<1>1. /\ a.del \in IndexSet /\ a.ins \in IndexSet /\ c.del \in IndexSet /\ c.ins \in IndexSet
      /\ \A k \in 1 .. Len(c.moves) : c.moves[k].from \in Nat /\ c.moves[k].from \in c.del
  BY ChangeFacts
<1>2. /\ m.del = AddShiftedBy(a.del, a.ins, c.del)
      /\ m.ins = InsertAll(EraseAll(a.ins, c.del), c.ins)
  BY DEF Composes, MergedDel, MergedIns
<1>3. \A x \in Nat : x \in m.del <=> x \in a.del \/ Where(a.del, a.ins, x) \in c.del
  BY <1>1, <1>2, DeletedInBoth
<1>4. IsChange(m)
  BY ComposedIsChange
<1>5. /\ \A k \in 1 .. Len(m.moves) : \/ OfKept(a, c, m.moves[k].from, m.moves[k].to)
                                      \/ OfNew(a, c, m.moves[k].from, m.moves[k].to)
      /\ \A x, y : OfKept(a, c, x, y) \/ OfNew(a, c, x, y) =>
             \E k \in 1 .. Len(m.moves) : m.moves[k].from = x /\ m.moves[k].to = y
  BY DEF Composes
\* the pairs of the result, by how the row got there
<1>6. \A x, y : <<x, y>> \in Tracks(m)
          <=> \/ x \in Nat /\ x \notin m.del /\ y = Where(m.del, m.ins, x)
              \/ OfKept(a, c, x, y) \/ OfNew(a, c, x, y)
  <2> SUFFICES ASSUME NEW x, NEW y
               PROVE  <<x, y>> \in Tracks(m)
                        <=> \/ x \in Nat /\ x \notin m.del /\ y = Where(m.del, m.ins, x)
                            \/ OfKept(a, c, x, y) \/ OfNew(a, c, x, y)
    OBVIOUS
  <2>1. <<x, y>> \in Tracks(m)
          <=> \/ x \in Nat /\ x \notin m.del /\ y = Where(m.del, m.ins, x)
              \/ \E k \in 1 .. Len(m.moves) : x = m.moves[k].from /\ y = m.moves[k].to
    BY <1>4, TracksFacts
  <2>2. OfKept(a, c, x, y) \/ OfNew(a, c, x, y)
          <=> \E k \in 1 .. Len(m.moves) : x = m.moves[k].from /\ y = m.moves[k].to
    BY <1>5
  <2> QED
    BY <2>1, <2>2
<1>7. ASSUME NEW x, NEW y, <<x, y>> \in Tracks(m)
      PROVE  \E w \in Nat : <<x, w>> \in Tracks(a) /\ <<w, y>> \in Tracks(c)
  <2>1. CASE x \in Nat /\ x \notin m.del /\ y = Where(m.del, m.ins, x)
    <3> DEFINE w == Where(a.del, a.ins, x)
    <3>1. x \notin a.del /\ w \notin c.del
      BY <1>3, <2>1
    <3>2. w \in Nat
      BY <1>1, <2>1, <3>1, WhereFacts
    <3>3. y = Where(c.del, c.ins, w)
      BY <1>1, <1>2, <2>1, <3>1, WhereInBoth
    <3>4. <<x, w>> \in Tracks(a)
      BY <2>1, <3>1, TracksFacts
    <3> HIDE DEF w
    <3>5. <<w, y>> \in Tracks(c)
      BY <3>1, <3>2, <3>3, TracksFacts
    <3> QED
      BY <3>2, <3>4, <3>5
  <2>2. CASE OfKept(a, c, x, y)
    <3>1. PICK k \in 1 .. Len(a.moves) : x = a.moves[k].from /\ <<a.moves[k].to, y>> \in Tracks(c)
      BY <2>2 DEF OfKept
    <3>2. <<x, a.moves[k].to>> \in Tracks(a) /\ a.moves[k].to \in Nat
      BY <3>1, TracksFacts
    <3> QED
      BY <3>1, <3>2
  <2>3. CASE OfNew(a, c, x, y)
    <3>1. PICK k \in 1 .. Len(c.moves) : /\ c.moves[k].from \notin a.ins /\ y = c.moves[k].to
                                         /\ x = Where(a.ins, a.del, c.moves[k].from)
      BY <2>3 DEF OfNew
    <3> DEFINE w == c.moves[k].from
    <3>2. w \in Nat /\ <<w, y>> \in Tracks(c)
      BY <1>1, <3>1, TracksFacts
    <3>3. w \notin a.ins /\ x = Where(a.ins, a.del, w)
      BY <3>1
    <3> HIDE DEF w
    <3>4. x \in Nat /\ x \notin a.del /\ Where(a.del, a.ins, x) = w
      BY <1>1, <3>2, <3>3, WhereFacts
    <3>5. <<x, w>> \in Tracks(a)
      BY <3>4, TracksFacts
    <3> QED
      BY <3>2, <3>5
  <2> QED
    BY <1>6, <1>7, <2>1, <2>2, <2>3
<1>8. ASSUME NEW x, NEW y, NEW w \in Nat, <<x, w>> \in Tracks(a), <<w, y>> \in Tracks(c)
      PROVE  <<x, y>> \in Tracks(m)
  <2>1. \/ x \in Nat /\ x \notin a.del /\ w = Where(a.del, a.ins, x)
        \/ \E k \in 1 .. Len(a.moves) : x = a.moves[k].from /\ w = a.moves[k].to
    BY <1>8, TracksFacts
  <2>2. \/ w \notin c.del /\ y = Where(c.del, c.ins, w)
        \/ \E k \in 1 .. Len(c.moves) : w = c.moves[k].from /\ y = c.moves[k].to
    BY <1>8, TracksFacts
  <2>3. CASE \E k \in 1 .. Len(a.moves) : x = a.moves[k].from /\ w = a.moves[k].to
    <3>1. OfKept(a, c, x, y)
      BY <1>8, <2>3 DEF OfKept
    <3> QED
      BY <1>6, <3>1
  <2>4. CASE x \in Nat /\ x \notin a.del /\ w = Where(a.del, a.ins, x)
    <3>1. w \notin a.ins /\ x = Where(a.ins, a.del, w)
      BY <1>1, <2>4, WhereFacts
    <3>2. CASE w \notin c.del /\ y = Where(c.del, c.ins, w)
      <4>1. x \notin m.del
        BY <1>3, <2>4, <3>2
      <4>2. y = Where(m.del, m.ins, x)
        BY <1>1, <1>2, <2>4, <3>2, WhereInBoth
      <4> QED
        BY <1>6, <2>4, <4>1, <4>2
    <3>3. CASE \E k \in 1 .. Len(c.moves) : w = c.moves[k].from /\ y = c.moves[k].to
      <4>1. OfNew(a, c, x, y)
        BY <3>1, <3>3 DEF OfNew
      <4> QED
        BY <1>6, <4>1
    <3> QED
      BY <2>2, <3>2, <3>3
  <2> QED
    BY <2>1, <2>3, <2>4
<1>9. Tracks(m) \subseteq FollowedBy(Tracks(a), Tracks(c))
  <2> SUFFICES ASSUME NEW p \in Tracks(m) PROVE p \in FollowedBy(Tracks(a), Tracks(c))
    OBVIOUS
  <2>1. p = <<p[1], p[2]>>
    BY <1>4, TracksFacts
  <2>2. p[1] \in Nat /\ p[2] \in Nat
    BY <1>4, <2>1, TracksFacts
  <2>3. <<p[1], p[2]>> \in Tracks(m)
    BY <2>1
  <2>4. \E w \in Nat : <<p[1], w>> \in Tracks(a) /\ <<w, p[2]>> \in Tracks(c)
    BY <1>7, <2>3
  <2>5. p \in Nat \X Nat
    BY <2>1, <2>2
  <2> QED
    BY <2>4, <2>5 DEF FollowedBy
<1>10. FollowedBy(Tracks(a), Tracks(c)) \subseteq Tracks(m)
  <2> SUFFICES ASSUME NEW p \in FollowedBy(Tracks(a), Tracks(c)) PROVE p \in Tracks(m)
    OBVIOUS
  <2>1. /\ p = <<p[1], p[2]>>
        /\ \E w \in Nat : <<p[1], w>> \in Tracks(a) /\ <<w, p[2]>> \in Tracks(c)
    BY DEF FollowedBy
  <2>2. <<p[1], p[2]>> \in Tracks(m)
    BY <1>8, <2>1
  <2> QED
    BY <2>1, <2>2
<1> QED
  BY <1>9, <1>10

\* So it continues the one by the other.
LEMMA ComposedContinues ==
    ASSUME NEW a, IsChange(a), NEW c, IsChange(c), NEW m, Composes(m, a, c)
    PROVE  Continues(m, a, c)
BY ComposedIsChange, ComposedTracks DEF Composes, Continues

\* what merge passes to clean_up_stale_moves
Joined(a, c) == [Empty EXCEPT !.del = MergedDel(a, c), !.ins = MergedIns(a, c),
                              !.moves = MergedMoves(a, c)]

\* What merge passes to clean_up_stale_moves is such a change.
LEMMA JoinedComposes ==
    ASSUME NEW a, IsChange(a), NEW c, IsChange(c)
    PROVE  Composes(Joined(a, c), a, c)
<1> DEFINE m == Joined(a, c)
           moves == MergedMoves(a, c)
<1>1. /\ a.del \in IndexSet /\ a.ins \in IndexSet /\ c.del \in IndexSet /\ c.ins \in IndexSet
  BY ChangeFacts
<1>2. MergedDel(a, c) \in IndexSet
  BY <1>1, DeletedInBoth DEF MergedDel
<1>3. MergedIns(a, c) \in IndexSet
  BY <1>1, InsertedInBoth DEF MergedIns
<1>4. /\ moves \in Seq(Move) /\ Apart(moves)
      /\ \A k \in 1 .. Len(moves) : \/ OfKept(a, c, moves[k].from, moves[k].to)
                                    \/ OfNew(a, c, moves[k].from, moves[k].to)
      /\ \A x, y : OfKept(a, c, x, y) \/ OfNew(a, c, x, y) =>
             \E k \in 1 .. Len(moves) : moves[k].from = x /\ moves[k].to = y
  BY MergedMovesFacts
<1> HIDE DEF moves
<1>5. /\ m \in ChangeSet /\ m.del = MergedDel(a, c) /\ m.ins = MergedIns(a, c)
      /\ m.moves = moves
  <2> DEFINE none == <<>>
  <2>1. {} \in IndexSet /\ none \in [{} -> Nat] /\ none \in Seq(Move)
    BY FS_EmptySet DEF IndexSet
  <2> HIDE DEF none
  <2> DEFINE nothing == [del |-> {}, ins |-> {}, mod |-> {}, moves |-> none, mapping |-> none]
  <2>2. nothing \in ChangeSet
    BY <2>1 DEF ChangeSet
  <2>3. m = [nothing EXCEPT !.del = MergedDel(a, c), !.ins = MergedIns(a, c), !.moves = moves]
    BY DEF Joined, Empty, none, moves
  <2> HIDE DEF m, nothing
  <2> QED
    BY <1>2, <1>3, <1>4, <2>2, <2>3 DEF ChangeSet
<1> HIDE DEF m
<1>6. Composes(m, a, c)
  BY <1>4, <1>5 DEF Composes
<1> QED
  BY <1>6 DEF m

\* An empty change leads every index to itself.
LEMMA TracksOfEmpty ==
    ASSUME NEW c, IsChange(c), IsEmpty(c)
    PROVE  Tracks(c) = {<<k, k>> : k \in Nat}
<1>1. {} \in IndexSet
  BY FS_EmptySet DEF IndexSet
<1>2. c.del = {} /\ c.ins = {} /\ Len(c.moves) = 0
  BY DEF IsEmpty
<1>3. \A k \in Nat : Where(c.del, c.ins, k) = k
  BY <1>1, <1>2, ShiftUnshift DEF Where
<1> QED
  BY <1>2, <1>3 DEF Tracks, Stays, Moves

\* nothing before or after changes nothing
LEMMA FollowedByIdentity ==
    ASSUME NEW R, \A p \in R : p = <<p[1], p[2]>> /\ p[1] \in Nat /\ p[2] \in Nat,
           NEW S, S = {<<k, k>> : k \in Nat}
    PROVE  FollowedBy(R, S) = R /\ FollowedBy(S, R) = R
<1>1. \A x, y : <<x, y>> \in S <=> x \in Nat /\ y = x
  OBVIOUS
<1>2. ASSUME NEW p \in Nat \X Nat
      PROVE  /\ (\E w \in Nat : <<p[1], w>> \in R /\ <<w, p[2]>> \in S) <=> p \in R
             /\ (\E w \in Nat : <<p[1], w>> \in S /\ <<w, p[2]>> \in R) <=> p \in R
  <2>1. p = <<p[1], p[2]>> /\ p[1] \in Nat /\ p[2] \in Nat
    OBVIOUS
  <2> QED
    BY <1>1, <2>1
<1>3. R \subseteq Nat \X Nat
  <2> SUFFICES ASSUME NEW p \in R PROVE p \in Nat \X Nat
    OBVIOUS
  <2>1. p = <<p[1], p[2]>> /\ p[1] \in Nat /\ p[2] \in Nat
    OBVIOUS
  <2> QED
    BY <2>1
<1> QED
  BY <1>2, <1>3 DEF FollowedBy

\* shift and unshift by no index and by one.
LEMMA OfOneIndex ==
    ASSUME NEW i \in Nat
    PROVE  /\ {} \in IndexSet /\ {i} \in IndexSet
           /\ \A k \in Nat : /\ Unshift({}, k) = k /\ Shift({}, k) = k
                             /\ Unshift({i}, k) = IF k > i THEN k - 1 ELSE k
                             /\ Shift({i}, k) = IF k >= i THEN k + 1 ELSE k
<1>1. {} \in IndexSet /\ {i} \in IndexSet
  BY FS_EmptySet, FS_Singleton DEF IndexSet
<1>2. ASSUME NEW k \in Nat
      PROVE  Unshift({}, k) = k /\ Unshift({i}, k) = IF k > i THEN k - 1 ELSE k
  <2>1. {x \in {} : x < k} = {}
    OBVIOUS
  <2>2. {x \in {i} : x < k} = IF k > i THEN {i} ELSE {}
    OBVIOUS
  <2>3. Cardinality({}) = 0 /\ Cardinality({i}) = 1
    BY FS_EmptySet, FS_Singleton
  <2> QED
    BY <2>1, <2>2, <2>3 DEF Unshift, CountBelow
<1>3. ASSUME NEW k \in Nat
      PROVE  Shift({}, k) = k /\ Shift({i}, k) = IF k >= i THEN k + 1 ELSE k
  <2>1. Shift({}, k) = k
    BY <1>1, <1>2, ShiftUnshift
  <2> DEFINE y == IF k >= i THEN k + 1 ELSE k
  <2>2. y \in Nat /\ y \notin {i} /\ (IF y > i THEN y - 1 ELSE y) = k
    OBVIOUS
  <2>3. Unshift({i}, y) = k
    <3> HIDE DEF y
    <3> QED
      BY <1>2, <2>2
  <2>4. Shift({i}, k) = y
    <3> HIDE DEF y
    <3> QED
      BY <1>1, <2>2, <2>3, ShiftUnshift
  <2> QED
    BY <2>1, <2>4
<1> QED
  BY <1>1, <1>2, <1>3

\* insert_at, erase_at and shift_for_insert_at of one index are those of many
LEMMA OneIndexAtATime ==
    ASSUME NEW s \in IndexSet, NEW d \in IndexSet, NEW i \in Nat
    PROVE  /\ EraseAll(s, {}) = s /\ InsertAll(s, {}) = s
           /\ InsertIndex(s, i) = InsertAll(s, {i}) /\ EraseIndex(s, i) = EraseAll(s, {i})
           /\ ShiftForInsert(s, i) = ShiftForAll(s, {i})
           /\ AddShiftedBy(d, s, {}) = d
<1>1. \A k \in s : k \in Nat
  BY DEF IndexSet
<1>2. \A k \in s : /\ Unshift({}, k) = k /\ Shift({}, k) = k
                   /\ Unshift({i}, k) = IF k > i THEN k - 1 ELSE k
                   /\ Shift({i}, k) = IF k >= i THEN k + 1 ELSE k
  BY <1>1, OfOneIndex
<1>3. EraseAll(s, {}) = s /\ InsertAll(s, {}) = s
  BY <1>2 DEF EraseAll, InsertAll, ShiftForAll
<1>4. ShiftForInsert(s, i) = ShiftForAll(s, {i})
  <2>1. \A k \in s : (IF k < i THEN k ELSE k + 1) = Shift({i}, k)
    BY <1>1, <1>2
  <2> QED
    BY <2>1 DEF ShiftForInsert, ShiftForAll
<1>5. EraseIndex(s, i) = EraseAll(s, {i})
  <2>1. \A k \in s \ {i} : (IF k < i THEN k ELSE k - 1) = Unshift({i}, k)
    <3> SUFFICES ASSUME NEW k \in s, k # i
                 PROVE  (IF k < i THEN k ELSE k - 1) = Unshift({i}, k)
      OBVIOUS
    <3>1. k \in Nat /\ Unshift({i}, k) = IF k > i THEN k - 1 ELSE k
      BY <1>1, <1>2
    <3> QED
      BY <3>1
  <2> QED
    BY <2>1 DEF EraseIndex, EraseAll
<1> QED
  BY <1>3, <1>4, <1>5 DEF InsertIndex, InsertAll, AddShiftedBy

\* merge: however the two changes came about, the result is well formed, leads every
\* index to where the one and then the other leads it, and deletes and inserts no more
\* than they do.
THEOREM MergeComposes ==
    ASSUME NEW a, IsChange(a), NEW c, IsChange(c)
    PROVE  Continues(Merge(a, c), a, c)
<1>s. /\ a.del \in IndexSet /\ a.ins \in IndexSet /\ a.del \subseteq Nat /\ a.ins \subseteq Nat
      /\ c.del \in IndexSet /\ c.ins \in IndexSet /\ c.del \subseteq Nat /\ c.ins \subseteq Nat
  BY ChangeFacts DEF IndexSet
<1>1. CASE IsEmpty(c)
  <2>1. Merge(a, c) = a
    BY <1>1 DEF Merge
  <2>2. FollowedBy(Tracks(a), Tracks(c)) = Tracks(a)
    <3>1. \A p \in Tracks(a) : p = <<p[1], p[2]>> /\ p[1] \in Nat /\ p[2] \in Nat
      BY TracksFacts
    <3>2. Tracks(c) = {<<k, k>> : k \in Nat}
      BY <1>1, TracksOfEmpty
    <3> QED
      BY <3>1, <3>2, FollowedByIdentity
  <2>3. c.del = {} /\ c.ins = {}
    BY <1>1 DEF IsEmpty
  <2>4. MergedDel(a, c) = a.del
    <3>1. AddShiftedBy(a.del, a.ins, {}) = a.del
      BY <1>s, OneIndexAtATime, 0 \in Nat
    <3> QED
      BY <2>3, <3>1 DEF MergedDel
  <2>5. MergedIns(a, c) = a.ins
    BY <1>s, <2>3, OneIndexAtATime, 0 \in Nat DEF MergedIns
  <2> QED
    BY <2>1, <2>2, <2>4, <2>5 DEF Continues
<1>2. CASE ~IsEmpty(c) /\ IsEmpty(a)
  <2>1. Merge(a, c) = c
    BY <1>2 DEF Merge
  <2>2. FollowedBy(Tracks(a), Tracks(c)) = Tracks(c)
    <3>1. \A p \in Tracks(c) : p = <<p[1], p[2]>> /\ p[1] \in Nat /\ p[2] \in Nat
      BY TracksFacts
    <3>2. Tracks(a) = {<<k, k>> : k \in Nat}
      BY <1>2, TracksOfEmpty
    <3> QED
      BY <3>1, <3>2, FollowedByIdentity
  <2>3. a.del = {} /\ a.ins = {} /\ \A k \in Nat : Where({}, {}, k) = k
    BY <1>2, OfOneIndex DEF IsEmpty, Where
  <2>4. c.del \subseteq MergedDel(a, c)
    BY <1>s, <2>3, DeletedInBoth DEF MergedDel
  <2>5. c.ins \subseteq MergedIns(a, c)
    BY <1>s, InsertedInBoth DEF MergedIns
  <2> QED
    BY <2>1, <2>2, <2>4, <2>5 DEF Continues
<1>3. CASE ~IsEmpty(c) /\ ~IsEmpty(a)
  <2> DEFINE d == CleanUp(Joined(a, c))
             e == [d EXCEPT !.mod = MergedMod(a, c)]
  <2>1. Merge(a, c) = e
    BY <1>3 DEF Merge, Joined
  <2>2. IsChange(d) /\ Tracks(d) = Tracks(Joined(a, c))
    BY JoinedComposes, ComposedIsChange, CleanUpKeepsTracks
  <2>a. d.del \subseteq MergedDel(a, c) /\ d.ins \subseteq MergedIns(a, c)
    <3>1. IsChange(Joined(a, c))
      BY JoinedComposes, ComposedIsChange
    <3>2. d.del \subseteq Joined(a, c).del /\ d.ins \subseteq Joined(a, c).ins
      BY <3>1, CleanUpKeepsTracks
    <3> QED
      BY <3>2, JoinedComposes DEF Composes
  <2> HIDE DEF d
  <2>3. d \in ChangeSet
    BY <2>2 DEF IsChange
  <2>4. /\ e = [del |-> d.del, ins |-> d.ins, mod |-> MergedMod(a, c), moves |-> d.moves,
                mapping |-> d.mapping]
    BY <2>3 DEF ChangeSet
  <2>5. e \in ChangeSet
    BY <2>3, <2>4, MergedModIsIndexSet DEF ChangeSet
  <2>6. e.del = d.del /\ e.ins = d.ins /\ e.moves = d.moves
    BY <2>4
  <2> HIDE DEF e
  <2>7. MovesMatch(e)
    BY <2>2, <2>6 DEF IsChange, MovesMatch
  <2>8. Tracks(e) = Tracks(d)
    BY <2>6 DEF Tracks, Stays
  <2> QED
    BY <2>1, <2>2, <2>a, <2>5, <2>6, <2>7, <2>8, JoinedComposes, ComposedTracks
       DEF IsChange, Continues
<1> QED
  BY <1>1, <1>2, <1>3

\* The sets that the operations on one index make are sets of indices.
LEMMA StillIndexSets ==
    ASSUME NEW s \in IndexSet, NEW i \in Nat
    PROVE  InsertIndex(s, i) \in IndexSet /\ EraseIndex(s, i) \in IndexSet
           /\ ShiftForInsert(s, i) \in IndexSet
<1>1. \A k \in s : k \in Nat
  BY DEF IndexSet
<1>2. ShiftForInsert(s, i) \in IndexSet
  <2> DEFINE f == [x \in s |-> IF x < i THEN x ELSE x + 1]
  <2>1. f \in [s -> Nat]
    BY <1>1
  <2>2. ShiftForInsert(s, i) = {f[x] : x \in s}
    BY DEF ShiftForInsert
  <2> HIDE DEF f
  <2> QED
    BY <2>1, <2>2, ImageIsIndexSet
<1>3. EraseIndex(s, i) \in IndexSet
  <2> DEFINE rest == s \ {i}
             f == [x \in rest |-> IF x < i THEN x ELSE x - 1]
  <2>1. rest \in IndexSet
    BY IndexSetParts
  <2>2. f \in [rest -> Nat]
    BY <1>1
  <2>3. EraseIndex(s, i) = {f[x] : x \in rest}
    BY DEF EraseIndex
  <2> HIDE DEF f, rest
  <2> QED
    BY <2>1, <2>2, <2>3, ImageIsIndexSet
<1>4. {i} \in IndexSet
  BY OfOneIndex
<1> QED
  BY <1>2, <1>3, <1>4, IndexSetParts DEF InsertIndex

-----------------------------------------------------------------------------
\* One instruction: insert, erase and move

\* one row inserted, erased, and moved
Inserted(i) == [Empty EXCEPT !.ins = {i}]
Erased(i) == [Empty EXCEPT !.del = {i}]
Moved(from, to) ==
    [Empty EXCEPT !.del = {from}, !.ins = {to}, !.moves = <<[from |-> from, to |-> to]>>]

\* These are changes.
LEMMA OneStepFacts ==
    ASSUME NEW i \in Nat, NEW j \in Nat
    PROVE  /\ IsChange(Inserted(i)) /\ Inserted(i).del = {} /\ Inserted(i).ins = {i}
           /\ Len(Inserted(i).moves) = 0
           /\ IsChange(Erased(i)) /\ Erased(i).del = {i} /\ Erased(i).ins = {}
           /\ Len(Erased(i).moves) = 0
           /\ IsChange(Moved(i, j)) /\ Moved(i, j).del = {i} /\ Moved(i, j).ins = {j}
           /\ Len(Moved(i, j).moves) = 1 /\ Moved(i, j).moves[1] = [from |-> i, to |-> j]
<1> DEFINE none == <<>>
           move == <<[from |-> i, to |-> j]>>
<1>1. /\ {} \in IndexSet /\ {i} \in IndexSet /\ {j} \in IndexSet
      /\ none \in [{} -> Nat] /\ none \in Seq(Move) /\ Len(none) = 0
  <2>1. {} \in IndexSet /\ {i} \in IndexSet /\ {j} \in IndexSet
    BY OfOneIndex
  <2>2. none \in [{} -> Nat]
    OBVIOUS
  <2>3. none \in Seq(Move) /\ Len(none) = 0
    OBVIOUS
  <2> QED
    BY <2>1, <2>2, <2>3
<1>2. move \in Seq(Move) /\ Len(move) = 1 /\ move[1] = [from |-> i, to |-> j]
  BY DEF Move
<1> HIDE DEF none, move
<1> DEFINE nothing == [del |-> {}, ins |-> {}, mod |-> {}, moves |-> none, mapping |-> none]
<1>3. nothing \in ChangeSet /\ Empty = nothing /\ nothing.moves = none
  BY <1>1 DEF ChangeSet, Empty, none
<1>a. nothing.del = {} /\ nothing.ins = {}
  OBVIOUS
<1> HIDE DEF nothing
<1>4. /\ Inserted(i) \in ChangeSet /\ Inserted(i).del = {} /\ Inserted(i).ins = {i}
      /\ Inserted(i).moves = none
  BY <1>1, <1>3, <1>a DEF Inserted, ChangeSet
<1>5. /\ Erased(i) \in ChangeSet /\ Erased(i).del = {i} /\ Erased(i).ins = {}
      /\ Erased(i).moves = none
  BY <1>1, <1>3, <1>a DEF Erased, ChangeSet
<1>6. /\ Moved(i, j) \in ChangeSet /\ Moved(i, j).del = {i} /\ Moved(i, j).ins = {j}
      /\ Moved(i, j).moves = move
  BY <1>1, <1>2, <1>3, <1>a DEF Moved, ChangeSet, move
<1>7. MovesMatch(Inserted(i)) /\ MovesMatch(Erased(i))
  BY <1>1, <1>4, <1>5 DEF MovesMatch
<1>8. MovesMatch(Moved(i, j))
  <2>1. \A k, l \in 1 .. Len(move) : k = 1 /\ l = 1
    BY <1>2
  <2>2. move[1].from = i /\ move[1].to = j
    BY <1>2
  <2> QED
    BY <1>6, <2>1, <2>2 DEF MovesMatch
<1> QED
  BY <1>1, <1>2, <1>4, <1>5, <1>6, <1>7, <1>8 DEF IsChange

\* by a shift, or by a move
IsTracked(c, x, y) ==
    \/ x \in Nat /\ x \notin c.del /\ y = Where(c.del, c.ins, x)
    \/ \E k \in 1 .. Len(c.moves) : x = c.moves[k].from /\ y = c.moves[k].to

\* The indices that a change leads to one another, one pair at a time.
LEMMA TracksOf ==
    ASSUME NEW c, IsChange(c), NEW x, NEW y
    PROVE  <<x, y>> \in Tracks(c) <=> IsTracked(c, x, y)
  BY TracksFacts DEF IsTracked

\* moves whose destinations shift, and stay different
Shifted(new, moves, p) ==
    /\ new \in Seq(Move) /\ Len(new) = Len(moves) /\ Apart(new)
    /\ \A k \in 1 .. Len(moves) : new[k].from = moves[k].from /\ new[k].to = p[k]

\* Moves stay apart when their destinations are shifted.
LEMMA ShiftedMoves ==
    ASSUME NEW moves \in Seq(Move), Apart(moves), NEW p \in [1 .. Len(moves) -> Nat],
           \A j, k \in 1 .. Len(moves) : p[j] = p[k] => moves[j].to = moves[k].to,
           NEW new, new = [k \in 1 .. Len(moves) |-> [moves[k] EXCEPT !.to = p[k]]]
    PROVE  Shifted(new, moves, p)
<1> DEFINE N == Len(moves)
<1>1. N \in Nat /\ \A k \in 1 .. N : moves[k] \in Move
  OBVIOUS
<1>2. ASSUME NEW k \in 1 .. N
      PROVE  new[k] \in Move /\ new[k].from = moves[k].from /\ new[k].to = p[k]
  <2>1. new[k] = [moves[k] EXCEPT !.to = p[k]] /\ p[k] \in Nat
    OBVIOUS
  <2>2. moves[k] \in Move
    BY <1>1
  <2> QED
    BY <2>1, <2>2 DEF Move
<1>3. \A j, k \in 1 .. N : j # k => moves[j].from # moves[k].from /\ moves[j].to # moves[k].to
  BY DEF Apart
<1>4. \A j, k \in 1 .. N : p[j] = p[k] => moves[j].to = moves[k].to
  OBVIOUS
<1>a. DOMAIN new = 1 .. N /\ new = [k \in 1 .. N |-> new[k]]
  OBVIOUS
<1> HIDE DEF N
<1>5. new \in [1 .. N -> Move]
  BY <1>2, <1>a
<1>6. new \in Seq(Move) /\ Len(new) = N
  BY <1>1, <1>5
<1>7. Apart(new)
  BY <1>2, <1>3, <1>4, <1>6 DEF Apart
<1> QED
  BY <1>2, <1>6, <1>7 DEF Shifted, N

\* Where one insertion, one deletion and one move lead an index.
LEMMA TracksOfOneStep ==
    ASSUME NEW i \in Nat, NEW j \in Nat
    PROVE  /\ \A w, y : <<w, y>> \in Tracks(Inserted(i))
                          <=> w \in Nat /\ y = IF w >= i THEN w + 1 ELSE w
           /\ \A w, y : <<w, y>> \in Tracks(Erased(i))
                          <=> w \in Nat /\ w # i /\ y = IF w > i THEN w - 1 ELSE w
           /\ \A w, y : <<w, y>> \in Tracks(Moved(i, j)) <=> w \in Nat /\ y = Passed(w, i, j)
<1>1. ASSUME NEW w, NEW y
      PROVE  <<w, y>> \in Tracks(Inserted(i)) <=> w \in Nat /\ y = IF w >= i THEN w + 1 ELSE w
  <2>1. <<w, y>> \in Tracks(Inserted(i)) <=> w \in Nat /\ y = Where({}, {i}, w)
    <3>1. /\ IsChange(Inserted(i)) /\ Inserted(i).del = {} /\ Inserted(i).ins = {i}
          /\ Len(Inserted(i).moves) = 0
      BY OneStepFacts
    <3>2. <<w, y>> \in Tracks(Inserted(i)) <=> IsTracked(Inserted(i), w, y)
      BY <3>1, TracksOf
    <3> QED
      BY <3>1, <3>2 DEF IsTracked
  <2>2. w \in Nat => Where({}, {i}, w) = IF w >= i THEN w + 1 ELSE w
    BY OfOneIndex DEF Where
  <2> QED
    BY <2>1, <2>2
<1>2. ASSUME NEW w, NEW y
      PROVE  <<w, y>> \in Tracks(Erased(i))
               <=> w \in Nat /\ w # i /\ y = IF w > i THEN w - 1 ELSE w
  <2>1. <<w, y>> \in Tracks(Erased(i)) <=> w \in Nat /\ w # i /\ y = Where({i}, {}, w)
    <3>1. /\ IsChange(Erased(i)) /\ Erased(i).del = {i} /\ Erased(i).ins = {}
          /\ Len(Erased(i).moves) = 0
      BY OneStepFacts
    <3>2. <<w, y>> \in Tracks(Erased(i)) <=> IsTracked(Erased(i), w, y)
      BY <3>1, TracksOf
    <3> QED
      BY <3>1, <3>2 DEF IsTracked
  <2>2. w \in Nat /\ w # i => Where({i}, {}, w) = IF w > i THEN w - 1 ELSE w
    <3> SUFFICES ASSUME w \in Nat, w # i
                 PROVE  Where({i}, {}, w) = IF w > i THEN w - 1 ELSE w
      OBVIOUS
    <3> DEFINE v == IF w > i THEN w - 1 ELSE w
    <3>1. v \in Nat
      OBVIOUS
    <3>2. Unshift({i}, w) = v
      BY OfOneIndex
    <3> HIDE DEF v
    <3>3. Shift({}, v) = v
      BY <3>1, OfOneIndex
    <3> QED
      BY <3>2, <3>3 DEF Where, v
  <2> QED
    BY <2>1, <2>2
<1>3. ASSUME NEW w, NEW y
      PROVE  <<w, y>> \in Tracks(Moved(i, j)) <=> w \in Nat /\ y = Passed(w, i, j)
  <2>1. <<w, y>> \in Tracks(Moved(i, j))
          <=> w \in Nat /\ y = IF w = i THEN j ELSE Where({i}, {j}, w)
    <3>1. /\ IsChange(Moved(i, j)) /\ Moved(i, j).del = {i} /\ Moved(i, j).ins = {j}
          /\ Len(Moved(i, j).moves) = 1 /\ Moved(i, j).moves[1] = [from |-> i, to |-> j]
      BY OneStepFacts
    <3>2. <<w, y>> \in Tracks(Moved(i, j)) <=> IsTracked(Moved(i, j), w, y)
      BY <3>1, TracksOf
    <3> HIDE DEF Moved
    <3>3. (\E k \in 1 .. Len(Moved(i, j).moves) :
                w = Moved(i, j).moves[k].from /\ y = Moved(i, j).moves[k].to)
            <=> w = i /\ y = j
      BY <3>1
    <3> QED
      BY <3>1, <3>2, <3>3 DEF IsTracked
  <2>2. w \in Nat /\ w # i => Where({i}, {j}, w) = Passed(w, i, j)
    <3> SUFFICES ASSUME w \in Nat, w # i
                 PROVE  Where({i}, {j}, w) = Passed(w, i, j)
      OBVIOUS
    <3> DEFINE v == IF w > i THEN w - 1 ELSE w
    <3>1. v \in Nat
      OBVIOUS
    <3>2. Unshift({i}, w) = v
      BY OfOneIndex
    <3>3. Passed(w, i, j) = IF v >= j THEN v + 1 ELSE v
      BY DEF Passed
    <3> HIDE DEF v
    <3>4. Shift({j}, v) = IF v >= j THEN v + 1 ELSE v
      BY <3>1, OfOneIndex
    <3> QED
      BY <3>2, <3>3, <3>4 DEF Where
  <2>3. Passed(i, i, j) = j
    BY DEF Passed
  <2> QED
    BY <2>1, <2>2, <2>3
<1> QED
  BY <1>1, <1>2, <1>3

\* insert continues what was recorded by the insertion of one row.
THEOREM InsertComposes ==
    ASSUME NEW c, IsChange(c), NEW i \in Nat
    PROVE  Continues(Insert(c, i), c, Inserted(i))
<1> DEFINE m == Insert(c, i)
           one == Inserted(i)
           Up(k) == IF k >= i THEN k + 1 ELSE k
           Back(k) == IF k > i THEN k - 1 ELSE k
           N == Len(c.moves)
           moves == [k \in DOMAIN c.moves |-> [c.moves[k] EXCEPT !.to = Up(@)]]
           mapping == [k \in {Up(n) : n \in DOMAIN c.mapping} |-> c.mapping[Back(k)]]
<1>1. /\ c \in ChangeSet /\ c.del \in IndexSet /\ c.ins \in IndexSet /\ c.mod \in IndexSet
      /\ c.moves \in Seq(Move) /\ Apart(c.moves) /\ N \in Nat
      /\ \A k \in 1 .. N : c.moves[k] \in Move /\ c.moves[k].from \in Nat /\ c.moves[k].to \in Nat
  BY ChangeFacts
<1>2. m = [c EXCEPT !.mod = ShiftForInsert(@, i), !.ins = InsertIndex(@, i), !.moves = moves,
                    !.mapping = mapping]
  BY DEF Insert, Retarget
<1>3. IsChange(one) /\ one.del = {} /\ one.ins = {i} /\ Len(one.moves) = 0
  BY OneStepFacts
<1>4. \A w, y : <<w, y>> \in Tracks(one) <=> w \in Nat /\ y = Up(w)
  BY TracksOfOneStep
<1>5. /\ moves \in Seq(Move) /\ Len(moves) = N /\ Apart(moves)
      /\ \A k \in 1 .. N : moves[k].from = c.moves[k].from /\ moves[k].to = Up(c.moves[k].to)
  <2> DEFINE p == [k \in 1 .. N |-> Up(c.moves[k].to)]
  <2>1. moves = [k \in 1 .. N |-> [c.moves[k] EXCEPT !.to = p[k]]]
    <3>1. DOMAIN c.moves = 1 .. N
      BY <1>1
    <3> HIDE DEF N
    <3> QED
      BY <3>1
  <2>2. p \in [1 .. N -> Nat]
    BY <1>1
  <2>3. \A j, k \in 1 .. N : p[j] = p[k] => c.moves[j].to = c.moves[k].to
    BY SMTT(30), <1>1
  <2>4. \A k \in 1 .. N : p[k] = Up(c.moves[k].to)
    OBVIOUS
  <2> HIDE DEF p, moves, Up
  <2>5. Shifted(moves, c.moves, p)
    BY <1>1, <2>1, <2>2, <2>3, ShiftedMoves
  <2> QED
    BY <2>4, <2>5 DEF Shifted
<1>6. mapping \in UNION {[s -> Nat] : s \in IndexSet}
  <2>1. PICK s \in IndexSet : c.mapping \in [s -> Nat]
    BY <1>1 DEF ChangeSet
  <2>2. \A k \in s : k \in Nat
    BY DEF IndexSet
  <2> DEFINE f == [k \in s |-> Up(k)]
             shifted == {f[k] : k \in s}
  <2>3. f \in [s -> Nat]
    BY <2>2
  <2>4. shifted \in IndexSet
    <3> HIDE DEF f
    <3> QED
      BY <2>3, ImageIsIndexSet
  <2>5. {Up(n) : n \in DOMAIN c.mapping} = shifted
    BY <2>1
  <2>6. \A k \in shifted : Back(k) \in s
    BY <2>2
  <2>7. mapping \in [shifted -> Nat]
    BY <2>1, <2>5, <2>6
  <2> HIDE DEF shifted, mapping
  <2> QED
    BY <2>4, <2>7
<1> HIDE DEF moves, mapping, m, one
<1>7. /\ m \in ChangeSet /\ m.del = c.del /\ m.ins = InsertIndex(c.ins, i) /\ m.moves = moves
  BY <1>1, <1>2, <1>5, <1>6, StillIndexSets DEF ChangeSet
<1>8. m.del = MergedDel(c, one) /\ m.ins = MergedIns(c, one)
  <2>1. /\ EraseAll(c.ins, {}) = c.ins /\ InsertIndex(c.ins, i) = InsertAll(c.ins, {i})
        /\ AddShiftedBy(c.del, c.ins, {}) = c.del
    BY <1>1, OneIndexAtATime
  <2> QED
    BY <1>3, <1>7, <2>1 DEF MergedDel, MergedIns
<1>9. \A k \in 1 .. N : OfKept(c, one, moves[k].from, moves[k].to)
  BY <1>1, <1>4, <1>5 DEF OfKept
<1>10. \A x, y : ~OfNew(c, one, x, y)
  BY <1>3 DEF OfNew
<1>11. ASSUME NEW x, NEW y, OfKept(c, one, x, y)
       PROVE  \E k \in 1 .. N : moves[k].from = x /\ moves[k].to = y
  <2>1. PICK k \in 1 .. N : x = c.moves[k].from /\ <<c.moves[k].to, y>> \in Tracks(one)
    BY <1>11 DEF OfKept
  <2> QED
    BY <1>4, <1>5, <2>1
<1>13. Composes(m, c, one)
  BY <1>5, <1>7, <1>8, <1>9, <1>10, <1>11 DEF Composes
<1> QED
  BY <1>3, <1>13, ComposedContinues DEF m, one

\* add_shifted_by of one index.
LEMMA OneDeleted ==
    ASSUME NEW s \in IndexSet, NEW d \in IndexSet, NEW i \in Nat
    PROVE  /\ i \in s => AddShiftedBy(d, s, {i}) = d
           /\ i \notin s => AddShiftedBy(d, s, {i}) = d \cup {Where(s, d, i)}
  BY DEF AddShiftedBy, Where

\* erase_at of one index.
LEMMA OneErased ==
    ASSUME NEW s \in IndexSet, NEW i \in Nat
    PROVE  EraseIndex(s, i) = EraseAll(s, {i}) /\ EraseIndex(s, i) \in IndexSet
  BY OneIndexAtATime, StillIndexSets

\* erase continues what was recorded by the deletion of one row, inserted and moved
\* rows included.
THEOREM EraseComposes ==
    ASSUME NEW c, IsChange(c), NEW i \in Nat
    PROVE  Continues(Erase(c, i), c, Erased(i))
<1> DEFINE m == Erase(c, i)
           one == Erased(i)
           Down(k) == IF k > i THEN k - 1 ELSE k
           left == Excluding(c.moves, "to", {i})
           N == Len(left)
           moves == [k \in DOMAIN left |-> [left[k] EXCEPT !.to = Down(@)]]
           del == IF i \in c.ins THEN c.del ELSE c.del \cup {OldIndex(c, i)}
<1>1. /\ c \in ChangeSet /\ c.del \in IndexSet /\ c.ins \in IndexSet /\ c.mod \in IndexSet
      /\ c.moves \in Seq(Move) /\ Apart(c.moves)
      /\ \A k \in 1 .. Len(c.moves) : /\ c.moves[k] \in Move
                                      /\ c.moves[k].from \in Nat /\ c.moves[k].to \in Nat
  BY ChangeFacts
<1>2. m = [c EXCEPT !.mod = EraseIndex(@, i), !.ins = EraseIndex(@, i), !.del = del,
                    !.moves = moves]
  <2>1. \A k \in DOMAIN left : left[k].to > i \/ ~(left[k].to > i)
    OBVIOUS
  <2> QED
    BY DEF Erase, Retarget
<1>3. IsChange(one) /\ one.del = {i} /\ one.ins = {} /\ Len(one.moves) = 0
  BY OneStepFacts
<1>4. \A w, y : <<w, y>> \in Tracks(one) <=> w \in Nat /\ w # i /\ y = Down(w)
  BY TracksOfOneStep
<1>5. /\ left \in Seq(Move) /\ Apart(left) /\ N \in Nat
      /\ \A k \in 1 .. N : /\ left[k].to # i
                           /\ \E j \in 1 .. Len(c.moves) : left[k] = c.moves[j]
      /\ \A j \in 1 .. Len(c.moves) :
             c.moves[j].to # i => \E k \in 1 .. N : left[k] = c.moves[j]
  <2>1. KeptOf(left, c.moves, "to", {i})
    BY <1>1, ExcludingFacts
  <2> HIDE DEF left
  <2> QED
    BY <2>1 DEF KeptOf
<1> HIDE DEF left, one
<1>6. \A k \in 1 .. N : left[k].to \in Nat
  BY <1>1, <1>5
<1>7. /\ moves \in Seq(Move) /\ Len(moves) = N /\ Apart(moves)
      /\ \A k \in 1 .. N : moves[k].from = left[k].from /\ moves[k].to = Down(left[k].to)
  <2> DEFINE p == [k \in 1 .. N |-> Down(left[k].to)]
  <2>1. moves = [k \in 1 .. N |-> [left[k] EXCEPT !.to = p[k]]]
    <3>1. DOMAIN left = 1 .. N
      BY <1>5
    <3> HIDE DEF N
    <3> QED
      BY <3>1
  <2>2. p \in [1 .. N -> Nat]
    BY <1>5, <1>6
  <2>3. \A j, k \in 1 .. N : p[j] = p[k] => left[j].to = left[k].to
    BY <1>5, <1>6
  <2>4. \A k \in 1 .. N : p[k] = Down(left[k].to)
    OBVIOUS
  <2> HIDE DEF p, moves, Down
  <2>5. Shifted(moves, left, p)
    BY <1>5, <2>1, <2>2, <2>3, ShiftedMoves
  <2> QED
    BY <2>4, <2>5 DEF Shifted
<1> HIDE DEF moves, m
<1>8. OldIndex(c, i) = Where(c.ins, c.del, i)
  BY DEF OldIndex, Where
<1>9. del \in IndexSet /\ del = MergedDel(c, one)
  <2>1. AddShiftedBy(c.del, c.ins, {i}) = del
    <3>1. /\ i \in c.ins => AddShiftedBy(c.del, c.ins, {i}) = c.del
          /\ i \notin c.ins =>
                 AddShiftedBy(c.del, c.ins, {i}) = c.del \cup {Where(c.ins, c.del, i)}
      BY <1>1, OneDeleted
    <3> QED
      BY <1>8, <3>1
  <2>2. AddShiftedBy(c.del, c.ins, {i}) \in IndexSet
    BY <1>1, OfOneIndex, DeletedInBoth
  <2> QED
    BY <1>3, <2>1, <2>2 DEF MergedDel
<1> HIDE DEF del
<1>10. /\ m \in ChangeSet /\ m.del = del /\ m.ins = EraseIndex(c.ins, i) /\ m.moves = moves
  BY <1>1, <1>2, <1>7, <1>9, StillIndexSets DEF ChangeSet
<1>11. m.ins = MergedIns(c, one)
  <2>1. EraseIndex(c.ins, i) = EraseAll(c.ins, {i}) /\ EraseIndex(c.ins, i) \in IndexSet
    BY <1>1, OneIndexAtATime, StillIndexSets
  <2>2. InsertAll(EraseIndex(c.ins, i), {}) = EraseIndex(c.ins, i)
    BY <2>1, OneIndexAtATime
  <2> QED
    BY <1>3, <1>10, <2>1, <2>2 DEF MergedIns
<1>12. ASSUME NEW k \in 1 .. N
       PROVE  OfKept(c, one, moves[k].from, moves[k].to)
  <2>1. PICK j \in 1 .. Len(c.moves) : left[k] = c.moves[j]
    BY <1>5
  <2>2. <<c.moves[j].to, moves[k].to>> \in Tracks(one)
    BY <1>4, <1>5, <1>6, <1>7, <2>1
  <2> QED
    BY <1>7, <2>1, <2>2 DEF OfKept
<1>13. \A x, y : ~OfNew(c, one, x, y)
  BY <1>3 DEF OfNew
<1>14. ASSUME NEW x, NEW y, OfKept(c, one, x, y)
       PROVE  \E k \in 1 .. N : moves[k].from = x /\ moves[k].to = y
  <2>1. PICK j \in 1 .. Len(c.moves) : x = c.moves[j].from /\ <<c.moves[j].to, y>> \in Tracks(one)
    BY <1>14 DEF OfKept
  <2>2. c.moves[j].to # i /\ y = Down(c.moves[j].to)
    BY <1>4, <2>1
  <2>3. PICK k \in 1 .. N : left[k] = c.moves[j]
    BY <1>5, <2>2
  <2> QED
    BY <1>7, <2>1, <2>2, <2>3
<1>15. Composes(m, c, one)
  BY <1>7, <1>9, <1>10, <1>11, <1>12, <1>13, <1>14 DEF Composes
<1> QED
  BY <1>3, <1>15, ComposedContinues DEF m, one

\* move continues what was recorded by the move of one row, whether the row was
\* inserted before, or moved before, or never touched.
THEOREM MoveComposes ==
    ASSUME NEW c, IsChange(c), NEW from \in Nat, NEW to \in Nat
    PROVE  Continues(MoveRow(c, from, to), c, Moved(from, to))
<1> DEFINE m == MoveRow(c, from, to)
           one == Moved(from, to)
           N == Len(c.moves)
           new == from \notin c.ins
           move == [from |-> OldIndex(c, from), to |-> to]
           kept == [k \in DOMAIN c.moves |-> [c.moves[k] EXCEPT !.to = Passed(@, from, to)]]
           moves == IF new THEN Append(kept, move) ELSE kept
           del == IF new THEN c.del \cup {OldIndex(c, from)} ELSE c.del
           mod == IF from \in c.mod THEN InsertIndex(EraseIndex(c.mod, from), to)
                  ELSE ShiftForInsert(EraseIndex(c.mod, from), to)
           ins == InsertIndex(EraseIndex(c.ins, from), to)
<1>1. /\ c \in ChangeSet /\ c.del \in IndexSet /\ c.ins \in IndexSet /\ c.mod \in IndexSet
      /\ c.moves \in Seq(Move) /\ Apart(c.moves) /\ N \in Nat
      /\ \A k \in 1 .. N : /\ c.moves[k] \in Move
                           /\ c.moves[k].from \in Nat /\ c.moves[k].to \in Nat
                           /\ c.moves[k].from \in c.del /\ c.moves[k].to \in c.ins
  BY ChangeFacts
<1>2. m = [c EXCEPT !.mod = mod, !.ins = ins, !.del = del, !.moves = moves]
  BY DEF MoveRow, Retarget
<1>3. /\ IsChange(one) /\ one.del = {from} /\ one.ins = {to} /\ Len(one.moves) = 1
      /\ one.moves[1] = [from |-> from, to |-> to]
  BY OneStepFacts
<1>4. \A w, y : <<w, y>> \in Tracks(one) <=> w \in Nat /\ y = Passed(w, from, to)
  BY TracksOfOneStep
<1>a. \A w \in Nat : <<w, Passed(w, from, to)>> \in Tracks(one)
  BY <1>4
<1>5. \A w, v \in Nat : /\ Passed(w, from, to) \in Nat
                        /\ Passed(w, from, to) = Passed(v, from, to) => w = v
                        /\ Passed(w, from, to) = to <=> w = from
  <2>1. \A w \in Nat : Passed(w, from, to) \in Nat
    BY <1>3, <1>a, TracksFacts
  <2>2. \A w, v \in Nat : Passed(w, from, to) = Passed(v, from, to) => w = v
    <3> SUFFICES ASSUME NEW w \in Nat, NEW v \in Nat,
                        Passed(w, from, to) = Passed(v, from, to)
                 PROVE  w = v
      OBVIOUS
    <3> DEFINE y == Passed(w, from, to)
    <3>1. <<w, y>> \in Tracks(one) /\ <<v, y>> \in Tracks(one)
      BY <1>a
    <3> HIDE DEF y, one
    <3> QED
      BY <1>3, <3>1, TracksFacts
  <2>3. Passed(from, from, to) = to
    BY DEF Passed
  <2> QED
    BY <2>1, <2>2, <2>3
<1> HIDE DEF one
<1>6. /\ kept \in Seq(Move) /\ Len(kept) = N /\ Apart(kept)
      /\ \A k \in 1 .. N : /\ kept[k].from = c.moves[k].from
                           /\ kept[k].to = Passed(c.moves[k].to, from, to)
  <2> DEFINE p == [k \in 1 .. N |-> Passed(c.moves[k].to, from, to)]
  <2>1. kept = [k \in 1 .. N |-> [c.moves[k] EXCEPT !.to = p[k]]]
    <3>1. DOMAIN c.moves = 1 .. N
      BY <1>1
    <3> HIDE DEF N
    <3> QED
      BY <3>1
  <2>2. p \in [1 .. N -> Nat]
    BY <1>1, <1>5
  <2>3. \A j, k \in 1 .. N : p[j] = p[k] => c.moves[j].to = c.moves[k].to
    BY <1>1, <1>5
  <2>4. \A k \in 1 .. N : p[k] = Passed(c.moves[k].to, from, to)
    OBVIOUS
  <2> HIDE DEF p, kept
  <2>5. Shifted(kept, c.moves, p)
    BY <1>1, <2>1, <2>2, <2>3, ShiftedMoves
  <2> QED
    BY <2>4, <2>5 DEF Shifted
<1> HIDE DEF kept
<1>7. OldIndex(c, from) = Where(c.ins, c.del, from)
  BY DEF OldIndex, Where
<1>8. new => OldIndex(c, from) \in Nat /\ OldIndex(c, from) \notin c.del
  BY <1>1, <1>7, WhereFacts
<1>9. del \in IndexSet /\ del = MergedDel(c, one)
  <2>1. AddShiftedBy(c.del, c.ins, {from}) = del
    <3>1. /\ from \in c.ins => AddShiftedBy(c.del, c.ins, {from}) = c.del
          /\ from \notin c.ins =>
                 AddShiftedBy(c.del, c.ins, {from}) = c.del \cup {Where(c.ins, c.del, from)}
      BY <1>1, OneDeleted
    <3> QED
      BY <1>7, <3>1
  <2>2. AddShiftedBy(c.del, c.ins, {from}) \in IndexSet
    BY <1>1, OfOneIndex, DeletedInBoth
  <2> QED
    BY <1>3, <2>1, <2>2 DEF MergedDel
<1>10. ins \in IndexSet /\ ins = MergedIns(c, one)
  <2>1. EraseIndex(c.ins, from) = EraseAll(c.ins, {from}) /\ EraseIndex(c.ins, from) \in IndexSet
    BY <1>1, OneErased
  <2>2. ins = InsertAll(EraseIndex(c.ins, from), {to})
    BY <2>1, OneIndexAtATime
  <2> QED
    BY <1>3, <2>1, <2>2, StillIndexSets DEF MergedIns
<1>11. mod \in IndexSet
  <2>1. EraseIndex(c.mod, from) \in IndexSet
    BY <1>1, StillIndexSets
  <2> QED
    BY <2>1, StillIndexSets
<1>12. new => /\ move \in Move /\ move.from = Where(c.ins, c.del, from) /\ move.to = to
  BY <1>7, <1>8 DEF Move
<1> HIDE DEF del, ins, mod, move
\* the moves, kept ones first
<1>13. /\ moves \in Seq(Move) /\ Len(moves) = IF new THEN N + 1 ELSE N
       /\ \A k \in 1 .. N : moves[k] = kept[k]
       /\ new => moves[N + 1] = move
  <2>1. CASE new
    <3>1. /\ Append(kept, move) \in Seq(Move) /\ Len(Append(kept, move)) = N + 1
          /\ \A k \in 1 .. N : Append(kept, move)[k] = kept[k]
          /\ Append(kept, move)[N + 1] = move
      BY <1>6, <1>12, <2>1
    <3> QED
      BY <2>1, <3>1
  <2>2. CASE ~new
    BY <1>6, <2>2
  <2> QED
    BY <2>1, <2>2
<1> HIDE DEF moves, m, N
<1>14. \A k \in 1 .. Len(moves) : k \in 1 .. N \/ (new /\ k = N + 1)
  BY <1>1, <1>13
<1>b. /\ \A k \in 1 .. N : k \in 1 .. Len(moves)
      /\ new => N + 1 \in 1 .. Len(moves)
  BY <1>1, <1>13
<1>15. /\ m \in ChangeSet /\ m.del = del /\ m.ins = ins /\ m.moves = moves
  BY <1>1, <1>2, <1>9, <1>10, <1>11, <1>13 DEF ChangeSet
<1>16. ASSUME NEW k \in 1 .. N
       PROVE  OfKept(c, one, moves[k].from, moves[k].to)
  <2>1. /\ moves[k].from = c.moves[k].from /\ c.moves[k].to \in Nat
        /\ moves[k].to = Passed(c.moves[k].to, from, to)
    BY <1>1, <1>6, <1>13
  <2> QED
    BY <1>a, <2>1 DEF OfKept, N
<1>17. new => OfNew(c, one, moves[N + 1].from, moves[N + 1].to)
  <2> SUFFICES ASSUME new PROVE OfNew(c, one, moves[N + 1].from, moves[N + 1].to)
    OBVIOUS
  <2>1. /\ one.moves[1].from \notin c.ins /\ moves[N + 1].to = one.moves[1].to
        /\ moves[N + 1].from = Where(c.ins, c.del, one.moves[1].from)
    BY <1>3, <1>12, <1>13
  <2> QED
    BY <1>3, <2>1 DEF OfNew
<1>18. ASSUME NEW x, NEW y, OfKept(c, one, x, y)
       PROVE  \E k \in 1 .. Len(moves) : moves[k].from = x /\ moves[k].to = y
  <2>1. PICK k \in 1 .. N : x = c.moves[k].from /\ <<c.moves[k].to, y>> \in Tracks(one)
    BY <1>18 DEF OfKept, N
  <2>2. y = Passed(c.moves[k].to, from, to)
    BY <1>4, <2>1
  <2> QED
    BY <1>6, <1>13, <1>b, <2>1, <2>2
<1>19. ASSUME NEW x, NEW y, OfNew(c, one, x, y)
       PROVE  \E k \in 1 .. Len(moves) : moves[k].from = x /\ moves[k].to = y
  <2>1. new /\ y = to /\ x = Where(c.ins, c.del, from)
    BY <1>3, <1>19 DEF OfNew
  <2> QED
    BY <1>12, <1>13, <1>b, <2>1
<1>20. Apart(moves)
  <2>1. \A j, k \in 1 .. N : j # k => kept[j].from # kept[k].from /\ kept[j].to # kept[k].to
    BY <1>6 DEF Apart
  <2>2. new => \A k \in 1 .. N : kept[k].from # move.from /\ kept[k].to # move.to
    <3> SUFFICES ASSUME new, NEW k \in 1 .. N
                 PROVE  kept[k].from # move.from /\ kept[k].to # move.to
      OBVIOUS
    <3>1. move.from \notin c.del /\ move.to = to
      BY <1>7, <1>8, <1>12
    <3>2. kept[k].from \in c.del /\ kept[k].to = Passed(c.moves[k].to, from, to)
      BY <1>1, <1>6
    <3>3. c.moves[k].to \in Nat /\ c.moves[k].to # from
      BY <1>1 DEF N
    <3>4. Passed(c.moves[k].to, from, to) # to
      BY <1>5, <3>3
    <3> QED
      BY <3>1, <3>2, <3>4
  <2> HIDE DEF new
  <2>3. ASSUME NEW j \in 1 .. Len(moves), NEW k \in 1 .. Len(moves), j # k
        PROVE  moves[j].from # moves[k].from /\ moves[j].to # moves[k].to
    BY <1>13, <1>14, <2>1, <2>2, <2>3
  <2> QED
    BY <2>3 DEF Apart
<1>c. \A k \in 1 .. Len(moves) : \/ OfKept(c, one, moves[k].from, moves[k].to)
                                 \/ OfNew(c, one, moves[k].from, moves[k].to)
  BY <1>14, <1>16, <1>17
<1>21. Composes(m, c, one)
  BY <1>9, <1>10, <1>15, <1>c, <1>18, <1>19, <1>20 DEF Composes
<1> QED
  BY <1>3, <1>21, ComposedContinues DEF m, one

-----------------------------------------------------------------------------
\* Modifications

\* a row that both leave is a modified one of m if one of both modified it
KeepsModifications(m, a, c) ==
    \A x, w, y : <<x, w>> \in Tracks(a) /\ <<w, y>> \in Tracks(c) =>
                     (y \in m.mod <=> w \in a.mod \/ y \in c.mod)

\* The modifications that merge makes, at an index that both changes lead to.
LEMMA MergedModFacts ==
    ASSUME NEW a, IsChange(a), NEW c, IsChange(c), NEW x, NEW w, NEW y,
           <<x, w>> \in Tracks(a), <<w, y>> \in Tracks(c)
    PROVE  y \in MergedMod(a, c) <=> w \in a.mod \/ y \in c.mod
<1> DEFINE s == UpdateMoves(a, c)
           new == Excluding(s.later, "from", a.ins)
           shifted == ShiftForAll(EraseAll(a.mod, c.del), c.ins)
           moved == {move.to : move \in {m \in ToSet(new) : m.from \in a.mod}}
<1>1. UpdatedMoves(s, a, c)
  BY UpdateMovesFacts
<1>2. y \in MergedMod(a, c) <=> y \in shifted \/ y \in s.mod \/ y \in moved
  BY DEF MergedMod
<1> HIDE DEF s
<1>3. /\ s.later \in Seq(Move) /\ Apart(s.later)
      /\ \A j \in 1 .. Len(s.later) : \E l \in 1 .. Len(c.moves) : s.later[j] = c.moves[l]
      /\ \A l \in 1 .. Len(c.moves) :
             \/ \E m \in 1 .. Len(a.moves) : a.moves[m].to = c.moves[l].from
             \/ \E j \in 1 .. Len(s.later) : s.later[j] = c.moves[l]
      /\ y \in s.mod <=> \/ y \in c.mod
                         \/ \E m \in 1 .. Len(a.moves) :
                                a.moves[m].to \in a.mod /\ MovedFrom(c, a.moves[m].to, y)
  BY <1>1 DEF UpdatedMoves, Updated
<1>4. /\ new \in Seq(Move)
      /\ \A k \in 1 .. Len(new) : \E j \in 1 .. Len(s.later) : new[k] = s.later[j]
      /\ \A j \in 1 .. Len(s.later) :
             s.later[j].from \notin a.ins => \E k \in 1 .. Len(new) : new[k] = s.later[j]
  <2>1. KeptOf(new, s.later, "from", a.ins)
    BY <1>3, ExcludingFacts
  <2> HIDE DEF new
  <2> QED
    BY <2>1 DEF KeptOf
<1>5. y \in moved <=> \E k \in 1 .. Len(new) : new[k].from \in a.mod /\ y = new[k].to
  <2>1. DOMAIN new = 1 .. Len(new)
    BY <1>4
  <2> HIDE DEF new
  <2> QED
    BY <2>1 DEF ToSet
<1>6. y \in shifted <=> \E v \in a.mod \ c.del : y = Where(c.del, c.ins, v)
  BY DEF ShiftForAll, EraseAll, Where
<1> HIDE DEF new, shifted, moved
<1>7. \A z : MovedFrom(c, z, y) => z = w
  <2> SUFFICES ASSUME NEW z, MovedFrom(c, z, y) PROVE z = w
    OBVIOUS
  <2>1. <<z, y>> \in Tracks(c)
    BY TracksFacts DEF MovedFrom
  <2> QED
    BY <2>1, TracksFacts
<1>8. \A v \in a.mod : v \in Nat
  BY ChangeFacts DEF IndexSet
<1>9. ASSUME y \in shifted PROVE w \in a.mod
  <2>1. PICK v \in a.mod \ c.del : y = Where(c.del, c.ins, v)
    BY <1>6, <1>9
  <2>2. <<v, y>> \in Tracks(c)
    BY <1>8, <2>1, TracksFacts
  <2>3. v = w
    BY <2>2, TracksFacts
  <2> QED
    BY <2>1, <2>3
<1>10. ASSUME y \in moved PROVE w \in a.mod
  <2>1. PICK k \in 1 .. Len(new) : new[k].from \in a.mod /\ y = new[k].to
    BY <1>5, <1>10
  <2>2. PICK l \in 1 .. Len(c.moves) : new[k] = c.moves[l]
    BY <1>3, <1>4
  <2>3. MovedFrom(c, new[k].from, y)
    BY <2>1, <2>2 DEF MovedFrom
  <2> QED
    BY <1>7, <2>1, <2>3
<1>11. ASSUME y \in s.mod PROVE w \in a.mod \/ y \in c.mod
  BY <1>3, <1>7, <1>11
<1>12. ASSUME w \in a.mod PROVE y \in shifted \/ y \in s.mod \/ y \in moved
  <2>1. IsTracked(c, w, y) /\ IsTracked(a, x, w)
    BY TracksOf
  <2>2. CASE w \notin c.del /\ y = Where(c.del, c.ins, w)
    BY <1>6, <1>12, <2>2
  <2>3. ASSUME NEW l \in 1 .. Len(c.moves), w = c.moves[l].from, y = c.moves[l].to
        PROVE  y \in s.mod \/ y \in moved
    <3>1. CASE \E m \in 1 .. Len(a.moves) : a.moves[m].to = w
      BY <1>3, <1>12, <2>3, <3>1 DEF MovedFrom
    <3>2. CASE ~ \E m \in 1 .. Len(a.moves) : a.moves[m].to = w
      <4>1. w \notin a.ins
        <5>1. x \in Nat /\ x \notin a.del /\ w = Where(a.del, a.ins, x)
          BY <2>1, <3>2 DEF IsTracked
        <5> QED
          BY <5>1, ChangeFacts, WhereFacts
      <4>2. PICK j \in 1 .. Len(s.later) : s.later[j] = c.moves[l]
        BY <1>3, <2>3, <3>2
      <4>3. PICK k \in 1 .. Len(new) : new[k] = c.moves[l]
        BY <1>4, <2>3, <4>1, <4>2
      <4> QED
        BY <1>5, <1>12, <2>3, <4>3
    <3> QED
      BY <3>1, <3>2
  <2> QED
    BY <2>1, <2>2, <2>3 DEF IsTracked
<1> QED
  BY <1>2, <1>3, <1>9, <1>10, <1>11, <1>12

\* merge loses no modification of a row that stays in both changes, and makes none up,
\* moved rows included.
THEOREM MergeKeepsModifications ==
    ASSUME NEW a, IsChange(a), NEW c, IsChange(c)
    PROVE  KeepsModifications(Merge(a, c), a, c)
<1> SUFFICES ASSUME NEW x, NEW w, NEW y, <<x, w>> \in Tracks(a), <<w, y>> \in Tracks(c)
             PROVE  y \in Merge(a, c).mod <=> w \in a.mod \/ y \in c.mod
  BY DEF KeepsModifications
<1>1. CASE IsEmpty(c)
  <2>1. y = w /\ c.mod = {}
    <3>1. Tracks(c) = {<<k, k>> : k \in Nat}
      BY <1>1, TracksOfEmpty
    <3> QED
      BY <1>1, <3>1 DEF IsEmpty
  <2> QED
    BY <1>1, <2>1 DEF Merge
<1>2. CASE ~IsEmpty(c) /\ IsEmpty(a)
  BY <1>2 DEF Merge, IsEmpty
<1>3. CASE ~IsEmpty(c) /\ ~IsEmpty(a)
  <2> DEFINE d == CleanUp(Joined(a, c))
  <2>1. Merge(a, c) = [d EXCEPT !.mod = MergedMod(a, c)]
    BY <1>3 DEF Merge, Joined
  <2>2. d \in ChangeSet
    <3>1. IsChange(d)
      BY JoinedComposes, ComposedIsChange, CleanUpKeepsTracks
    <3> HIDE DEF d
    <3> QED
      BY <3>1 DEF IsChange
  <2> HIDE DEF d
  <2>3. Merge(a, c).mod = MergedMod(a, c)
    BY <2>1, <2>2 DEF ChangeSet
  <2> QED
    BY <2>3, MergedModFacts
<1> QED
  BY <1>1, <1>2, <1>3

\* the modifications in terms of the old collection, which the callback is told
THEOREM OldModifications ==
    ASSUME NEW c, IsChange(c)
    PROVE  /\ \A k \in ModificationsOld(c) : k \in Nat /\ k \notin c.del
           /\ \A x \in Nat \ c.del :
                  x \in ModificationsOld(c) <=> Where(c.del, c.ins, x) \in c.mod
<1>1. /\ c.del \in IndexSet /\ c.ins \in IndexSet /\ \A v \in c.mod : v \in Nat
  BY ChangeFacts DEF IndexSet
<1>2. \A k : k \in ModificationsOld(c) <=> \E v \in c.mod \ c.ins : k = Where(c.ins, c.del, v)
  BY DEF ModificationsOld, ShiftForAll, EraseAll, Where
<1>3. \A v \in c.mod \ c.ins : /\ Where(c.ins, c.del, v) \in Nat
                               /\ Where(c.ins, c.del, v) \notin c.del
                               /\ Where(c.del, c.ins, Where(c.ins, c.del, v)) = v
  BY <1>1, WhereFacts
<1>4. \A x \in Nat \ c.del : /\ Where(c.del, c.ins, x) \notin c.ins
                             /\ Where(c.ins, c.del, Where(c.del, c.ins, x)) = x
  BY <1>1, WhereFacts
<1> QED
  BY <1>2, <1>3, <1>4

\* insert, erase and move take the modifications along with the rows.
THEOREM StepsKeepModifications ==
    ASSUME NEW c, IsChange(c), NEW i \in Nat, NEW j \in Nat
    PROVE  /\ KeepsModifications(Insert(c, i), c, Inserted(i))
           /\ KeepsModifications(Erase(c, i), c, Erased(i))
           /\ KeepsModifications(MoveRow(c, i, j), c, Moved(i, j))
<1> DEFINE none == <<>>
           Back(k) == IF k < i THEN k ELSE k - 1
           Up(k) == IF k < j THEN k ELSE k + 1
<1>1. c \in ChangeSet /\ \A v \in c.mod : v \in Nat
  BY ChangeFacts DEF IndexSet
<1>2. Inserted(i).mod = {} /\ Erased(i).mod = {} /\ Moved(i, j).mod = {}
  BY DEF Inserted, Erased, Moved, Empty
<1>3. \A x, w : <<x, w>> \in Tracks(c) => w \in Nat
  BY TracksFacts
<1>4. KeepsModifications(Insert(c, i), c, Inserted(i))
  <2>1. Insert(c, i).mod = ShiftForInsert(c.mod, i)
    BY <1>1 DEF Insert, ChangeSet
  <2> SUFFICES ASSUME NEW w \in Nat, NEW y, <<w, y>> \in Tracks(Inserted(i))
               PROVE  y \in ShiftForInsert(c.mod, i) <=> w \in c.mod
    BY <1>2, <1>3, <2>1 DEF KeepsModifications
  <2>2. y = IF w >= i THEN w + 1 ELSE w
    BY TracksOfOneStep
  <2>3. \A v \in c.mod : y = (IF v < i THEN v ELSE v + 1) <=> v = w
    BY <1>1, <2>2
  <2> QED
    BY <2>3 DEF ShiftForInsert
<1>5. KeepsModifications(Erase(c, i), c, Erased(i))
  <2>1. Erase(c, i).mod = EraseIndex(c.mod, i)
    BY <1>1 DEF Erase, ChangeSet
  <2> SUFFICES ASSUME NEW w \in Nat, NEW y, <<w, y>> \in Tracks(Erased(i))
               PROVE  y \in EraseIndex(c.mod, i) <=> w \in c.mod
    BY <1>2, <1>3, <2>1 DEF KeepsModifications
  <2>2. w # i /\ y = IF w > i THEN w - 1 ELSE w
    BY TracksOfOneStep
  <2>3. \A v \in c.mod \ {i} : y = Back(v) <=> v = w
    BY <1>1, <2>2
  <2> QED
    BY <2>2, <2>3 DEF EraseIndex
<1>6. KeepsModifications(MoveRow(c, i, j), c, Moved(i, j))
  <2> DEFINE left == EraseIndex(c.mod, i)
  <2>1. MoveRow(c, i, j).mod = IF i \in c.mod THEN InsertIndex(left, j)
                               ELSE ShiftForInsert(left, j)
    BY <1>1 DEF MoveRow, ChangeSet
  <2> SUFFICES ASSUME NEW w \in Nat, NEW y, <<w, y>> \in Tracks(Moved(i, j))
               PROVE  y \in (IF i \in c.mod THEN InsertIndex(left, j)
                             ELSE ShiftForInsert(left, j)) <=> w \in c.mod
    BY <1>2, <1>3, <2>1 DEF KeepsModifications
  <2>2. y = Passed(w, i, j)
    BY TracksOfOneStep
  <2>3. \A v : v \in left <=> \E u \in c.mod \ {i} : v = Back(u)
    BY DEF EraseIndex
  <2>4. \A v : v \in ShiftForInsert(left, j) <=> \E u \in left : v = Up(u)
    BY DEF ShiftForInsert
  <2>a. \A v : v \in ShiftForInsert(left, j) <=> \E u \in c.mod \ {i} : v = Up(Back(u))
    <3> HIDE DEF left, Up, Back
    <3> QED
      BY <2>3, <2>4
  <2>5. \A u \in c.mod \ {i} : Up(Back(u)) # j /\ (w # i => (y = Up(Back(u)) <=> u = w))
    BY <1>1, <2>2 DEF Passed
  <2>6. w = i => y = j
    BY <2>2 DEF Passed
  <2>7. w # i => y # j
    BY <2>2 DEF Passed
  <2> HIDE DEF left, Up, Back
  <2>8. y \in ShiftForInsert(left, j) <=> w # i /\ w \in c.mod
    BY <2>a, <2>5, <2>6
  <2> QED
    BY <2>6, <2>7, <2>8 DEF InsertIndex
<1> QED
  BY <1>4, <1>5, <1>6

-----------------------------------------------------------------------------
\* Changes of a list

\* The change c makes of the list s the list t: what it deletes is in s, what it inserts
\* is in t, and an index it leads to another is one of the same element.
Follows(s, c, t) ==
    /\ IsChange(c) /\ c.del \subseteq Indices(s) /\ c.ins \subseteq Indices(t)
    /\ \A x, y : <<x, y>> \in Tracks(c) =>
           /\ x \in Indices(s) <=> y \in Indices(t)
           /\ x \in Indices(s) => At(s, x) = At(t, y)

\* The indices of a list.
LEMMA IndicesAre ==
    ASSUME NEW s \in Seq(Nat), NEW x
    PROVE  /\ Len(s) \in Nat /\ (x \in Indices(s) <=> x \in Nat /\ x < Len(s))
           /\ x \in Indices(s) => x + 1 \in 1 .. Len(s) /\ At(s, x) = s[x + 1] /\ At(s, x) \in Nat
BY DEF Indices, At

\* A change leads an index that it does not delete.
LEMMA TracksStays ==
    ASSUME NEW c, IsChange(c), NEW x \in Nat
    PROVE  x \notin c.del => <<x, Where(c.del, c.ins, x)>> \in Tracks(c)
BY TracksFacts

\* What continues a change of s to mid by one of mid to t is a change of s to t.
LEMMA ContinuedFollows ==
    ASSUME NEW s \in Seq(Nat), NEW mid \in Seq(Nat), NEW t \in Seq(Nat),
           NEW a, Follows(s, a, mid), NEW c, Follows(mid, c, t), NEW m, Continues(m, a, c)
    PROVE  Follows(s, m, t)
<1>1. /\ IsChange(a) /\ a.del \in IndexSet /\ a.ins \in IndexSet
      /\ IsChange(c) /\ c.del \in IndexSet /\ c.ins \in IndexSet
      /\ IsChange(m) /\ m.del \in IndexSet /\ m.ins \in IndexSet
  BY ChangeFacts DEF Follows, Continues
<1>2. m.del \subseteq Nat /\ m.ins \subseteq Nat
  BY <1>1 DEF IndexSet
<1>3. ASSUME NEW k \in m.del PROVE k \in Indices(s)
  <2>1. k \in Nat /\ (k \in a.del \/ Where(a.del, a.ins, k) \in c.del)
    BY <1>1, <1>2, DeletedInBoth DEF Continues, MergedDel
  <2>2. CASE k \in a.del
    BY <2>2 DEF Follows
  <2>3. CASE k \notin a.del
    <3>1. <<k, Where(a.del, a.ins, k)>> \in Tracks(a)
      BY <1>1, <2>1, <2>3, TracksStays
    <3>2. Where(a.del, a.ins, k) \in Indices(mid)
      BY <2>1, <2>3 DEF Follows
    <3> QED
      BY <3>1, <3>2 DEF Follows
  <2> QED
    BY <2>2, <2>3
<1>4. ASSUME NEW y \in m.ins PROVE y \in Indices(t)
  <2>1. y \in Nat /\ (y \in c.ins \/ Where(c.ins, c.del, y) \in a.ins)
    BY <1>1, <1>2, InsertedInBoth DEF Continues, MergedIns
  <2>2. CASE y \in c.ins
    BY <2>2 DEF Follows
  <2>3. CASE y \notin c.ins
    <3>1. /\ Where(c.ins, c.del, y) \in Nat /\ Where(c.ins, c.del, y) \notin c.del
          /\ Where(c.del, c.ins, Where(c.ins, c.del, y)) = y
      BY <1>1, <2>1, <2>3, WhereFacts
    <3>2. <<Where(c.ins, c.del, y), y>> \in Tracks(c)
      BY <1>1, <3>1, TracksStays
    <3>3. Where(c.ins, c.del, y) \in Indices(mid)
      BY <2>1, <2>3 DEF Follows
    <3> QED
      BY <3>2, <3>3 DEF Follows
  <2> QED
    BY <2>2, <2>3
<1>5. ASSUME NEW x, NEW y, <<x, y>> \in Tracks(m)
      PROVE  /\ x \in Indices(s) <=> y \in Indices(t)
             /\ x \in Indices(s) => At(s, x) = At(t, y)
  <2>1. PICK w \in Nat : <<x, w>> \in Tracks(a) /\ <<w, y>> \in Tracks(c)
    <3>1. <<x, y>> \in FollowedBy(Tracks(a), Tracks(c))
      BY <1>5 DEF Continues
    <3> QED
      BY <3>1 DEF FollowedBy
  <2> QED
    BY <2>1 DEF Follows
<1> QED
  BY <1>1, <1>3, <1>4, <1>5 DEF Follows

\* The change set of a new builder is a change.
LEMMA EmptyIsChange ==
    /\ IsChange(Empty) /\ IsEmpty(Empty) /\ Empty.del = {} /\ Empty.ins = {} /\ Empty.mod = {}
    /\ Len(Empty.moves) = 0
<1> DEFINE none == <<>>
<1>1. none \in [{} -> Nat] /\ none \in Seq(Move) /\ Len(none) = 0
  OBVIOUS
<1>2. {} \in IndexSet
  BY FS_EmptySet DEF IndexSet
<1>3. Empty = [del |-> {}, ins |-> {}, mod |-> {}, moves |-> none, mapping |-> none]
  BY DEF Empty
<1>4. none = <<>>
  OBVIOUS
<1> HIDE DEF none
<1>5. none \in UNION {[s -> Nat] : s \in IndexSet}
  BY <1>1, <1>2
<1>6. Empty \in ChangeSet
  BY <1>1, <1>2, <1>3, <1>5 DEF ChangeSet
<1> QED
  BY <1>1, <1>3, <1>4, <1>6 DEF IsChange, MovesMatch, IsEmpty

\* It changes no list.
LEMMA EmptyFollows ==
    ASSUME NEW s \in Seq(Nat)
    PROVE  Follows(s, Empty, s)
<1>1. Tracks(Empty) = {<<k, k>> : k \in Nat}
  BY EmptyIsChange, TracksOfEmpty
<1> QED
  BY <1>1, EmptyIsChange DEF Follows

\* what c reports of t as modified, of what it does not insert, is in T
Marks(c, t, T) ==
    \A x, y : <<x, y>> \in Tracks(c) /\ y \in c.mod => y \in Indices(t) /\ At(t, y) \in T

\* Two changes that mark only elements of T continue to one that does.
LEMMA ContinuedMarks ==
    ASSUME NEW s, NEW mid, NEW t, NEW T,
           NEW a, Follows(s, a, mid), Marks(a, mid, T), NEW c, Follows(mid, c, t), Marks(c, t, T),
           NEW m, Continues(m, a, c), KeepsModifications(m, a, c)
    PROVE  Marks(m, t, T)
<1> SUFFICES ASSUME NEW x, NEW y, <<x, y>> \in Tracks(m), y \in m.mod
             PROVE  y \in Indices(t) /\ At(t, y) \in T
  BY DEF Marks
<1>1. <<x, y>> \in FollowedBy(Tracks(a), Tracks(c))
  BY DEF Continues
<1>2. PICK w \in Nat : <<x, w>> \in Tracks(a) /\ <<w, y>> \in Tracks(c)
  BY <1>1 DEF FollowedBy
<1>3. w \in a.mod \/ y \in c.mod
  BY <1>2 DEF KeepsModifications
<1>4. CASE y \in c.mod
  BY <1>2, <1>4 DEF Marks
<1>5. CASE w \in a.mod
  <2>1. w \in Indices(mid) /\ At(mid, w) \in T
    BY <1>2, <1>5 DEF Marks
  <2>2. y \in Indices(t) /\ At(mid, w) = At(t, y)
    BY <1>2, <2>1 DEF Follows
  <2> QED
    BY <2>1, <2>2
<1> QED
  BY <1>3, <1>4, <1>5

\* Marks may be of more elements than needed.
LEMMA MoreMarks ==
    ASSUME NEW c, NEW t, NEW T, NEW U, T \subseteq U, Marks(c, t, T)
    PROVE  Marks(c, t, U)
BY DEF Marks

\* A new builder marks nothing.
LEMMA EmptyMarks ==
    ASSUME NEW t, NEW T
    PROVE  Marks(Empty, t, T)
BY EmptyIsChange DEF Marks

-----------------------------------------------------------------------------
\* Instructions on a list

\* Two lists, one behind the other.
LEMMA JoinedLists ==
    ASSUME NEW u \in Seq(Nat), NEW v \in Seq(Nat)
    PROVE  /\ u \o v \in Seq(Nat) /\ Len(u \o v) = Len(u) + Len(v)
           /\ \A k \in 1 .. Len(u) : (u \o v)[k] = u[k]
           /\ \A k \in 1 .. Len(v) : (u \o v)[Len(u) + k] = v[k]
OBVIOUS

\* t is s with e inserted at i
Grown(t, s, i, e) ==
    /\ t \in Seq(Nat) /\ Len(t) = Len(s) + 1
    /\ \A k \in 0 .. Len(s) : At(t, k) = IF k < i THEN s[k + 1] ELSE IF k = i THEN e ELSE s[k]

\* The list after link_list_insert, element by element.
LEMMA InsertAtFacts ==
    ASSUME NEW s \in Seq(Nat), NEW i \in Nat, i <= Len(s), NEW e \in Nat
    PROVE  Grown(InsertAt(s, i + 1, e), s, i, e)
<1>1. SubSeq(s, 1, (i + 1) - 1) = SubSeq(s, 1, i)
  OBVIOUS
<1> DEFINE u == SubSeq(s, 1, i)
           v == SubSeq(s, i + 1, Len(s))
<1>2. u \in Seq(Nat) /\ Len(u) = i /\ \A k \in 1 .. i : u[k] = s[k]
  OBVIOUS
<1>3. /\ v \in Seq(Nat) /\ Len(v) = Len(s) - i
      /\ \A k \in 1 .. Len(s) - i : v[k] = s[i + k]
  OBVIOUS
<1>4. InsertAt(s, i + 1, e) = u \o <<e>> \o v
  BY ONLY <1>1, Zenon DEF InsertAt, u, v
<1> HIDE DEF u, v
<1>5. u \o <<e>> \in Seq(Nat) /\ Len(u \o <<e>>) = i + 1
  BY <1>2
<1>6. \A k \in 1 .. i + 1 : (u \o <<e>>)[k] = IF k <= i THEN s[k] ELSE e
  BY <1>2
<1> DEFINE w == u \o <<e>>
<1>7. w \in Seq(Nat) /\ Len(w) = i + 1 /\ \A k \in 1 .. i + 1 : w[k] = IF k <= i THEN s[k] ELSE e
  BY <1>5, <1>6
<1> HIDE DEF w
<1>a. Len(s) \in Nat
  OBVIOUS
<1>8. w \o v \in Seq(Nat) /\ Len(w \o v) = Len(s) + 1
  <2>1. w \o v \in Seq(Nat) /\ Len(w \o v) = Len(w) + Len(v)
    BY <1>3, <1>7, JoinedLists
  <2> QED
    BY <1>a, <1>3, <1>7, <2>1
<1>9. /\ \A k \in 1 .. i + 1 : (w \o v)[k] = w[k]
      /\ \A k \in 1 .. Len(s) - i : (w \o v)[i + 1 + k] = v[k]
  <2>1. /\ \A k \in 1 .. Len(w) : (w \o v)[k] = w[k]
        /\ \A k \in 1 .. Len(v) : (w \o v)[Len(w) + k] = v[k]
    BY <1>3, <1>7, JoinedLists
  <2> QED
    BY <1>3, <1>7, <2>1
<1>10. ASSUME NEW k \in 0 .. Len(s)
       PROVE  (w \o v)[k + 1] = IF k < i THEN s[k + 1] ELSE IF k = i THEN e ELSE s[k]
  <2>1. k + 1 \in 1 .. Len(s) + 1
    OBVIOUS
  <2>2. CASE k <= i
    <3>1. k + 1 \in 1 .. i + 1
      BY <2>2
    <3>2. (w \o v)[k + 1] = w[k + 1]
      BY <1>9, <3>1
    <3>3. w[k + 1] = IF k + 1 <= i THEN s[k + 1] ELSE e
      BY <1>7, <3>1
    <3> QED
      BY <2>2, <3>2, <3>3
  <2>3. CASE k > i
    <3>1. k - i \in 1 .. Len(s) - i /\ i + (k - i) = k /\ i + 1 + (k - i) = k + 1
      BY <1>a, <2>3
    <3>2. v[k - i] = s[k]
      BY <1>3, <3>1
    <3>3. (w \o v)[k + 1] = v[k - i]
      BY <1>9, <3>1
    <3> QED
      BY <1>a, <2>3, <3>2, <3>3
  <2>4. k <= i \/ k > i
    BY <1>a
  <2> QED
    BY <2>2, <2>3, <2>4, Zenon
<1> QED
  BY <1>4, <1>8, <1>10 DEF w, At, Grown

\* The list after link_list_erase, element by element.
LEMMA RemoveAtFacts ==
    ASSUME NEW s \in Seq(Nat), NEW i \in Nat, i < Len(s)
    PROVE  /\ RemoveAt(s, i + 1) \in Seq(Nat) /\ Len(RemoveAt(s, i + 1)) = Len(s) - 1
           /\ \A k \in 0 .. Len(s) - 2 : At(RemoveAt(s, i + 1), k)
                = IF k < i THEN s[k + 1] ELSE s[k + 2]
<1>1. /\ SubSeq(s, 1, (i + 1) - 1) = SubSeq(s, 1, i)
      /\ SubSeq(s, (i + 1) + 1, Len(s)) = SubSeq(s, i + 2, Len(s))
  OBVIOUS
<1> DEFINE u == SubSeq(s, 1, i)
           v == SubSeq(s, i + 2, Len(s))
<1>2. u \in Seq(Nat) /\ Len(u) = i /\ \A k \in 1 .. i : u[k] = s[k]
  OBVIOUS
<1>3. /\ v \in Seq(Nat) /\ Len(v) = Len(s) - i - 1
      /\ \A k \in 1 .. Len(s) - i - 1 : v[k] = s[i + 1 + k]
  OBVIOUS
<1>4. RemoveAt(s, i + 1) = u \o v
  BY ONLY <1>1, Zenon DEF RemoveAt, u, v
<1> HIDE DEF u, v
<1>a. Len(s) \in Nat
  OBVIOUS
<1>8. u \o v \in Seq(Nat) /\ Len(u \o v) = Len(s) - 1
  <2>1. u \o v \in Seq(Nat) /\ Len(u \o v) = Len(u) + Len(v)
    BY <1>2, <1>3, JoinedLists
  <2> QED
    BY <1>a, <1>2, <1>3, <2>1
<1>9. /\ \A k \in 1 .. i : (u \o v)[k] = u[k]
      /\ \A k \in 1 .. Len(s) - i - 1 : (u \o v)[i + k] = v[k]
  <2>1. /\ \A k \in 1 .. Len(u) : (u \o v)[k] = u[k]
        /\ \A k \in 1 .. Len(v) : (u \o v)[Len(u) + k] = v[k]
    BY <1>2, <1>3, JoinedLists
  <2> QED
    BY <1>2, <1>3, <2>1
<1>10. ASSUME NEW k \in 0 .. Len(s) - 2
       PROVE  (u \o v)[k + 1] = IF k < i THEN s[k + 1] ELSE s[k + 2]
  <2>1. k + 1 \in 1 .. Len(s) - 1
    OBVIOUS
  <2>2. CASE k < i
    <3>1. k + 1 \in 1 .. i
      BY <2>2
    <3> QED
      BY <1>2, <1>9, <2>2, <3>1
  <2>3. CASE k >= i
    <3>1. /\ k + 1 - i \in 1 .. Len(s) - i - 1 /\ i + 1 + (k + 1 - i) = k + 2
          /\ i + (k + 1 - i) = k + 1
      BY <1>a, <2>3
    <3>2. v[k + 1 - i] = s[k + 2]
      BY <1>3, <3>1
    <3>3. (u \o v)[k + 1] = v[k + 1 - i]
      BY <1>9, <3>1
    <3> QED
      BY <1>a, <2>3, <3>2, <3>3
  <2>4. k < i \/ k >= i
    BY <1>a
  <2> QED
    BY <2>2, <2>3, <2>4, Zenon
<1> QED
  BY <1>4, <1>8, <1>10 DEF At

\* One insertion makes the list to the one after link_list_insert.
LEMMA InsertedFollows ==
    ASSUME NEW s \in Seq(Nat), NEW i \in Nat, i <= Len(s), NEW e \in Nat
    PROVE  /\ InsertAt(s, i + 1, e) \in Seq(Nat)
           /\ Follows(s, Inserted(i), InsertAt(s, i + 1, e))
<1> DEFINE t == InsertAt(s, i + 1, e)
<1>1. /\ t \in Seq(Nat) /\ Len(t) = Len(s) + 1 /\ Len(s) \in Nat
      /\ \A k \in 0 .. Len(s) : At(t, k) = IF k < i THEN s[k + 1] ELSE IF k = i THEN e ELSE s[k]
  <2>1. Grown(t, s, i, e)
    BY InsertAtFacts
  <2> HIDE DEF t
  <2> QED
    BY <2>1 DEF Grown
<1> HIDE DEF t
<1>2. IsChange(Inserted(i)) /\ Inserted(i).del = {} /\ Inserted(i).ins = {i}
  BY OneStepFacts
<1>3. i \in Indices(t)
  BY <1>1 DEF Indices
<1>4. ASSUME NEW x, NEW y, <<x, y>> \in Tracks(Inserted(i))
      PROVE  /\ x \in Indices(s) <=> y \in Indices(t)
             /\ x \in Indices(s) => At(s, x) = At(t, y)
  <2>1. x \in Nat /\ y = IF x >= i THEN x + 1 ELSE x
    BY <1>4, TracksOfOneStep
  <2>2. CASE x < i
    <3>1. y = x /\ x \in Indices(s) /\ y \in Indices(t)
      BY <1>1, <2>1, <2>2 DEF Indices
    <3>2. At(t, y) = s[x + 1]
      BY SMTT(30), <1>1, <2>1, <2>2, <3>1
    <3> QED
      BY <3>1, <3>2 DEF At
  <2>3. CASE x >= i
    <3>1. y = x + 1 /\ (x \in Indices(s) <=> y \in Indices(t))
      BY <1>1, <2>1, <2>3 DEF Indices
    <3>2. x \in Indices(s) => At(t, y) = s[x + 1]
      BY <1>1, <2>1, <2>3, <3>1 DEF Indices
    <3> QED
      BY <3>1, <3>2 DEF At
  <2> QED
    BY <2>1, <2>2, <2>3
<1>5. Follows(s, Inserted(i), t)
  BY <1>2, <1>3, <1>4 DEF Follows
<1> QED
  BY <1>1, <1>5 DEF t

\* One deletion makes the list to the one after link_list_erase.
LEMMA ErasedFollows ==
    ASSUME NEW s \in Seq(Nat), NEW i \in Nat, i < Len(s)
    PROVE  /\ RemoveAt(s, i + 1) \in Seq(Nat)
           /\ Follows(s, Erased(i), RemoveAt(s, i + 1))
<1> DEFINE t == RemoveAt(s, i + 1)
<1>1. /\ t \in Seq(Nat) /\ Len(t) = Len(s) - 1 /\ Len(s) \in Nat
      /\ \A k \in 0 .. Len(s) - 2 : At(t, k) = IF k < i THEN s[k + 1] ELSE s[k + 2]
  BY RemoveAtFacts
<1> HIDE DEF t
<1>2. IsChange(Erased(i)) /\ Erased(i).del = {i} /\ Erased(i).ins = {}
  BY OneStepFacts
<1>3. i \in Indices(s)
  BY <1>1 DEF Indices
<1>4. ASSUME NEW x, NEW y, <<x, y>> \in Tracks(Erased(i))
      PROVE  /\ x \in Indices(s) <=> y \in Indices(t)
             /\ x \in Indices(s) => At(s, x) = At(t, y)
  <2>1. x \in Nat /\ x # i /\ y = IF x > i THEN x - 1 ELSE x
    BY <1>4, TracksOfOneStep
  <2>2. CASE x < i
    <3>1. y = x /\ x \in Indices(s) /\ y \in Indices(t)
      BY <1>1, <2>1, <2>2 DEF Indices
    <3>2. At(t, y) = s[x + 1]
      BY <1>1, <2>1, <2>2, <3>1
    <3> QED
      BY <3>1, <3>2 DEF At
  <2>3. CASE x > i
    <3>1. y = x - 1 /\ y + 2 = x + 1 /\ (x \in Indices(s) <=> y \in Indices(t))
      BY <1>1, <2>1, <2>3 DEF Indices
    <3>2. x \in Indices(s) => At(t, y) = s[x + 1]
      BY <1>1, <2>1, <2>3, <3>1 DEF Indices
    <3> QED
      BY <3>1, <3>2 DEF At
  <2> QED
    BY <2>1, <2>2, <2>3
<1>5. Follows(s, Erased(i), t)
  BY <1>2, <1>3, <1>4 DEF Follows
<1> QED
  BY <1>1, <1>5 DEF t

\* One move makes the list to the one after link_list_move.
LEMMA MovedFollows ==
    ASSUME NEW s \in Seq(Nat), NEW i \in Nat, i < Len(s), NEW j \in Nat, j < Len(s)
    PROVE  /\ InsertAt(RemoveAt(s, i + 1), j + 1, At(s, i)) \in Seq(Nat)
           /\ Follows(s, Moved(i, j), InsertAt(RemoveAt(s, i + 1), j + 1, At(s, i)))
<1> DEFINE r == RemoveAt(s, i + 1)
           t == InsertAt(r, j + 1, At(s, i))
<1>1. /\ r \in Seq(Nat) /\ Len(r) = Len(s) - 1 /\ Len(s) \in Nat
      /\ \A k \in 0 .. Len(s) - 2 : At(r, k) = IF k < i THEN s[k + 1] ELSE s[k + 2]
  BY RemoveAtFacts
<1> HIDE DEF r
<1>2. At(s, i) \in Nat /\ At(s, i) = s[i + 1]
  BY DEF At
<1>3. /\ t \in Seq(Nat) /\ Len(t) = Len(r) + 1
      /\ \A k \in 0 .. Len(r) :
             At(t, k) = IF k < j THEN r[k + 1] ELSE IF k = j THEN At(s, i) ELSE r[k]
  <2>1. j <= Len(r)
    BY <1>1
  <2> HIDE DEF t
  <2>2. Grown(t, r, j, At(s, i))
    BY <1>1, <1>2, <2>1, InsertAtFacts DEF t
  <2> QED
    BY <2>2 DEF Grown
<1> HIDE DEF t
<1>4. Len(t) = Len(s) /\ Len(s) \in Nat
  BY <1>1, <1>3
<1>5. \A k \in 0 .. Len(s) - 2 : r[k + 1] = IF k < i THEN s[k + 1] ELSE s[k + 2]
  BY <1>1 DEF At
<1>6. \A k \in 1 .. Len(s) - 1 : r[k] = IF k - 1 < i THEN s[k] ELSE s[k + 1]
  <2> SUFFICES ASSUME NEW k \in 1 .. Len(s) - 1
               PROVE  r[k] = IF k - 1 < i THEN s[k] ELSE s[k + 1]
    OBVIOUS
  <2>1. k - 1 \in 0 .. Len(s) - 2 /\ (k - 1) + 1 = k /\ (k - 1) + 2 = k + 1
    BY <1>1
  <2> QED
    BY <1>5, <2>1
<1>7. ASSUME NEW k \in 0 .. Len(s) - 1
      PROVE  /\ k < j /\ k < i => At(t, k) = s[k + 1]
             /\ k < j /\ k >= i => At(t, k) = s[k + 2]
             /\ k > j /\ k <= i => At(t, k) = s[k]
             /\ k > j /\ k > i => At(t, k) = s[k + 1]
             /\ k = j => At(t, k) = s[i + 1]
  <2>1. k \in 0 .. Len(r)
    BY <1>1
  <2>a. k < j => k \in 0 .. Len(s) - 2
    BY <1>4
  <2>2. k < j => At(t, k) = r[k + 1]
    BY <1>3, <2>1
  <2>3. k > j => At(t, k) = r[k] /\ k \in 1 .. Len(s) - 1
    BY <1>1, <1>3, <2>1
  <2>4. k = j => At(t, k) = s[i + 1]
    BY <1>2, <1>3, <2>1
  <2>5. k < j => r[k + 1] = IF k < i THEN s[k + 1] ELSE s[k + 2]
    BY <1>5, <2>a
  <2>6. k > j => r[k] = IF k - 1 < i THEN s[k] ELSE s[k + 1]
    BY <1>6, <2>3
  <2> QED
    BY <2>2, <2>3, <2>4, <2>5, <2>6
<1>8. /\ IsChange(Moved(i, j)) /\ Moved(i, j).del = {i} /\ Moved(i, j).ins = {j}
      /\ i \in Indices(s) /\ j \in Indices(t)
  <2>1. i \in Indices(s) /\ j \in Indices(t)
    BY <1>4 DEF Indices
  <2> QED
    BY ZenonT(60), <2>1, OneStepFacts
<1>9. ASSUME NEW x, NEW y, <<x, y>> \in Tracks(Moved(i, j))
      PROVE  /\ x \in Indices(s) <=> y \in Indices(t)
             /\ x \in Indices(s) => At(s, x) = At(t, y)
  <2>1. x \in Nat /\ y = Passed(x, i, j)
    BY <1>9, TracksOfOneStep
  <2>2. \/ x = i /\ y = j
        \/ x # i /\ j <= x /\ x <= i - 1 /\ y = x + 1
        \/ x # i /\ i + 1 <= x /\ x <= j /\ y = x - 1
        \/ x # i /\ ~(j <= x /\ x <= i - 1) /\ ~(i + 1 <= x /\ x <= j) /\ y = x
    BY <2>1 DEF Passed
  <2>3. x \in Indices(s) <=> y \in Indices(t)
    BY SMTT(30), <1>4, <2>1, <2>2 DEF Indices
  <2>4. ASSUME x \in Indices(s) PROVE At(t, y) = s[x + 1]
    <3>1. x < Len(s) /\ y \in 0 .. Len(s) - 1
      BY <1>1, <1>4, <2>3, <2>4 DEF Indices
    <3>2. /\ y < j /\ y < i => At(t, y) = s[y + 1]
          /\ y < j /\ y >= i => At(t, y) = s[y + 2]
          /\ y > j /\ y <= i => At(t, y) = s[y]
          /\ y > j /\ y > i => At(t, y) = s[y + 1]
          /\ y = j => At(t, y) = s[i + 1]
      BY <1>7, <3>1
    <3>3. CASE x = i /\ y = j
      BY <3>2, <3>3
    <3>4. CASE x # i /\ j <= x /\ x <= i - 1 /\ y = x + 1
      BY <2>1, <3>2, <3>4
    <3>5. CASE x # i /\ i + 1 <= x /\ x <= j /\ y = x - 1
      <4>1. y < j /\ y >= i /\ y + 2 = x + 1
        BY <2>1, <3>5
      <4> QED
        BY <3>2, <4>1
    <3>6. CASE x # i /\ ~(j <= x /\ x <= i - 1) /\ ~(i + 1 <= x /\ x <= j) /\ y = x
      BY <2>1, <3>2, <3>6
    <3> QED
      BY <2>2, <3>3, <3>4, <3>5, <3>6
  <2> QED
    BY <2>3, <2>4 DEF At
<1>10. Follows(s, Moved(i, j), t)
  BY <1>8, <1>9 DEF Follows
<1> QED
  BY <1>3, <1>10 DEF t, r

-----------------------------------------------------------------------------
\* A change from one list to another leaves as many elements of each; clear

\* unshift is monotonic.
LEMMA UnshiftOrder ==
    ASSUME NEW s \in IndexSet, NEW i \in Nat, NEW j \in Nat
    PROVE  /\ i <= j => Unshift(s, i) <= Unshift(s, j)
           /\ i < j /\ i \notin s => Unshift(s, i) < Unshift(s, j)
BY UnshiftFacts

\* A change from one list to another leaves as many elements of the one as of the
\* other.
LEMMA SameRest ==
    ASSUME NEW s \in Seq(Nat), NEW c, NEW t \in Seq(Nat), Follows(s, c, t)
    PROVE  Unshift(c.del, Len(s)) = Unshift(c.ins, Len(t))
<1> DEFINE m == Unshift(c.del, Len(s))
           n == Unshift(c.ins, Len(t))
<1>1. IsChange(c) /\ c.del \in IndexSet /\ c.ins \in IndexSet /\ Len(s) \in Nat /\ Len(t) \in Nat
  BY ChangeFacts DEF Follows
<1>2. m \in Nat /\ n \in Nat
  BY <1>1, UnshiftFacts
<1>3. ~(m < n)
  <2> SUFFICES ASSUME m < n PROVE FALSE
    OBVIOUS
  <2> DEFINE x == Shift(c.del, m)
             y == Shift(c.ins, m)
  <2>1. /\ x \in Nat /\ x \notin c.del /\ Unshift(c.del, x) = m
        /\ y \in Nat /\ y \notin c.ins /\ Unshift(c.ins, y) = m
    BY <1>1, <1>2, ShiftFacts
  <2>2. Where(c.del, c.ins, x) = y
    BY <2>1 DEF Where
  <2> HIDE DEF x, y
  <2>3. <<x, y>> \in Tracks(c)
    BY <1>1, <2>1, <2>2, TracksStays
  <2>4. ~(x < Len(s))
    <3>1. x < Len(s) => Unshift(c.del, x) < Unshift(c.del, Len(s))
      BY <1>1, <2>1, UnshiftOrder
    <3> QED
      BY <1>2, <2>1, <3>1
  <2>5. ~(Len(t) <= y)
    <3>1. Len(t) <= y => n <= Unshift(c.ins, y)
      BY <1>1, <2>1, UnshiftOrder
    <3>2. Len(t) <= y => n <= m
      BY <2>1, <3>1
    <3> HIDE DEF m, n
    <3> QED
      BY <1>2, <3>2
  <2>6. x \notin Indices(s) /\ y \in Indices(t)
    BY <1>1, <2>1, <2>4, <2>5 DEF Indices
  <2> QED
    BY <2>3, <2>6 DEF Follows
<1>4. ~(n < m)
  <2> SUFFICES ASSUME n < m PROVE FALSE
    OBVIOUS
  <2> DEFINE x == Shift(c.del, n)
             y == Shift(c.ins, n)
  <2>1. /\ x \in Nat /\ x \notin c.del /\ Unshift(c.del, x) = n
        /\ y \in Nat /\ y \notin c.ins /\ Unshift(c.ins, y) = n
    BY <1>1, <1>2, ShiftFacts
  <2>2. Where(c.del, c.ins, x) = y
    BY <2>1 DEF Where
  <2> HIDE DEF x, y
  <2>3. <<x, y>> \in Tracks(c)
    BY <1>1, <2>1, <2>2, TracksStays
  <2>4. ~(y < Len(t))
    <3>1. y < Len(t) => Unshift(c.ins, y) < Unshift(c.ins, Len(t))
      BY <1>1, <2>1, UnshiftOrder
    <3> QED
      BY <1>2, <2>1, <3>1
  <2>5. ~(Len(s) <= x)
    <3>1. Len(s) <= x => m <= Unshift(c.del, x)
      BY <1>1, <2>1, UnshiftOrder
    <3>2. Len(s) <= x => m <= n
      BY <2>1, <3>1
    <3> HIDE DEF m, n
    <3> QED
      BY <1>2, <3>2
  <2>6. y \notin Indices(t) /\ x \in Indices(s)
    BY <1>1, <2>1, <2>4, <2>5 DEF Indices
  <2> QED
    BY <2>3, <2>6 DEF Follows
<1> HIDE DEF m, n
<1>5. m = n
  BY <1>2, <1>3, <1>4
<1> QED
  BY <1>5 DEF m, n

\* What unshift makes of the size of a list.
LEMMA BelowAll ==
    ASSUME NEW N \in Nat, NEW d \in IndexSet, d \subseteq 0 .. N - 1
    PROVE  Unshift(d, N) = N - Cardinality(d)
<1>1. {k \in d : k < N} = d
  <2>1. \A k \in d : k \in 0 .. N - 1 /\ k < N
    OBVIOUS
  <2> QED
    BY <2>1
<1> QED
  BY <1>1 DEF Unshift, CountBelow

\* All indices of a list are a set of indices.
LEMMA UpToIsIndexSet ==
    ASSUME NEW N \in Nat
    PROVE  0 .. N - 1 \in IndexSet
BY FS_Interval DEF IndexSet

\* c deletes the whole of s, and inserts nothing
ClearsAll(s, c) ==
    c \in ChangeSet /\ c.del = Indices(s) /\ c.ins = {} /\ c.mod = {} /\ Len(c.moves) = 0

\* Deleting everything makes a list empty, and marks nothing.
LEMMA AllCleared ==
    ASSUME NEW s \in Seq(Nat), NEW c, ClearsAll(s, c)
    PROVE  Follows(s, c, <<>>) /\ Marks(c, <<>>, {})
<1>1. IsChange(c) /\ Len(s) \in Nat /\ c.del = 0 .. Len(s) - 1
  BY DEF ClearsAll, IsChange, MovesMatch, Indices
<1>2. Indices(<<>>) = {}
  BY DEF Indices
<1>3. ASSUME NEW x, NEW y, <<x, y>> \in Tracks(c)
      PROVE  x \notin Indices(s)
  <2>1. ~(\E k \in 1 .. Len(c.moves) : x = c.moves[k].from /\ y = c.moves[k].to)
    BY DEF ClearsAll
  <2>2. x \notin c.del
    BY SMTT(30), <1>1, <1>3, <2>1, TracksFacts
  <2> QED
    BY <2>2 DEF ClearsAll
<1>4. Follows(s, c, <<>>)
  BY <1>1, <1>2, <1>3 DEF Follows, ClearsAll
<1>5. Marks(c, <<>>, {})
  BY DEF Marks, ClearsAll
<1> QED
  BY <1>4, <1>5

\* A new change set with deletions only.
LEMMA WithDeletions ==
    ASSUME NEW d \in IndexSet
    PROVE  LET c == [Empty EXCEPT !.del = d]
           IN  c \in ChangeSet /\ c.del = d /\ c.ins = {} /\ c.mod = {} /\ Len(c.moves) = 0
<1>1. Empty \in ChangeSet /\ Empty.ins = {} /\ Empty.mod = {} /\ Len(Empty.moves) = 0
  BY EmptyIsChange DEF IsChange
<1> HIDE DEF Empty
<1> QED
  BY <1>1 DEF ChangeSet

\* clear computes the size that the list had from its own sets, and gets it right: it
\* deletes all of the old list.
LEMMA ClearOfFollows ==
    ASSUME NEW s \in Seq(Nat), NEW c, NEW t \in Seq(Nat), Follows(s, c, t)
    PROVE  ClearsAll(s, ClearOf(c, Len(t)))
<1>1. IsChange(c) /\ c.del \in IndexSet /\ c.ins \in IndexSet /\ Len(s) \in Nat /\ Len(t) \in Nat
  BY ChangeFacts DEF Follows
<1>2. /\ Cardinality(c.del) \in Nat /\ Cardinality(c.ins) \in Nat
  BY <1>1, UnshiftFacts
<1>3. Unshift(c.del, Len(s)) = Len(s) - Cardinality(c.del)
  BY <1>1, BelowAll DEF Follows, Indices
<1>4. Unshift(c.ins, Len(t)) = Len(t) - Cardinality(c.ins)
  BY <1>1, BelowAll DEF Follows, Indices
<1>5. Len(t) + Cardinality(c.del) - Cardinality(c.ins) - 1 = Len(s) - 1
  <2>1. Unshift(c.del, Len(s)) = Unshift(c.ins, Len(t))
    BY SameRest
  <2> DEFINE l == Len(s)
             m == Len(t)
             p == Cardinality(c.del)
             q == Cardinality(c.ins)
  <2>2. l \in Nat /\ m \in Nat /\ p \in Nat /\ q \in Nat /\ l - p = m - q
    BY <1>1, <1>2, <1>3, <1>4, <2>1
  <2> HIDE DEF l, m, p, q
  <2>3. m + p - q - 1 = l - 1
    BY ONLY <2>2
  <2> QED
    BY ONLY <2>3, Zenon DEF l, m, p, q
<1>6. ClearOf(c, Len(t)) = [Empty EXCEPT !.del = 0 .. Len(s) - 1]
  BY <1>5 DEF ClearOf
<1>7. 0 .. Len(s) - 1 \in IndexSet
  BY <1>1, UpToIsIndexSet
<1> QED
  BY <1>6, <1>7, WithDeletions DEF ClearsAll, Indices

-----------------------------------------------------------------------------
\* Rest, and the changes merged in turn, one after the other

\* What is left of a list, element by element.
RestOne(left, s, out, n) == IF n - 1 \in out THEN left ELSE Append(left, s[n])

\* f is what is left of s after each of its elements.
RestRun(f, s, out) ==
    /\ f[0] = <<>> /\ \A n \in 1 .. Len(s) : f[n] = RestOne(f[n - 1], s, out, n)
    /\ Rest(s, out) = f[Len(s)]

\* A list with one more element.
LEMMA AppendedList ==
    ASSUME NEW S, NEW r \in Seq(S), NEW e \in S
    PROVE  /\ Append(r, e) \in Seq(S) /\ Len(Append(r, e)) = Len(r) + 1 /\ Len(r) \in Nat
           /\ Append(r, e)[Len(r) + 1] = e /\ \A j \in 1 .. Len(r) : Append(r, e)[j] = r[j]
OBVIOUS

\* It is a loop over the list.
LEMMA RestSteps ==
    ASSUME NEW S, NEW s \in Seq(S), NEW out
    PROVE  \E f : RestRun(f, s, out)
<1> DEFINE N == Len(s)
           G == [p \in Seq(S) \X (1 .. N) |-> RestOne(p[1], s, out, p[2])]
           Runs(g) == g = [n \in 0 .. N |-> IF n = 0 THEN <<>>
                                            ELSE IF n - 1 \in out THEN g[n - 1]
                                                 ELSE Append(g[n - 1], s[n])]
           R == CHOOSE g : Runs(g)
<1>1. N \in Nat /\ <<>> \in Seq(S)
  OBVIOUS
<1>2. ASSUME NEW left \in Seq(S), NEW n \in 1 .. N PROVE RestOne(left, s, out, n) \in Seq(S)
  <2>1. s[n] \in S
    OBVIOUS
  <2>2. Append(left, s[n]) \in Seq(S)
    BY <2>1
  <2> QED
    BY <2>2 DEF RestOne
<1>3. G \in [Seq(S) \X (1 .. N) -> Seq(S)]
  BY <1>2
<1>4. Rest(s, out) = R[N]
  BY DEF Rest
<1>a. PICK f : RunOf(f, N, Seq(S), <<>>, G)
  <2> HIDE DEF N, G
  <2> QED
    BY <1>1, <1>3, Recursion
<1>5. f \in [0 .. N -> Seq(S)] /\ f[0] = <<>> /\ \A n \in 1 .. N : f[n] = G[<<f[n - 1], n>>]
  BY <1>a DEF RunOf
<1>6. \A n \in 1 .. N : f[n - 1] \in Seq(S) /\ f[n] = RestOne(f[n - 1], s, out, n)
  <2> SUFFICES ASSUME NEW n \in 1 .. N
               PROVE  f[n - 1] \in Seq(S) /\ f[n] = RestOne(f[n - 1], s, out, n)
    OBVIOUS
  <2>1. n - 1 \in 0 .. N
    BY <1>1
  <2>2. f[n - 1] \in Seq(S) /\ <<f[n - 1], n>> \in Seq(S) \X (1 .. N)
    BY <1>5, <2>1
  <2> QED
    BY <1>5, <2>2
<1> HIDE DEF G
<1>7. Runs(f)
  <2>1. f = [n \in 0 .. N |-> f[n]]
    BY <1>5
  <2>2. ASSUME NEW n \in 0 .. N
        PROVE  f[n] = IF n = 0 THEN <<>>
                      ELSE IF n - 1 \in out THEN f[n - 1] ELSE Append(f[n - 1], s[n])
    <3>1. n = 0 \/ n \in 1 .. N
      BY <1>1
    <3>2. \A m \in 1 .. N : m # 0
      OBVIOUS
    <3>3. n \in 1 .. N => f[n] = IF n - 1 \in out THEN f[n - 1] ELSE Append(f[n - 1], s[n])
      BY <1>6 DEF RestOne
    <3> QED
      BY <1>5, <3>1, <3>2, <3>3
  <2> HIDE DEF N
  <2> QED
    BY <2>1, <2>2
<1>8. Runs(R)
  <2> HIDE DEF Runs
  <2> QED
    BY <1>7
<1>9. R[0] = <<>> /\ \A n \in 1 .. N : R[n] = RestOne(R[n - 1], s, out, n)
  <2> HIDE DEF R
  <2>1. R[0] = <<>>
    BY <1>1, <1>8
  <2>2. ASSUME NEW n \in 1 .. N PROVE R[n] = RestOne(R[n - 1], s, out, n)
    <3>1. n \in 0 .. N /\ n # 0
      BY <1>1
    <3>2. R[n] = IF n = 0 THEN <<>> ELSE IF n - 1 \in out THEN R[n - 1] ELSE Append(R[n - 1], s[n])
      <4> HIDE DEF N
      <4> QED
        BY <1>8, <3>1
    <3> QED
      BY <3>1, <3>2, Zenon DEF RestOne
  <2> QED
    BY <2>1, <2>2
<1> HIDE DEF R
<1> QED
  BY <1>4, <1>9 DEF RestRun

\* r is what is left of the first n elements of s
RestOf(S, r, s, out, n) ==
    /\ r \in Seq(S) /\ Len(r) = Unshift(out, n)
    /\ \A k \in 0 .. n - 1 : k \notin out => r[Unshift(out, k) + 1] = s[k + 1]

\* What is left of a list holds the elements outside of `out`, in their order, at
\* their unshifted places.
LEMMA RestFacts ==
    ASSUME NEW S, NEW s \in Seq(S), NEW out \in IndexSet
    PROVE  RestOf(S, Rest(s, out), s, out, Len(s))
<1> DEFINE N == Len(s)
<1>1. N \in Nat
  OBVIOUS
<1>2. PICK f : RestRun(f, s, out)
  BY RestSteps
<1>3. /\ f[0] = <<>> /\ \A n \in 1 .. N : f[n] = RestOne(f[n - 1], s, out, n)
      /\ Rest(s, out) = f[N]
  BY <1>2 DEF RestRun
<1> DEFINE P == {n \in 0 .. N : RestOf(S, f[n], s, out, n)}
<1>4. 0 \in P
  <2>1. <<>> \in Seq(S) /\ Len(<<>>) = 0 /\ 0 .. 0 - 1 = {}
    OBVIOUS
  <2>2. Unshift(out, 0) = 0
    BY UnshiftFacts
  <2>3. RestOf(S, f[0], s, out, 0)
    BY <1>3, <2>1, <2>2 DEF RestOf
  <2> QED
    BY <1>1, <2>3
<1>5. ASSUME NEW n \in 1 .. N, n - 1 \in P PROVE n \in P
  <2> DEFINE r == f[n - 1]
             u == Unshift(out, n - 1)
  <2>1. n - 1 \in Nat /\ n \in 0 .. N /\ (n - 1) + 1 = n /\ s[n] \in S
    BY <1>1
  <2>2. /\ r \in Seq(S) /\ Len(r) = u
        /\ \A k \in 0 .. n - 2 : k \notin out => r[Unshift(out, k) + 1] = s[k + 1]
    BY <1>5 DEF RestOf
  <2>3. u \in Nat
    BY <2>1, UnshiftFacts
  <2>4. /\ n - 1 \in out => Unshift(out, n) = u
        /\ n - 1 \notin out => Unshift(out, n) = u + 1
    <3>1. Unshift(out, (n - 1) + 1)
            = IF n - 1 \in out THEN Unshift(out, n - 1) ELSE Unshift(out, n - 1) + 1
      BY <2>1, UnshiftFacts
    <3> QED
      BY <2>1, <3>1
  <2>5. f[n] = RestOne(r, s, out, n)
    BY <1>3
  <2>6. \A k \in 0 .. n - 2 : k \notin out => Unshift(out, k) + 1 \in 1 .. u
    <3> SUFFICES ASSUME NEW k \in 0 .. n - 2, k \notin out PROVE Unshift(out, k) + 1 \in 1 .. u
      OBVIOUS
    <3>1. k \in Nat /\ k < n - 1
      BY <2>1
    <3>2. Unshift(out, k) < u /\ Unshift(out, k) \in Nat
      BY <2>1, <3>1, UnshiftOrder, UnshiftFacts
    <3> HIDE DEF u
    <3> QED
      BY <2>3, <3>2
  <2> HIDE DEF r, u
  <2>7. CASE n - 1 \in out
    <3>1. f[n] = r /\ Len(r) = Unshift(out, n)
      BY <2>2, <2>4, <2>5, <2>7 DEF RestOne
    <3>2. \A k \in 0 .. n - 1 : k \notin out => k \in 0 .. n - 2
      BY <2>1, <2>7
    <3> QED
      <4>1. RestOf(S, f[n], s, out, n)
        BY <2>2, <3>1, <3>2 DEF RestOf
      <4> QED
        BY <2>1, <4>1
  <2>8. CASE n - 1 \notin out
    <3>1. f[n] = Append(r, s[n])
      BY <2>5, <2>8 DEF RestOne
    <3>a. /\ Append(r, s[n]) \in Seq(S) /\ Len(Append(r, s[n])) = u + 1
          /\ Append(r, s[n])[u + 1] = s[n] /\ \A j \in 1 .. u : Append(r, s[n])[j] = r[j]
      BY <2>1, <2>2, <2>3, AppendedList
    <3>2. /\ f[n] \in Seq(S) /\ Len(f[n]) = u + 1
          /\ f[n][u + 1] = s[n] /\ \A j \in 1 .. u : f[n][j] = r[j]
      BY ONLY <3>1, <3>a
    <3>3. ASSUME NEW k \in 0 .. n - 1, k \notin out
          PROVE  f[n][Unshift(out, k) + 1] = s[k + 1]
      <4>1. CASE k = n - 1
        BY <2>1, <3>2, <4>1 DEF u
      <4>2. CASE k # n - 1
        <5>1. k \in 0 .. n - 2
          BY <2>1, <4>2
        <5> QED
          <6> DEFINE j == Unshift(out, k) + 1
          <6>1. j \in 1 .. u
            BY <2>6, <3>3, <5>1
          <6>2. r[j] = s[k + 1]
            BY <2>2, <3>3, <5>1
          <6> HIDE DEF j
          <6>3. f[n][j] = r[j]
            BY <3>2, <6>1
          <6> QED
            BY <6>2, <6>3 DEF j
      <4> QED
        BY <4>1, <4>2
    <3> QED
      <4>1. RestOf(S, f[n], s, out, n)
        <5>1. f[n] \in Seq(S) /\ Len(f[n]) = Unshift(out, n)
          BY <2>4, <2>8, <3>2
        <5>2. \A k \in 0 .. n - 1 : k \notin out => f[n][Unshift(out, k) + 1] = s[k + 1]
          BY <3>3
        <5> QED
          BY <5>1, <5>2 DEF RestOf
      <4> QED
        BY <2>1, <4>1
  <2> QED
    BY <2>7, <2>8
<1>6. N \in P
  <2> HIDE DEF P, N
  <2> QED
    BY <1>1, <1>4, <1>5, UpTo
<1> QED
  BY <1>3, <1>6

\* Taking the deletions of c out of s leaves what taking its insertions out of t leaves.
LEMMA FollowsLeavesTheSame ==
    ASSUME NEW s \in Seq(Nat), NEW c, NEW t \in Seq(Nat), Follows(s, c, t)
    PROVE  Rest(s, c.del) = Rest(t, c.ins)
<1> DEFINE r == Rest(s, c.del)
           q == Rest(t, c.ins)
           m == Unshift(c.del, Len(s))
<1>1. IsChange(c) /\ c.del \in IndexSet /\ c.ins \in IndexSet /\ Len(s) \in Nat /\ Len(t) \in Nat
  BY ChangeFacts DEF Follows
<1>2. RestOf(Nat, r, s, c.del, Len(s)) /\ RestOf(Nat, q, t, c.ins, Len(t))
  BY <1>1, RestFacts
<1> HIDE DEF r, q
<1>3. /\ r \in Seq(Nat) /\ Len(r) = m
      /\ \A k \in 0 .. Len(s) - 1 : k \notin c.del => r[Unshift(c.del, k) + 1] = s[k + 1]
  BY <1>2 DEF RestOf
<1>4. /\ q \in Seq(Nat) /\ Len(q) = m
      /\ \A k \in 0 .. Len(t) - 1 : k \notin c.ins => q[Unshift(c.ins, k) + 1] = t[k + 1]
  BY <1>2, SameRest DEF RestOf
<1>5. m \in Nat
  BY <1>1, UnshiftFacts
<1>6. ASSUME NEW p \in 1 .. m PROVE r[p] = q[p]
  <2> DEFINE x == Shift(c.del, p - 1)
             y == Shift(c.ins, p - 1)
  <2>1. p - 1 \in Nat /\ (p - 1) + 1 = p /\ p - 1 < m
    BY <1>5
  <2>2. /\ x \in Nat /\ x \notin c.del /\ Unshift(c.del, x) = p - 1
        /\ y \in Nat /\ y \notin c.ins /\ Unshift(c.ins, y) = p - 1
    BY <1>1, <2>1, ShiftFacts
  <2>3. Where(c.del, c.ins, x) = y
    BY <2>2 DEF Where
  <2> HIDE DEF x, y
  <2>4. <<x, y>> \in Tracks(c)
    BY <1>1, <2>2, <2>3, TracksStays
  <2>5. x < Len(s)
    <3>1. Len(s) <= x => m <= Unshift(c.del, x)
      BY <1>1, <2>2, UnshiftOrder
    <3> HIDE DEF m
    <3> QED
      BY <1>1, <1>5, <2>1, <2>2, <3>1
  <2>6. x \in Indices(s)
    BY <1>1, <2>2, <2>5 DEF Indices
  <2>7. y \in Indices(t) /\ s[x + 1] = t[y + 1]
    BY <2>4, <2>6 DEF Follows, At
  <2>8. r[p] = s[x + 1]
    BY <1>3, <2>1, <2>2, <2>6 DEF Indices
  <2>9. q[p] = t[y + 1]
    BY <1>4, <2>1, <2>2, <2>7 DEF Indices
  <2> QED
    BY <2>7, <2>8, <2>9
<1> HIDE DEF m
<1>7. r = [p \in 1 .. m |-> r[p]] /\ q = [p \in 1 .. m |-> q[p]]
  BY <1>3, <1>4
<1>8. r = q
  BY <1>6, <1>7
<1> QED
  BY <1>8 DEF r, q

\* The changes, as a set.
Changes == {c \in ChangeSet : MovesMatch(c)}

\* merge stays in it.
LEMMA MergedIsChange ==
    ASSUME NEW a \in Changes, NEW c \in Changes
    PROVE  Merge(a, c) \in Changes
BY MergeComposes DEF Changes, IsChange, Continues

\* Changes merged in turn.
InTurnRun(f, changes) ==
    /\ f \in [0 .. Len(changes) -> Changes]
    /\ f[0] = Empty /\ \A n \in 1 .. Len(changes) : f[n] = Merge(f[n - 1], changes[n])
    /\ MergedInTurn(changes) = f[Len(changes)]

\* It is a loop over the changes.
LEMMA InTurnSteps ==
    ASSUME NEW changes \in Seq(Changes)
    PROVE  \E f : InTurnRun(f, changes)
<1> DEFINE N == Len(changes)
           G == [p \in Changes \X (1 .. N) |-> Merge(p[1], changes[p[2]])]
           Runs(g) == g = [n \in 0 .. N |-> IF n = 0 THEN Empty ELSE Merge(g[n - 1], changes[n])]
           R == CHOOSE g : Runs(g)
<1>1. N \in Nat /\ \A n \in 1 .. N : changes[n] \in Changes
  OBVIOUS
<1>2. Empty \in Changes
  BY EmptyIsChange DEF Changes, IsChange
<1>3. G \in [Changes \X (1 .. N) -> Changes]
  BY <1>1, MergedIsChange
<1>4. MergedInTurn(changes) = R[N]
  BY DEF MergedInTurn
<1>a. PICK f : RunOf(f, N, Changes, Empty, G)
  <2> HIDE DEF N, G
  <2> QED
    BY <1>1, <1>2, <1>3, Recursion
<1>5. f \in [0 .. N -> Changes] /\ f[0] = Empty /\ \A n \in 1 .. N : f[n] = G[<<f[n - 1], n>>]
  BY <1>a DEF RunOf
<1>6. \A n \in 1 .. N : f[n - 1] \in Changes /\ f[n] = Merge(f[n - 1], changes[n])
  <2> SUFFICES ASSUME NEW n \in 1 .. N
               PROVE  f[n - 1] \in Changes /\ f[n] = Merge(f[n - 1], changes[n])
    OBVIOUS
  <2>1. n - 1 \in 0 .. N
    BY <1>1
  <2>2. f[n - 1] \in Changes /\ <<f[n - 1], n>> \in Changes \X (1 .. N)
    BY <1>5, <2>1
  <2> QED
    BY <1>5, <2>2
<1> HIDE DEF G
<1>7. Runs(f)
  <2>1. f = [n \in 0 .. N |-> f[n]]
    BY <1>5
  <2>2. ASSUME NEW n \in 0 .. N
        PROVE  f[n] = IF n = 0 THEN Empty ELSE Merge(f[n - 1], changes[n])
    <3>1. n = 0 \/ n \in 1 .. N
      BY <1>1
    <3>2. \A m \in 1 .. N : m # 0
      OBVIOUS
    <3> QED
      BY <1>5, <1>6, <3>1, <3>2
  <2> HIDE DEF N
  <2> QED
    BY <2>1, <2>2
<1>8. Runs(R)
  <2> HIDE DEF Runs
  <2> QED
    BY <1>7
<1>9. R[0] = Empty /\ \A n \in 1 .. N : R[n] = Merge(R[n - 1], changes[n])
  <2> HIDE DEF R
  <2>1. R[0] = Empty
    BY <1>1, <1>8
  <2>2. ASSUME NEW n \in 1 .. N PROVE R[n] = Merge(R[n - 1], changes[n])
    BY <1>1, <1>8
  <2> QED
    BY <2>1, <2>2
<1>10. R \in [0 .. N -> Changes]
  <2> HIDE DEF R
  <2> DEFINE P == {n \in 0 .. N : R[n] \in Changes}
  <2>1. 0 \in P
    BY <1>1, <1>2, <1>9
  <2>2. ASSUME NEW n \in 1 .. N, n - 1 \in P PROVE n \in P
    <3>1. Merge(R[n - 1], changes[n]) \in Changes
      BY <1>1, <2>2, MergedIsChange
    <3> QED
      BY <1>1, <1>9, <3>1
  <2>3. \A n \in 0 .. N : n \in P
    <3> SUFFICES ASSUME NEW n \in 0 .. N PROVE n \in P
      OBVIOUS
    <3>1. n \in Nat /\ \A k \in 1 .. n : k - 1 \in P => k \in P
      BY <1>1, <2>2
    <3> HIDE DEF P
    <3> QED
      BY <2>1, <3>1, UpTo
  <2>4. R = [n \in 0 .. N |-> R[n]]
    BY <1>8
  <2> QED
    BY <2>3, <2>4
<1> HIDE DEF R
<1> QED
  BY <1>4, <1>9, <1>10 DEF InTurnRun

\* Nothing merged is a new change set.
LEMMA InTurnOfNone ==
    MergedInTurn(<<>>) = Empty
<1>1. <<>> \in Seq(Changes) /\ Len(<<>>) = 0
  OBVIOUS
<1>2. PICK f : InTurnRun(f, <<>>)
  BY <1>1, InTurnSteps
<1> QED
  BY <1>1, <1>2 DEF InTurnRun

\* One more piece is merged with what the pieces before it make.
LEMMA InTurnOfOneMore ==
    ASSUME NEW changes \in Seq(Changes), NEW c \in Changes
    PROVE  /\ MergedInTurn(changes) \in Changes
           /\ MergedInTurn(Append(changes, c)) = Merge(MergedInTurn(changes), c)
<1> DEFINE N == Len(changes)
           more == Append(changes, c)
<1>1. /\ N \in Nat /\ more \in Seq(Changes) /\ Len(more) = N + 1 /\ more[N + 1] = c
      /\ \A n \in 1 .. N : more[n] = changes[n]
  OBVIOUS
<1> HIDE DEF more
<1>2. PICK f : InTurnRun(f, changes)
  BY InTurnSteps
<1>3. PICK g : InTurnRun(g, more)
  BY <1>1, InTurnSteps
<1>4. /\ f \in [0 .. N -> Changes]
      /\ f[0] = Empty /\ \A n \in 1 .. N : f[n] = Merge(f[n - 1], changes[n])
      /\ MergedInTurn(changes) = f[N]
  BY <1>2 DEF InTurnRun
<1>5. /\ g[0] = Empty /\ \A n \in 1 .. N + 1 : g[n] = Merge(g[n - 1], more[n])
      /\ MergedInTurn(more) = g[N + 1]
  BY <1>1, <1>3 DEF InTurnRun
<1> HIDE DEF N
<1> DEFINE P == {n \in 0 .. N : f[n] = g[n]}
<1>6. 0 \in P
  BY <1>1, <1>4, <1>5
<1>7. ASSUME NEW n \in 1 .. N, n - 1 \in P PROVE n \in P
  <2>1. n \in 0 .. N /\ n \in 1 .. N + 1 /\ f[n - 1] = g[n - 1]
    BY <1>1, <1>7
  <2> QED
    BY <1>1, <1>4, <1>5, <2>1
<1>8. N \in P
  <2> HIDE DEF P
  <2> QED
    BY <1>1, <1>6, <1>7, UpTo
<1>9. g[N + 1] = Merge(g[N], more[N + 1])
  <2>1. N + 1 \in 1 .. N + 1 /\ (N + 1) - 1 = N
    BY <1>1
  <2> QED
    BY <1>5, <2>1
<1> QED
  BY <1>1, <1>4, <1>5, <1>8, <1>9 DEF more

-----------------------------------------------------------------------------
\* What a change shows of a list, and of the elements modified

\* c makes s to t, and marks only elements of T
Shows(s, c, t, T) == Follows(s, c, t) /\ Marks(c, t, T)

\* c marks exactly the elements of T, of those it does not insert
MarksAll(c, t, T) ==
    \A x, y : <<x, y>> \in Tracks(c) => (y \in c.mod <=> y \in Indices(t) /\ At(t, y) \in T)

\* What continues a change of s to mid by one of mid to t shows what both show.
LEMMA ContinuedShows ==
    ASSUME NEW s \in Seq(Nat), NEW mid \in Seq(Nat), NEW t \in Seq(Nat), NEW T,
           NEW a, Shows(s, a, mid, T), NEW c, Shows(mid, c, t, T),
           NEW m, Continues(m, a, c), KeepsModifications(m, a, c)
    PROVE  Shows(s, m, t, T)
BY ContinuedFollows, ContinuedMarks DEF Shows

\* Two changes that mark just the elements of T and of U continue to one that marks
\* just those of both.
LEMMA ContinuedMarksAll ==
    ASSUME NEW s, NEW mid, NEW t, NEW T, NEW U,
           NEW a, Follows(s, a, mid), MarksAll(a, mid, T),
           NEW c, Follows(mid, c, t), MarksAll(c, t, U),
           NEW m, Continues(m, a, c), KeepsModifications(m, a, c)
    PROVE  MarksAll(m, t, T \cup U)
<1> SUFFICES ASSUME NEW x, NEW y, <<x, y>> \in Tracks(m)
             PROVE  y \in m.mod <=> y \in Indices(t) /\ At(t, y) \in T \cup U
  BY DEF MarksAll
<1>1. <<x, y>> \in FollowedBy(Tracks(a), Tracks(c))
  BY DEF Continues
<1>2. PICK w \in Nat : <<x, w>> \in Tracks(a) /\ <<w, y>> \in Tracks(c)
  BY <1>1 DEF FollowedBy
<1>3. y \in m.mod <=> w \in a.mod \/ y \in c.mod
  BY <1>2 DEF KeepsModifications
<1>4. w \in a.mod <=> w \in Indices(mid) /\ At(mid, w) \in T
  BY <1>2 DEF MarksAll
<1>5. y \in c.mod <=> y \in Indices(t) /\ At(t, y) \in U
  BY <1>2 DEF MarksAll
<1>6. /\ w \in Indices(mid) <=> y \in Indices(t)
      /\ w \in Indices(mid) => At(mid, w) = At(t, y)
  BY <1>2 DEF Follows
<1> QED
  BY <1>3, <1>4, <1>5, <1>6

\* d is c but for its modifications
SameShape(d, c) ==
    d \in ChangeSet /\ d.del = c.del /\ d.ins = c.ins /\ d.moves = c.moves

\* The modifications do not change where a change leads an index.
LEMMA SameShapeFollows ==
    ASSUME NEW s, NEW c, NEW t, Follows(s, c, t), NEW d, SameShape(d, c)
    PROVE  Follows(s, d, t) /\ Tracks(d) = Tracks(c)
<1>1. Tracks(d) = Tracks(c)
  BY DEF SameShape, Tracks, Stays
<1>2. IsChange(d)
  BY DEF SameShape, Follows, IsChange, MovesMatch
<1> QED
  BY <1>1, <1>2 DEF SameShape, Follows

\* Marking indices changes nothing else.
LEMMA Modified ==
    ASSUME NEW c, IsChange(c), NEW s \in IndexSet
    PROVE  LET d == [c EXCEPT !.mod = @ \cup s]
           IN  SameShape(d, c) /\ d.mod = c.mod \cup s
<1>1. c \in ChangeSet /\ c.mod \in IndexSet
  BY ChangeFacts
<1>2. c.mod \cup s \in IndexSet
  BY <1>1, IndexSetParts
<1> QED
  BY <1>1, <1>2 DEF SameShape, ChangeSet

\* clean_up_stale_moves changes nothing of what a change shows.
LEMMA CleanedShows ==
    ASSUME NEW s, NEW c, NEW t, NEW T, Shows(s, c, t, T)
    PROVE  Shows(s, CleanUp(c), t, T)
<1>1. IsChange(c)
  BY DEF Shows, Follows
<1>2. /\ IsChange(CleanUp(c)) /\ Tracks(CleanUp(c)) = Tracks(c) /\ CleanUp(c).mod = c.mod
      /\ CleanUp(c).del \subseteq c.del /\ CleanUp(c).ins \subseteq c.ins
  BY <1>1, CleanUpKeepsTracks
<1> HIDE DEF CleanUp
<1> QED
  BY <1>2 DEF Shows, Follows, Marks

\* one more insertion, deletion or move
LEMMA OneMoreShows ==
    ASSUME NEW s \in Seq(Nat), NEW t \in Seq(Nat), NEW u \in Seq(Nat), NEW T,
           NEW c, Shows(s, c, t, T), NEW one, Follows(t, one, u), one.mod = {},
           NEW m, Continues(m, c, one), KeepsModifications(m, c, one)
    PROVE  Shows(s, m, u, T)
<1>1. Shows(t, one, u, T)
  BY DEF Shows, Marks
<1> QED
  BY <1>1, ContinuedShows

\* An insertion, a deletion and a move modify nothing.
LEMMA StepsModifyNothing ==
    ASSUME NEW i, NEW j
    PROVE  Inserted(i).mod = {} /\ Erased(i).mod = {} /\ Moved(i, j).mod = {}
BY DEF Inserted, Erased, Moved, Empty

\* insert, on the log of a list.
LEMMA InsertShows ==
    ASSUME NEW s \in Seq(Nat), NEW t \in Seq(Nat), NEW T, NEW c, Shows(s, c, t, T),
           NEW i \in Nat, i <= Len(t), NEW e \in Nat
    PROVE  /\ InsertAt(t, i + 1, e) \in Seq(Nat)
           /\ Shows(s, Insert(c, i), InsertAt(t, i + 1, e), T)
<1>1. IsChange(c)
  BY DEF Shows, Follows
<1>2. Continues(Insert(c, i), c, Inserted(i)) /\ KeepsModifications(Insert(c, i), c, Inserted(i))
  BY <1>1, InsertComposes, StepsKeepModifications
<1>3. /\ InsertAt(t, i + 1, e) \in Seq(Nat)
      /\ Follows(t, Inserted(i), InsertAt(t, i + 1, e)) /\ Inserted(i).mod = {}
  BY InsertedFollows, StepsModifyNothing
<1> QED
  BY <1>2, <1>3, OneMoreShows

\* erase, on the log of a list.
LEMMA EraseShows ==
    ASSUME NEW s \in Seq(Nat), NEW t \in Seq(Nat), NEW T, NEW c, Shows(s, c, t, T),
           NEW i \in Nat, i < Len(t)
    PROVE  /\ RemoveAt(t, i + 1) \in Seq(Nat)
           /\ Shows(s, Erase(c, i), RemoveAt(t, i + 1), T)
<1>1. IsChange(c)
  BY DEF Shows, Follows
<1>2. Continues(Erase(c, i), c, Erased(i)) /\ KeepsModifications(Erase(c, i), c, Erased(i))
  BY <1>1, EraseComposes, StepsKeepModifications
<1>3. /\ RemoveAt(t, i + 1) \in Seq(Nat)
      /\ Follows(t, Erased(i), RemoveAt(t, i + 1)) /\ Erased(i).mod = {}
  BY ErasedFollows, StepsModifyNothing
<1> QED
  BY <1>2, <1>3, OneMoreShows

\* move, on the log of a list.
LEMMA MoveShows ==
    ASSUME NEW s \in Seq(Nat), NEW t \in Seq(Nat), NEW T, NEW c, Shows(s, c, t, T),
           NEW i \in Nat, i < Len(t), NEW j \in Nat, j < Len(t)
    PROVE  /\ InsertAt(RemoveAt(t, i + 1), j + 1, At(t, i)) \in Seq(Nat)
           /\ Shows(s, MoveRow(c, i, j), InsertAt(RemoveAt(t, i + 1), j + 1, At(t, i)), T)
<1> DEFINE u == InsertAt(RemoveAt(t, i + 1), j + 1, At(t, i))
<1>1. IsChange(c)
  BY DEF Shows, Follows
<1>2. /\ Continues(MoveRow(c, i, j), c, Moved(i, j))
      /\ KeepsModifications(MoveRow(c, i, j), c, Moved(i, j))
  BY <1>1, MoveComposes, StepsKeepModifications
<1>3. u \in Seq(Nat) /\ Follows(t, Moved(i, j), u) /\ Moved(i, j).mod = {}
  BY MovedFollows, StepsModifyNothing
<1> HIDE DEF u
<1>4. Shows(s, MoveRow(c, i, j), u, T)
  BY <1>2, <1>3, OneMoreShows
<1> QED
  BY <1>3, <1>4 DEF u

\* Marking two places, on the log of a list.
LEMMA SetShows ==
    ASSUME NEW s \in Seq(Nat), NEW t \in Seq(Nat), NEW T, NEW c, Shows(s, c, t, T),
           NEW i \in Indices(t), NEW j \in Indices(t)
    PROVE  Shows(s, [c EXCEPT !.mod = @ \cup {i, j}], t, T \cup {At(t, i), At(t, j)})
<1> DEFINE d == [c EXCEPT !.mod = @ \cup {i, j}]
           U == T \cup {At(t, i), At(t, j)}
<1>1. IsChange(c)
  BY DEF Shows, Follows
<1>2. {i, j} \in IndexSet
  <2>1. i \in Nat /\ j \in Nat
    BY IndicesAre
  <2>2. {i} \in IndexSet /\ {j} \in IndexSet
    BY <2>1, OfOneIndex
  <2>3. {i} \cup {j} = {i, j}
    OBVIOUS
  <2> QED
    BY <2>2, <2>3, IndexSetParts
<1>3. SameShape(d, c) /\ d.mod = c.mod \cup {i, j}
  BY <1>1, <1>2, Modified
<1> HIDE DEF d
<1>4. Follows(s, d, t) /\ Tracks(d) = Tracks(c)
  BY <1>3, SameShapeFollows DEF Shows
<1>5. Marks(d, t, U)
  <2> SUFFICES ASSUME NEW x, NEW y, <<x, y>> \in Tracks(d), y \in d.mod
               PROVE  y \in Indices(t) /\ At(t, y) \in U
    BY DEF Marks
  <2>1. y \in c.mod \/ y = i \/ y = j
    BY <1>3
  <2>2. y \in c.mod => y \in Indices(t) /\ At(t, y) \in T
    BY <1>4 DEF Shows, Marks
  <2> QED
    BY <2>1, <2>2
<1>6. Shows(s, d, t, U)
  BY <1>4, <1>5 DEF Shows
<1> QED
  BY <1>6 DEF d

\* clear, on the log of a list.
LEMMA ClearShows ==
    ASSUME NEW s \in Seq(Nat), NEW t \in Seq(Nat), NEW T, NEW c, Shows(s, c, t, T)
    PROVE  Shows(s, ClearOf(c, Len(t)), <<>>, T)
<1>1. ClearsAll(s, ClearOf(c, Len(t)))
  BY ClearOfFollows DEF Shows
<1>2. Follows(s, ClearOf(c, Len(t)), <<>>) /\ Marks(ClearOf(c, Len(t)), <<>>, {})
  BY <1>1, AllCleared
<1> QED
  BY <1>2, MoreMarks DEF Shows

\* merge, of two changes of a list that follow each other.
LEMMA MergeShows ==
    ASSUME NEW s \in Seq(Nat), NEW mid \in Seq(Nat), NEW t \in Seq(Nat), NEW T,
           NEW a, Shows(s, a, mid, T), NEW c, Shows(mid, c, t, T)
    PROVE  Shows(s, Merge(a, c), t, T)
<1>1. IsChange(a) /\ IsChange(c)
  BY DEF Shows, Follows
<1> QED
  BY <1>1, MergeComposes, MergeKeepsModifications, ContinuedShows

-----------------------------------------------------------------------------
\* Lists: the inductive invariant

\* The pieces read so far make the list of the last run to what it was when the last of
\* them was complete, and the log makes that to the list that is there now.
Read == \E mid \in Seq(Nat) : /\ Shows(prev, MergedInTurn(pieces), mid, touched)
                              /\ Shows(mid, log, now, touched)

\* The changes not delivered yet make the list the callback knows to the one of the last
\* run.
Accumulated == Follows(base, acc, prev) /\ MarksAll(acc, prev, dirty)

\* The inductive invariant.  While the owner of the list is there, the builder is what
\* makes the list of the last run to the one now; when it is deleted, there must be
\* nothing left in the log, or the behaviour is excused.
ListInv ==
    /\ now \in Seq(Nat) /\ prev \in Seq(Nat) /\ base \in Seq(Nat) /\ made \in Nat
    /\ pieces \in Seq(Changes)
    /\ ~gone => ~excused /\ Read
    /\ gone /\ ~excused => log = Empty /\ pieces = <<>> /\ now = <<>>
    /\ ~excused => Accumulated

\* A new builder shows that nothing changed.
LEMMA EmptyShows ==
    ASSUME NEW s \in Seq(Nat), NEW T
    PROVE  Shows(s, Empty, s, T) /\ MarksAll(Empty, s, {})
BY EmptyFollows, EmptyMarks, EmptyIsChange DEF Shows, MarksAll

\* So do no pieces.
LEMMA NothingRead ==
    ASSUME NEW s \in Seq(Nat), NEW T
    PROVE  Shows(s, MergedInTurn(<<>>), s, T)
BY InTurnOfNone, EmptyShows

\* The invariant holds at first.
LEMMA ListInit ==
    ASSUME Init, kind = "list"
    PROVE  ListInv
<1>1. InitialSize[kind] \in Nat
  BY BoundsAssumption DEF Init
<1>2. now \in Seq(Nat) /\ made \in Nat
  BY <1>1 DEF Init
<1>3. prev = now /\ base = now
  BY DEF Init, Selections
<1>4. pieces = <<>> /\ log = Empty /\ acc = Empty /\ ~excused /\ ~gone /\ dirty = {}
  BY DEF Init
<1>5. pieces \in Seq(Changes)
  BY <1>4
<1>6. Read
  BY <1>2, <1>3, <1>4, NothingRead, EmptyShows DEF Read
<1>7. Accumulated
  BY <1>2, <1>3, <1>4, EmptyShows DEF Accumulated, Shows
<1> QED
  BY <1>2, <1>3, <1>4, <1>5, <1>6, <1>7 DEF ListInv

\* What an instruction does to what has been read, it does to the invariant.
LEMMA InstructionKeeps ==
    ASSUME ListInv, ~gone, NEW contents \in Seq(Nat), NEW change, Instruction(contents, change),
           made' \in Nat, UNCHANGED excused, touched \subseteq touched',
           \A mid \in Seq(Nat) :
               Shows(mid, log, now, touched) => Shows(mid, change, contents, touched')
    PROVE  ListInv'
<1>1. /\ now' = contents /\ log' = change
      /\ UNCHANGED <<gone, prev, base, acc, dirty, pieces, excused>>
  BY DEF Instruction, runs
<1>2. PICK mid \in Seq(Nat) : /\ Shows(prev, MergedInTurn(pieces), mid, touched)
                              /\ Shows(mid, log, now, touched)
  BY DEF ListInv, Read
<1>3. Shows(mid, log', now', touched')
  BY <1>1, <1>2
<1>4. Shows(prev, MergedInTurn(pieces), mid, touched')
  BY <1>2, MoreMarks DEF Shows
<1>5. Read'
  <2>1. Shows(prev', MergedInTurn(pieces'), mid, touched')
    BY <1>1, <1>4
  <2> QED
    BY <1>3, <2>1 DEF Read
<1>6. Accumulated'
  BY <1>1 DEF ListInv, Accumulated
<1> QED
  BY <1>1, <1>5, <1>6 DEF ListInv

\* The indices that Next ranges over are indices.
LEMMA BoundIsNat == \A i \in 0 .. MaxElements - 1 : i \in Nat
BY BoundsAssumption

\* What a run adds to the accumulated changes.
LEMMA AddChangesKeeps ==
    ASSUME ListInv, NEW change, NEW collection \in Seq(Nat), AddChanges(change, collection),
           UNCHANGED excused,
           ~excused => /\ Follows(prev, change, collection)
                       /\ MarksAll(change, collection, touched) /\ now = collection
    PROVE  ListInv'
<1>1. /\ acc' = Merge(acc, change) /\ prev' = collection
      /\ dirty' = dirty \cup touched /\ touched' = {} /\ log' = Empty /\ pieces' = <<>>
      /\ UNCHANGED <<gone, now, made, base, excused>>
  BY DEF AddChanges
<1>2. /\ now' \in Seq(Nat) /\ prev' \in Seq(Nat) /\ base' \in Seq(Nat) /\ made' \in Nat
      /\ pieces' \in Seq(Changes)
  BY <1>1 DEF ListInv
<1>3. CASE excused
  BY <1>1, <1>2, <1>3 DEF ListInv
<1>4. CASE ~excused
  <2>1. Follows(base, acc, prev) /\ MarksAll(acc, prev, dirty)
    BY <1>4 DEF ListInv, Accumulated
  <2>2. IsChange(acc) /\ IsChange(change)
    BY <1>4, <2>1 DEF Follows
  <2>3. Continues(Merge(acc, change), acc, change) /\ KeepsModifications(Merge(acc, change), acc, change)
    BY <2>2, MergeComposes, MergeKeepsModifications
  <2>4. prev \in Seq(Nat) /\ base \in Seq(Nat)
    BY DEF ListInv
  <2>5. Follows(base, acc', prev')
    BY <1>1, <1>4, <2>1, <2>3, <2>4, ContinuedFollows
  <2>6. MarksAll(acc', prev', dirty')
    BY <1>1, <1>4, <2>1, <2>3, ContinuedMarksAll
  <2>7. Accumulated'
    BY <1>1, <2>5, <2>6 DEF Accumulated
  <2>8. Shows(prev', MergedInTurn(pieces'), prev', touched') /\ Shows(prev', log', now', touched')
    BY <1>1, <1>2, <1>4, NothingRead, EmptyShows
  <2>9. Read'
    BY <1>2, <2>8 DEF Read
  <2>10. gone' => log' = Empty /\ pieces' = <<>> /\ now' = <<>>
    BY <1>1, <1>4 DEF ListInv
  <2> QED
    BY <1>1, <1>2, <1>4, <2>7, <2>9, <2>10 DEF ListInv
<1> QED
  BY <1>3, <1>4

\* Every step keeps the invariant, the instructions on tables and the runs of results
\* included, which never happen to a list.
LEMMA ListStep ==
    ASSUME kind = "list", ListInv, [Next]_vars
    PROVE  ListInv'
<1>t. /\ now \in Seq(Nat) /\ prev \in Seq(Nat) /\ made \in Nat /\ Len(now) \in Nat
      /\ pieces \in Seq(Changes)
  BY DEF ListInv
<1>k. ~Table
  BY DEF Table
<1>1. ASSUME NEW i \in 0 .. MaxElements - 1, LinkListInsert(i) PROVE ListInv'
  <2>1. /\ i \in Nat /\ i <= Len(now) /\ made' = made + 1 /\ UNCHANGED <<touched, excused>> /\ ~gone
        /\ Instruction(InsertAt(now, i + 1, made'), Insert(log, i))
    BY <1>1, BoundIsNat DEF LinkListInsert, Instruction
  <2>2. made' \in Nat
    BY <1>t, <2>1
  <2>3. \A mid \in Seq(Nat) : Shows(mid, log, now, touched) =>
            Shows(mid, Insert(log, i), InsertAt(now, i + 1, made'), touched')
    BY <1>t, <2>1, <2>2, InsertShows
  <2>4. InsertAt(now, i + 1, made') \in Seq(Nat)
    BY <1>t, <2>1, <2>2, InsertedFollows
  <2> QED
    BY <2>1, <2>2, <2>3, <2>4, InstructionKeeps
<1>2. ASSUME NEW i \in 0 .. MaxElements - 1, LinkListErase(i) PROVE ListInv'
  <2>1. /\ i \in Nat /\ i < Len(now) /\ UNCHANGED <<made, touched, excused>> /\ ~gone
        /\ Instruction(RemoveAt(now, i + 1), Erase(log, i))
    BY <1>2, <1>t, BoundIsNat DEF LinkListErase, Instruction, Indices
  <2>2. \A mid \in Seq(Nat) : Shows(mid, log, now, touched) =>
            Shows(mid, Erase(log, i), RemoveAt(now, i + 1), touched')
    BY <1>t, <2>1, EraseShows
  <2>3. RemoveAt(now, i + 1) \in Seq(Nat)
    BY <1>t, <2>1, ErasedFollows
  <2> QED
    BY <1>t, <2>1, <2>2, <2>3, InstructionKeeps
<1>3. ASSUME NEW i \in 0 .. MaxElements - 1, NEW j \in 0 .. MaxElements - 1, LinkListMove(i, j)
      PROVE  ListInv'
  <2> DEFINE u == InsertAt(RemoveAt(now, i + 1), j + 1, At(now, i))
  <2>1. /\ i \in Nat /\ i < Len(now) /\ j \in Nat /\ j < Len(now)
        /\ UNCHANGED <<made, touched, excused>> /\ ~gone /\ Instruction(u, MoveRow(log, i, j))
    BY <1>3, <1>t, BoundIsNat DEF LinkListMove, Instruction, Indices
  <2>2. \A mid \in Seq(Nat) : Shows(mid, log, now, touched) =>
            Shows(mid, MoveRow(log, i, j), u, touched')
    BY <1>t, <2>1, MoveShows
  <2>3. u \in Seq(Nat)
    BY <1>t, <2>1, MovedFollows
  <2> HIDE DEF u
  <2> QED
    BY <1>t, <2>1, <2>2, <2>3, InstructionKeeps
<1>4. ASSUME NEW i \in 0 .. MaxElements - 1, NEW j \in 0 .. MaxElements - 1, LinkListSet(i, j)
      PROVE  ListInv'
  <2> DEFINE d == [log EXCEPT !.mod = @ \cup {i, j}]
  <2>1. /\ i \in Indices(now) /\ j \in Indices(now)
        /\ touched' = touched \cup {At(now, i), At(now, j)}
        /\ UNCHANGED <<made, excused>> /\ ~gone /\ Instruction(now, d)
    BY <1>4 DEF LinkListSet, Instruction
  <2>2. \A mid \in Seq(Nat) : Shows(mid, log, now, touched) => Shows(mid, d, now, touched')
    BY <1>t, <2>1, SetShows
  <2> HIDE DEF d
  <2> QED
    BY <1>t, <2>1, <2>2, InstructionKeeps
<1>5. ASSUME LinkListClear PROVE ListInv'
  <2>1. /\ UNCHANGED <<made, touched, excused>> /\ ~gone
        /\ Instruction(<<>>, ClearOf(log, Len(now)))
    BY <1>5 DEF LinkListClear, Instruction
  <2>2. \A mid \in Seq(Nat) : Shows(mid, log, now, touched) =>
            Shows(mid, ClearOf(log, Len(now)), <<>>, touched')
    BY <1>t, <2>1, ClearShows
  <2>3. <<>> \in Seq(Nat)
    OBVIOUS
  <2> QED
    BY <1>t, <2>1, <2>2, <2>3, InstructionKeeps
<1>6. ASSUME NEW e \in Elements, ModifyObject(e) PROVE ListInv'
  <2>1. /\ touched' = touched \cup {e} /\ UNCHANGED <<made, excused>> /\ ~gone
        /\ Instruction(now, log)
    BY <1>6 DEF ModifyObject, Instruction
  <2>2. \A mid \in Seq(Nat) : Shows(mid, log, now, touched) => Shows(mid, log, now, touched')
    BY <2>1, MoreMarks DEF Shows
  <2> QED
    BY <1>t, <2>1, <2>2, InstructionKeeps
<1>7. ASSUME DeleteOwner PROVE ListInv'
  <2>1. /\ ~gone /\ gone' /\ now' = <<>> /\ (excused' <=> log # Empty \/ pieces # <<>>)
        /\ UNCHANGED <<made, prev, base, acc, dirty, log, pieces>>
    BY <1>7 DEF DeleteOwner, runs
  <2>2. <<>> \in Seq(Nat)
    OBVIOUS
  <2>3. Accumulated'
    BY <2>1 DEF ListInv, Accumulated
  <2> QED
    BY <2>1, <2>2, <2>3 DEF ListInv
<1>8. ASSUME AdvanceIncremental PROVE ListInv'
  <2>1. /\ ~gone /\ pieces' = Append(pieces, CleanUp(log)) /\ log' = Empty
        /\ UNCHANGED <<gone, now, made, touched, prev, base, acc, dirty, excused>>
    BY <1>8, <1>k DEF AdvanceIncremental, Complete, content, runs
  <2>2. PICK mid \in Seq(Nat) : /\ Shows(prev, MergedInTurn(pieces), mid, touched)
                                /\ Shows(mid, log, now, touched)
    BY <2>1 DEF ListInv, Read
  <2>3. Shows(mid, CleanUp(log), now, touched)
    BY <2>2, CleanedShows
  <2>4. CleanUp(log) \in Changes
    BY <2>3 DEF Shows, Follows, IsChange, Changes
  <2>5. Shows(prev, Merge(MergedInTurn(pieces), CleanUp(log)), now, touched)
    BY <1>t, <2>2, <2>3, MergeShows
  <2>6. MergedInTurn(pieces') = Merge(MergedInTurn(pieces), CleanUp(log))
    BY <1>t, <2>1, <2>4, InTurnOfOneMore
  <2>7. Read'
    <3>1. Shows(prev', MergedInTurn(pieces'), now, touched') /\ Shows(now, log', now', touched')
      BY <1>t, <2>1, <2>5, <2>6, EmptyShows
    <3> QED
      BY <1>t, <3>1 DEF Read
  <2>8. pieces' \in Seq(Changes)
    BY <1>t, <2>1, <2>4
  <2>9. Accumulated'
    BY <2>1 DEF ListInv, Accumulated
  <2> QED
    BY <2>1, <2>7, <2>8, <2>9 DEF ListInv
<1>9. ASSUME RunList PROVE ListInv'
  <2> DEFINE changed == {i \in Indices(now) : At(now, i) \in touched}
             all == AllPieces
             change == [all EXCEPT !.mod = @ \cup changed]
  <2>1. ~gone /\ ~excused /\ AddChanges(change, now) /\ UNCHANGED excused
    BY <1>9 DEF RunList, ListInv
  <2>2. PICK mid \in Seq(Nat) : /\ Shows(prev, MergedInTurn(pieces), mid, touched)
                                /\ Shows(mid, log, now, touched)
    BY <2>1 DEF ListInv, Read
  <2>3. Shows(mid, CleanUp(log), now, touched)
    BY <2>2, CleanedShows
  <2>4. CleanUp(log) \in Changes
    BY <2>3 DEF Shows, Follows, IsChange, Changes
  <2>5. all = Merge(MergedInTurn(pieces), CleanUp(log))
    <3>1. all = MergedInTurn(Append(pieces, CleanUp(log)))
      BY <1>k DEF AllPieces, Complete
    <3> QED
      BY <1>t, <2>4, <3>1, InTurnOfOneMore
  <2>6. Shows(prev, all, now, touched)
    BY <1>t, <2>2, <2>3, <2>5, MergeShows
  <2>7. changed \in IndexSet
    <3>1. Indices(now) \in IndexSet
      BY <1>t, UpToIsIndexSet DEF Indices
    <3> QED
      BY <3>1, IndexSetParts
  <2>8. IsChange(all)
    BY <2>6 DEF Shows, Follows
  <2> HIDE DEF all
  <2>9. SameShape(change, all) /\ change.mod = all.mod \cup changed
    <3> HIDE DEF changed
    <3> QED
      BY <2>7, <2>8, Modified
  <2> HIDE DEF change
  <2>10. Follows(prev, change, now) /\ Tracks(change) = Tracks(all)
    BY <2>6, <2>9, SameShapeFollows DEF Shows
  <2>11. MarksAll(change, now, touched)
    <3> SUFFICES ASSUME NEW x, NEW y, <<x, y>> \in Tracks(change)
                 PROVE  y \in change.mod <=> y \in Indices(now) /\ At(now, y) \in touched
      BY DEF MarksAll
    <3>1. y \in all.mod => y \in Indices(now) /\ At(now, y) \in touched
      BY <2>6, <2>10 DEF Shows, Marks
    <3> QED
      BY <2>9, <3>1
  <2> QED
    BY <1>t, <2>1, <2>10, <2>11, AddChangesKeeps
<1>10. ASSUME RunGone PROVE ListInv'
  <2> DEFINE change == [(IF pieces = <<>> THEN log ELSE Head(pieces)) EXCEPT !.del = Indices(prev)]
  <2>1. gone /\ AddChanges(change, <<>>) /\ <<>> \in Seq(Nat) /\ UNCHANGED excused
    BY <1>10 DEF RunGone
  <2>2. ASSUME ~excused
        PROVE  /\ Follows(prev, change, <<>>) /\ MarksAll(change, <<>>, touched) /\ now = <<>>
    <3>1. log = Empty /\ pieces = <<>> /\ now = <<>>
      BY <2>1, <2>2 DEF ListInv
    <3>2. change = [Empty EXCEPT !.del = Indices(prev)]
      BY <3>1
    <3>3. Indices(prev) \in IndexSet
      BY <1>t, UpToIsIndexSet DEF Indices
    <3> HIDE DEF change
    <3>4. ClearsAll(prev, change)
      BY <3>2, <3>3, WithDeletions DEF ClearsAll
    <3>5. Follows(prev, change, <<>>)
      BY <1>t, <3>4, AllCleared
    <3>6. MarksAll(change, <<>>, touched)
      BY <3>4 DEF ClearsAll, MarksAll, Indices
    <3> QED
      BY <3>1, <3>5, <3>6
  <2> HIDE DEF change
  <2> QED
    BY <2>1, <2>2, AddChangesKeeps
<1>11. ASSUME Deliver PROVE ListInv'
  <2>1. /\ acc' = Empty /\ base' = prev /\ dirty' = {}
        /\ UNCHANGED <<gone, now, made, touched, prev, log, pieces, excused>>
    BY <1>11 DEF Deliver, content
  <2>2. Accumulated'
    BY <1>t, <2>1, EmptyShows DEF Accumulated, Shows
  <2>3. Read => Read'
    BY <2>1 DEF Read
  <2> QED
    BY <2>1, <2>2, <2>3 DEF ListInv
<1>12. CASE UNCHANGED vars
  <2>1. UNCHANGED <<gone, now, made, touched, prev, base, acc, dirty, log, pieces, excused>>
    BY <1>12 DEF vars, content, runs
  <2>2. (Read => Read') /\ (Accumulated => Accumulated')
    BY <2>1 DEF Read, Accumulated
  <2> QED
    BY <2>1, <2>2 DEF ListInv
<1>13. ASSUME NEW i \in 0 .. MaxElements - 1, EraseRow(i) \/ ModifyRow(i) PROVE FALSE
  BY <1>13, <1>k DEF EraseRow, ModifyRow
<1>14. ASSUME NEW i \in 0 .. MaxElements - 1, NEW j \in 0 .. MaxElements - 1,
              SwapTableRows(i, j) \/ MergeRows(i, j)
       PROVE  FALSE
  BY <1>14, <1>k DEF SwapTableRows, MergeRows
<1>15. ~InsertRow /\ ~ClearTable
  BY <1>k DEF InsertRow, ClearTable
<1> QED
  BY <1>k, <1>1, <1>2, <1>3, <1>4, <1>5, <1>6, <1>7, <1>8, <1>9, <1>10, <1>11, <1>12, <1>13,
     <1>14, <1>15 DEF Next

===============================================================================
