------------------------ MODULE CollectionTables_proofs ------------------------
(***************************************************************************)
(* Theorems about CollectionChangeBuilder and CollectionChanges, continued *)
(* from CollectionChanges_proofs: what a callback of results is told is    *)
(* true, and what any callback is told, for collections of any size and    *)
(* any sequence of instructions and runs.                                  *)
(*                                                                         *)
(* First what the log says of the rows of a table, then what calculate     *)
(* makes of two lists of rows, for rows in the order of the table and for  *)
(* sorted ones; at the end the invariant, and the theorems about the       *)
(* collections of all kinds.                                               *)
(***************************************************************************)
EXTENDS CollectionChanges_proofs

-----------------------------------------------------------------------------
\* The log of a table: where the rows are

\* An index with the same of both sets below it stays where it is.
LEMMA SameBelow ==
    ASSUME NEW d \in IndexSet, NEW e \in IndexSet, NEW x \in Nat, x \notin e,
           \A z \in Nat : z < x => (z \in d <=> z \in e)
    PROVE  Where(d, e, x) = x
<1>1. {z \in d : z < x} = {z \in e : z < x}
  BY DEF IndexSet
<1>2. Unshift(d, x) = Unshift(e, x)
  BY <1>1 DEF Unshift, CountBelow
<1> QED
  BY <1>2, ShiftUnshift DEF Where

\* Rows stay where they are, or are deleted and inserted.
Placed(del, ins, s, t) ==
    /\ ins \subseteq Indices(t)
    /\ \A k \in Indices(t) : k \notin ins => k \in Indices(s) /\ k \notin del /\ At(t, k) = At(s, k)
    /\ \A k \in ins : k \in Indices(s) => k \in del
    /\ \A k \in Indices(s) : k \notin Indices(t) => k \in del

\* The mapping leads a row to one that is deleted, or in the gap.
Mapped(mapping, ins, out, s, t) ==
    \A k \in DOMAIN mapping : /\ k \in ins /\ mapping[k] \in Indices(s) /\ mapping[k] \in out
                              /\ At(t, k) = At(s, mapping[k])

\* The modified rows of t, but for those in the gap, are those of the elements in T.
Marked(mod, t, T, gap) ==
    mod \subseteq Indices(t) /\ \A k \in Indices(t) \ gap : k \in mod <=> At(t, k) \in T

\* Rows inserted and not moved are of elements made since there were N.
Fresh(ins, mapping, t, N, gap) ==
    \A k \in ins \ gap : k \notin DOMAIN mapping => At(t, k) > N

\* The builder of a table whose rows were s at first, and are t now, with those of T
\* modified.  In the gap is the row that merge_rows is about to remove.
TableLog(c, s, t, T, N, gap) ==
    /\ c \in ChangeSet /\ c.moves = <<>>
    /\ Placed(c.del, c.ins, s, t) /\ Mapped(c.mapping, c.ins, c.del \cup gap, s, t)
    /\ Marked(c.mod, t, T, gap) /\ Fresh(c.ins, c.mapping, t, N, gap)

\* The parts of a change set, for the provers.
LEMMA ChangeSetParts ==
    ASSUME NEW c \in ChangeSet
    PROVE  /\ c.del \in IndexSet /\ c.ins \in IndexSet /\ c.mod \in IndexSet
           /\ c.moves \in Seq(Move) /\ c.mapping \in UNION {[s -> Nat] : s \in IndexSet}
           /\ c = [del |-> c.del, ins |-> c.ins, mod |-> c.mod, moves |-> c.moves,
                   mapping |-> c.mapping]
BY DEF ChangeSet

\* In the log of a table a row that was not inserted is still at its old index.
LEMMA OldIndexIsSame ==
    ASSUME NEW del \in IndexSet, NEW ins \in IndexSet, NEW s \in Seq(Nat), NEW t \in Seq(Nat),
           Placed(del, ins, s, t), NEW i \in Indices(t), i \notin ins
    PROVE  Shift(del, Unshift(ins, i)) = i
<1>1. i \in Nat /\ i < Len(t) /\ i \in Indices(s) /\ i < Len(s) /\ i \notin del /\ Len(t) \in Nat
      /\ Len(s) \in Nat
  BY IndicesAre DEF Placed
<1>2. ASSUME NEW z \in Nat, z < i PROVE z \in ins <=> z \in del
  <2>1. z \in Indices(t) /\ z \in Indices(s)
    BY <1>1, <1>2 DEF Indices
  <2> QED
    BY <2>1 DEF Placed
<1>3. Where(ins, del, i) = i
  BY <1>1, <1>2, SameBelow
<1> QED
  BY <1>3 DEF Where

\* What m_move_mapping is.
Mapping == UNION {[s -> Nat] : s \in IndexSet}

\* An index set with one index less, and with one more.
LEMMA OneIndexMore ==
    ASSUME NEW s \in IndexSet, NEW k \in Nat
    PROVE  s \ {k} \in IndexSet /\ s \cup {k} \in IndexSet /\ \A n \in s : n \in Nat
<1>1. {k} \in IndexSet
  BY OfOneIndex
<1> QED
  BY <1>1, IndexSetParts DEF IndexSet

\* A mapping with one entry less, and with one more.
LEMMA WithoutFacts ==
    ASSUME NEW f \in Mapping, NEW k \in Nat
    PROVE  /\ Without(f, k) \in Mapping /\ DOMAIN Without(f, k) = DOMAIN f \ {k}
           /\ \A n \in DOMAIN Without(f, k) : Without(f, k)[n] = f[n]
<1>1. PICK s \in IndexSet : f \in [s -> Nat]
  BY DEF Mapping
<1>2. DOMAIN f = s /\ s \subseteq Nat
  BY <1>1 DEF IndexSet
<1>3. s \ {k} \in IndexSet
  BY OneIndexMore
<1>4. Without(f, k) \in [s \ {k} -> Nat]
  BY <1>1, <1>2 DEF Without
<1> QED
  BY <1>1, <1>2, <1>3, <1>4 DEF Without, Mapping

\* A mapping leads indices to indices.
LEMMA MappingFacts ==
    ASSUME NEW f \in Mapping
    PROVE  \A n \in DOMAIN f : n \in Nat /\ f[n] \in Nat
BY DEF Mapping, IndexSet

\* One more entry, or another one for the same index.
LEMMA WithFacts ==
    ASSUME NEW f \in Mapping, NEW k \in Nat, NEW old \in Nat
    PROVE  /\ With(f, k, old) \in Mapping /\ DOMAIN With(f, k, old) = DOMAIN f \cup {k}
           /\ With(f, k, old)[k] = old
           /\ \A n \in DOMAIN f : n # k => With(f, k, old)[n] = f[n]
<1>1. PICK s \in IndexSet : f \in [s -> Nat]
  BY DEF Mapping
<1>2. DOMAIN f = s /\ s \subseteq Nat
  BY <1>1 DEF IndexSet
<1>3. s \cup {k} \in IndexSet
  BY OneIndexMore
<1>4. With(f, k, old) \in [s \cup {k} -> Nat]
  BY <1>1, <1>2 DEF With
<1> QED
  BY <1>1, <1>2, <1>3, <1>4 DEF With, Mapping

\* g is f with k leading to old, and what was said of others.
Extends(g, f, k, old) ==
    /\ g \in Mapping /\ DOMAIN g = DOMAIN f \cup {k} /\ g[k] = old
    /\ \A n \in DOMAIN f : n # k => g[n] = f[n]

\* That is what With does.
LEMMA WithExtends ==
    ASSUME NEW f \in Mapping, NEW k \in Nat, NEW old \in Nat
    PROVE  Extends(With(f, k, old), f, k, old)
BY SMTT(30), WithFacts DEF Extends

\* The last row of t takes the place of another, in u.
TakesPlace(t, row, u) ==
    /\ Len(u) = Len(t) - 1
    /\ \A k \in Indices(u) : At(u, k) = IF k = row THEN At(t, Len(t) - 1) ELSE At(t, k)

\* m is the builder c of t after the move_over that makes t to u.
MovedOver(c, m, s, t, u, row, last) ==
    /\ m \in ChangeSet /\ m.moves = c.moves
    /\ Placed(m.del, m.ins, s, u) /\ Mapped(m.mapping, m.ins, m.del, s, u)
    /\ \A k \in m.ins : k \notin DOMAIN m.mapping =>
           \E n \in c.ins \ {row} : /\ n \notin DOMAIN c.mapping /\ At(t, n) = At(u, k)
                                    /\ k \in Indices(u)
    /\ \A k \in Indices(u) : k \in m.mod <=>
           IF k = row THEN last \in c.mod ELSE k \in c.mod
    /\ m.mod \subseteq c.mod \cup {row} /\ last \notin m.mod

\* The builder of a table after move_over, without the modifications.
LEMMA MoveOverPlaces ==
    ASSUME NEW c \in ChangeSet, NEW s \in Seq(Nat), NEW t \in Seq(Nat), NEW row \in Indices(t),
           Placed(c.del, c.ins, s, t), Mapped(c.mapping, c.ins, c.del \cup {row}, s, t),
           NEW last, last = Len(t) - 1, NEW u \in Seq(Nat), TakesPlace(t, row, u)
    PROVE  MovedOver(c, MoveOver(c, row, last), s, t, u, row, last)
<1> DEFINE m == MoveOver(c, row, last)
<1>1. /\ Len(t) \in Nat /\ Len(s) \in Nat /\ row \in Nat /\ row <= last /\ last \in Nat
      /\ last \in Indices(t) /\ last < Len(t)
  BY DEF Indices
<1>2. \A k : k \in Indices(u) <=> k \in Indices(t) /\ k # last
  BY <1>1 DEF Indices, TakesPlace
<1>p. /\ c.ins \subseteq Indices(t)
      /\ \A k \in Indices(t) : k \notin c.ins => k \in Indices(s) /\ k \notin c.del /\ At(t, k) = At(s, k)
      /\ \A k \in c.ins : k \in Indices(s) => k \in c.del
      /\ \A k \in Indices(s) : k \notin Indices(t) => k \in c.del
  BY DEF Placed
<1>m. \A k \in DOMAIN c.mapping :
         /\ k \in c.ins /\ c.mapping[k] \in Indices(s) /\ c.mapping[k] \in c.del \cup {row}
         /\ At(t, k) = At(s, c.mapping[k])
  BY DEF Mapped
<1>u. \A k \in Indices(u) : At(u, k) = IF k = row THEN At(t, last) ELSE At(t, k)
  BY DEF TakesPlace
<1>c. /\ c.del \in IndexSet /\ c.ins \in IndexSet /\ c.mod \in IndexSet
      /\ c.mapping \in Mapping
      /\ c = [del |-> c.del, ins |-> c.ins, mod |-> c.mod, moves |-> c.moves,
              mapping |-> c.mapping]
      /\ c.moves \in Seq(Move)
  BY ChangeSetParts DEF Mapping
<1>n. \A n \in DOMAIN c.mapping : n \in Nat /\ c.mapping[n] \in Nat
  BY <1>c, MappingFacts
<1>3. \A i \in Indices(t) : i \notin c.ins => OldIndex(c, i) = i
  BY <1>c, OldIndexIsSame DEF OldIndex
<1>4. CASE row = last
  <2> DEFINE del == IF row \in c.ins THEN c.del ELSE c.del \cup {row}
             map == Without(c.mapping, row)
  <2>1. m = [del |-> del, ins |-> c.ins \ {row}, mod |-> c.mod \ {row}, moves |-> c.moves,
             mapping |-> map]
    BY <1>1, <1>3, <1>4, <1>c DEF MoveOver
  <2>2. /\ map \in Mapping /\ DOMAIN map = DOMAIN c.mapping \ {row}
        /\ \A n \in DOMAIN map : map[n] = c.mapping[n]
    BY <1>1, <1>c, WithoutFacts
  <2>3. del \in IndexSet /\ c.ins \ {row} \in IndexSet /\ c.mod \ {row} \in IndexSet
    BY <1>1, <1>c, OneIndexMore
  <2> HIDE DEF map, del, m
  <2>4. m \in ChangeSet /\ m.moves = c.moves
    BY <1>c, <2>1, <2>2, <2>3 DEF ChangeSet, Mapping
  <2>d. \A k : k \in del <=> k \in c.del \/ (k = row /\ row \notin c.ins)
    BY DEF del
  <2>e. row \in Indices(s) => row \in del
    BY <1>p, <2>d
  <2>5. Placed(del, c.ins \ {row}, s, u)
    BY <1>2, <1>4, <1>p, <1>u, <2>d, <2>e DEF Placed
  <2>6. Mapped(map, c.ins \ {row}, del, s, u)
    BY <1>2, <1>4, <1>p, <1>u, <1>m, <2>2, <2>d, <2>e DEF Mapped
  <2>7. m.del = del /\ m.ins = c.ins \ {row} /\ m.mapping = map /\ m.mod = c.mod \ {row}
    BY <2>1
  <2>8. ASSUME NEW k \in c.ins \ {row}, k \notin DOMAIN map
        PROVE  k \in Indices(u) /\ k \notin DOMAIN c.mapping /\ At(u, k) = At(t, k)
    BY <1>2, <1>4, <1>p, <1>u, <2>2, <2>8
  <2>9. \A k \in Indices(u) : k # row
    BY <1>2, <1>4
  <2> QED
    BY <1>4, <2>4, <2>5, <2>6, <2>7, <2>8, <2>9 DEF m, MovedOver
<1>5. CASE row # last
  <2> DEFINE lastNew == last \in c.ins
             moved   == lastNew /\ last \in DOMAIN c.mapping
             del1    == IF lastNew THEN c.del ELSE c.del \cup {last}
             del     == IF row \in c.ins THEN del1 ELSE del1 \cup {row}
             ins     == (c.ins \ {last}) \cup {row}
             mod     == (c.mod \ {row, last}) \cup (IF last \in c.mod THEN {row} ELSE {})
             map     == IF moved THEN With(Without(c.mapping, last), row, c.mapping[last])
                        ELSE IF lastNew THEN Without(c.mapping, row)
                        ELSE With(c.mapping, row, last)
  <2>1. row \notin c.ins => Shift(del1, Unshift(c.ins, row)) = row
    <3> SUFFICES ASSUME row \notin c.ins PROVE Shift(del1, Unshift(c.ins, row)) = row
      OBVIOUS
    <3>1. del1 \in IndexSet
      BY <1>1, <1>c, OneIndexMore
    <3>2. row \in Indices(s) /\ row \notin c.del /\ row \in Indices(t)
      BY <1>p
    <3>3. \A z \in Nat : z < row => z \in Indices(s) /\ z \in Indices(t) /\ z # last
      <4> SUFFICES ASSUME NEW z \in Nat, z < row PROVE z < Len(s) /\ z < Len(t) /\ z < last
        BY SMTT(30), <1>1 DEF Indices
      <4>1. row < Len(s) /\ row < last
        BY <1>1, <1>5, <3>2 DEF Indices
      <4>2. row \in Nat /\ last \in Nat /\ last < Len(t) /\ Len(s) \in Nat /\ Len(t) \in Nat
        BY <1>1
      <4> HIDE DEF m, del, ins, mod, map, del1, moved, lastNew
      <4> QED
        BY <4>1, <4>2
    <3>4. \A z \in Nat : z < row => (z \in c.ins <=> z \in c.del)
      BY <1>p, <3>3
    <3>5. row \notin del1 /\ \A z \in Nat : z < row => (z \in c.ins <=> z \in del1)
      BY <1>5, <3>2, <3>3, <3>4
    <3> HIDE DEF del1
    <3>6. Where(c.ins, del1, row) = row
      BY <1>1, <1>c, <3>1, <3>5, SameBelow
    <3> QED
      BY <3>6 DEF Where
  <2>2. m = [del |-> del, ins |-> ins, mod |-> mod, moves |-> c.moves, mapping |-> map]
    BY <1>1, <1>3, <1>5, <1>c, <2>1 DEF MoveOver
  <2>3. del \in IndexSet /\ ins \in IndexSet /\ mod \in IndexSet
    <3>1. c.del \cup {last} \in IndexSet /\ c.ins \ {last} \in IndexSet /\ c.mod \ {last} \in IndexSet
      BY <1>1, <1>c, OneIndexMore
    <3>2. del1 \in IndexSet /\ (c.mod \ {last}) \ {row} \in IndexSet
      BY <1>1, <1>c, <3>1, OneIndexMore
    <3> HIDE DEF del1
    <3>3. del \in IndexSet /\ ins \in IndexSet
      BY <1>1, <1>c, <3>1, <3>2, OneIndexMore
    <3>4. mod = (c.mod \ {last}) \ {row} \/ mod = ((c.mod \ {last}) \ {row}) \cup {row}
      OBVIOUS
    <3>5. ((c.mod \ {last}) \ {row}) \cup {row} \in IndexSet
      BY <1>1, <3>2, OneIndexMore
    <3> QED
      BY <3>2, <3>3, <3>4, <3>5
  <2>d. \A k : k \in del <=> \/ k \in c.del \/ (k = last /\ last \notin c.ins)
                             \/ (k = row /\ row \notin c.ins)
    OBVIOUS
  <2>e. row \in Indices(s) => row \in del
    BY <1>p, <2>d
  <2>i. \A k : k \in ins <=> (k \in c.ins /\ k # last) \/ k = row
    BY <1>5
  <2> DEFINE less == Without(c.mapping, last)
  <2>l. /\ less \in Mapping /\ DOMAIN less = DOMAIN c.mapping \ {last}
        /\ \A n \in DOMAIN less : less[n] = c.mapping[n]
    BY <1>1, <1>c, WithoutFacts
  <2>4. /\ map \in Mapping
        /\ \A k \in DOMAIN map : k = row \/ (k \in DOMAIN c.mapping /\ k # last /\ map[k] = c.mapping[k])
        /\ row \in DOMAIN map => \/ moved /\ map[row] = c.mapping[last]
                                 \/ ~lastNew /\ map[row] = last
        /\ DOMAIN c.mapping \ {row, last} \subseteq DOMAIN map
        /\ row \notin DOMAIN map => lastNew /\ last \notin DOMAIN c.mapping
    <3> HIDE DEF less
    <3>1. CASE moved
      <4>1. map = With(less, row, c.mapping[last]) /\ c.mapping[last] \in Nat
        BY <1>n, <3>1 DEF less
      <4> HIDE DEF map
      <4>2. /\ map \in Mapping /\ DOMAIN map = DOMAIN less \cup {row} /\ map[row] = c.mapping[last]
            /\ \A n \in DOMAIN less : n # row => map[n] = less[n]
        <5>1. less \in Mapping /\ row \in Nat /\ c.mapping[last] \in Nat
          BY <1>1, <2>l, <4>1
        <5>2. With(less, row, c.mapping[last]) \in Mapping /\ DOMAIN With(less, row, c.mapping[last]) = DOMAIN less \cup {row}
          BY <5>1, WithFacts
        <5>3. With(less, row, c.mapping[last])[row] = c.mapping[last]
          BY ZenonT(60), <5>1, WithFacts
        <5>4. \A n \in DOMAIN less : n # row => With(less, row, c.mapping[last])[n] = less[n]
          BY ZenonT(60), <5>1, WithFacts
        <5> QED
          BY <4>1, <5>2, <5>3, <5>4
      <4> QED
        <5>1. \A k \in DOMAIN map : k = row \/ (k \in DOMAIN c.mapping /\ k # last /\ map[k] = c.mapping[k])
          BY <2>l, <4>2
        <5>2. DOMAIN c.mapping \ {row, last} \subseteq DOMAIN map /\ row \in DOMAIN map
          BY <2>l, <4>2
        <5> QED
          BY <3>1, <4>2, <5>1, <5>2
    <3>2. CASE ~moved /\ lastNew
      <4>1. map = Without(c.mapping, row) /\ last \notin DOMAIN c.mapping
        BY <3>2
      <4> HIDE DEF map
      <4>2. /\ map \in Mapping /\ DOMAIN map = DOMAIN c.mapping \ {row}
            /\ \A n \in DOMAIN map : map[n] = c.mapping[n]
        BY ZenonT(60), <1>1, <1>c, <4>1, WithoutFacts
      <4> QED
        <5>1. \A k \in DOMAIN map : k = row \/ (k \in DOMAIN c.mapping /\ k # last /\ map[k] = c.mapping[k])
          BY <4>1, <4>2
        <5>2. DOMAIN c.mapping \ {row, last} \subseteq DOMAIN map /\ row \notin DOMAIN map
          BY <4>2
        <5> QED
          BY <3>2, <4>1, <4>2, <5>1, <5>2
    <3>3. CASE ~lastNew
      <4>1. map = With(c.mapping, row, last) /\ last \notin DOMAIN c.mapping
        BY <1>m, <3>3
      <4> HIDE DEF map
      <4>2. /\ map \in Mapping /\ DOMAIN map = DOMAIN c.mapping \cup {row} /\ map[row] = last
            /\ \A n \in DOMAIN c.mapping : n # row => map[n] = c.mapping[n]
        <5>1. c.mapping \in Mapping /\ row \in Nat /\ last \in Nat
          BY <1>1, <1>c
        <5>2. With(c.mapping, row, last) \in Mapping /\ DOMAIN With(c.mapping, row, last) = DOMAIN c.mapping \cup {row}
          BY <5>1, WithFacts
        <5>3. With(c.mapping, row, last)[row] = last
          BY ZenonT(60), <5>1, WithFacts
        <5>4. \A n \in DOMAIN c.mapping : n # row => With(c.mapping, row, last)[n] = c.mapping[n]
          BY ZenonT(60), <5>1, WithFacts
        <5> QED
          BY <4>1, <5>2, <5>3, <5>4
      <4> QED
        BY <3>3, <4>1, <4>2
    <3> QED
      BY <3>1, <3>2, <3>3
  <2> HIDE DEF m, del1, mod, map, del, ins
  <2>7. m \in ChangeSet /\ m.moves = c.moves
    BY <1>c, <2>2, <2>3, <2>4 DEF ChangeSet, Mapping
  <2>8. Placed(del, ins, s, u)
    <3>1. ins \subseteq Indices(u)
      BY <1>1, <1>2, <1>5, <1>p, <2>i
    <3>2. \A k \in Indices(u) : k \notin ins => k \in Indices(s) /\ k \notin del /\ At(u, k) = At(s, k)
      BY <1>2, <1>p, <1>u, <2>d, <2>i
    <3>3. \A k \in ins : k \in Indices(s) => k \in del
      BY <1>p, <2>d, <2>e, <2>i
    <3>4. \A k \in Indices(s) : k \notin Indices(u) => k \in del
      BY <1>2, <1>p, <2>d
    <3> QED
      BY <3>1, <3>2, <3>3, <3>4 DEF Placed
  <2>9. Mapped(map, ins, del, s, u)
    <3> SUFFICES ASSUME NEW k \in DOMAIN map
                 PROVE  k \in ins /\ map[k] \in Indices(s) /\ map[k] \in del
                        /\ At(u, k) = At(s, map[k])
      BY DEF Mapped
    <3>1. CASE k = row
      <4>1. row \in Indices(u) /\ At(u, row) = At(t, last) /\ row \in ins
        BY <1>1, <1>2, <1>5, <1>u, <2>i
      <4>2. CASE moved /\ map[row] = c.mapping[last]
        BY <1>m, <2>d, <2>e, <3>1, <4>1, <4>2
      <4>3. CASE ~lastNew /\ map[row] = last
        BY <1>1, <1>p, <2>d, <3>1, <4>1, <4>3
      <4> QED
        BY <2>4, <3>1, <4>2, <4>3
    <3>2. CASE k # row
      <4>1. k \in DOMAIN c.mapping /\ k # last /\ map[k] = c.mapping[k]
        BY <2>4, <3>2
      <4>2. k \in Indices(u) /\ At(u, k) = At(t, k)
        BY <1>2, <1>m, <1>p, <1>u, <3>2, <4>1
      <4> QED
        BY <1>m, <2>d, <2>e, <2>i, <4>1, <4>2
    <3> QED
      BY <3>1, <3>2
  <2>10. m.del = del /\ m.ins = ins /\ m.mapping = map /\ m.mod = mod
    BY <2>2
  <2>11. ASSUME NEW k \in ins, k \notin DOMAIN map
         PROVE  \E n \in c.ins \ {row} : n \notin DOMAIN c.mapping /\ At(t, n) = At(u, k)
                                        /\ k \in Indices(u)
    <3>1. CASE k = row
      <4>1. last \in c.ins \ {row} /\ last \notin DOMAIN c.mapping
        BY <1>5, <2>4, <2>11, <3>1
      <4> QED
        BY <1>1, <1>2, <1>5, <1>u, <3>1, <4>1
    <3>2. CASE k # row
      <4>1. k \in c.ins /\ k # last /\ k \notin DOMAIN c.mapping
        BY <2>4, <2>i, <2>11, <3>2
      <4> QED
        BY <1>2, <1>p, <1>u, <3>2, <4>1
    <3> QED
      BY <3>1, <3>2
  <2>12. /\ \A k \in Indices(u) : k \in mod <=> IF k = row THEN last \in c.mod ELSE k \in c.mod
         /\ mod \subseteq c.mod \cup {row} /\ last \notin mod
    BY <1>2, <1>5 DEF mod
  <2> QED
    BY <2>7, <2>8, <2>9, <2>10, <2>11, <2>12 DEF m, MovedOver
<1> QED
  BY <1>4, <1>5

\* move_over: the builder of the table without the row.
LEMMA MoveOverKeeps ==
    ASSUME NEW c, NEW s \in Seq(Nat), NEW t \in Seq(Nat), NEW T, NEW N, NEW row \in Indices(t),
           TableLog(c, s, t, T, N, {row}), NEW u \in Seq(Nat), TakesPlace(t, row, u)
    PROVE  TableLog(MoveOver(c, row, Len(t) - 1), s, u, T, N, {})
<1> DEFINE last == Len(t) - 1
           m == MoveOver(c, row, last)
<1>1. /\ m \in ChangeSet /\ m.moves = c.moves
      /\ Placed(m.del, m.ins, s, u) /\ Mapped(m.mapping, m.ins, m.del, s, u)
      /\ \A k \in m.ins : k \notin DOMAIN m.mapping =>
             \E n \in c.ins \ {row} : /\ n \notin DOMAIN c.mapping /\ At(t, n) = At(u, k)
                                      /\ k \in Indices(u)
      /\ \A k \in Indices(u) : k \in m.mod <=> IF k = row THEN last \in c.mod ELSE k \in c.mod
      /\ m.mod \subseteq c.mod \cup {row} /\ last \notin m.mod
  <2>1. c \in ChangeSet /\ Placed(c.del, c.ins, s, t) /\ Mapped(c.mapping, c.ins, c.del \cup {row}, s, t)
    BY DEF TableLog
  <2>2. MovedOver(c, m, s, t, u, row, last)
    BY <2>1, MoveOverPlaces
  <2> HIDE DEF m, last
  <2> QED
    BY <2>1, <2>2 DEF MovedOver
<1>2. \A k : k \in Indices(u) <=> k \in Indices(t) /\ k # last
  <2>1. Len(t) \in Nat /\ Len(u) \in Nat /\ Len(u) = Len(t) - 1
    BY DEF TakesPlace
  <2>2. \A k : k \in Indices(u) <=> k \in Nat /\ k < Len(u)
    BY IndicesAre
  <2>3. \A k : k \in Indices(t) <=> k \in Nat /\ k < Len(t)
    BY IndicesAre
  <2> QED
    BY <2>1, <2>2, <2>3
<1>3. /\ c.mod \subseteq Indices(t) /\ \A k \in Indices(t) \ {row} : k \in c.mod <=> At(t, k) \in T
      /\ \A k \in c.ins \ {row} : k \notin DOMAIN c.mapping => At(t, k) > N
      /\ c.moves = <<>>
  BY DEF TableLog, Marked, Fresh
<1>4. \A k \in Indices(u) : At(u, k) = IF k = row THEN At(t, last) ELSE At(t, k)
  BY DEF TakesPlace
<1>5. last \in Indices(t) /\ (row # last => last \in Indices(t) \ {row})
  BY IndicesAre DEF Indices
<1> HIDE DEF m, last
<1>6. Marked(m.mod, u, T, {})
  BY <1>1, <1>2, <1>3, <1>4, <1>5 DEF Marked
<1>7. Fresh(m.ins, m.mapping, u, N, {})
  BY <1>1, <1>3 DEF Fresh
<1>8. m.del \cup {} = m.del
  OBVIOUS
<1> QED
  BY <1>1, <1>3, <1>6, <1>7, <1>8 DEF TableLog, m, last

\* The log of a table that nothing happened to.
LEMMA EmptyLog ==
    ASSUME NEW s \in Seq(Nat), NEW N
    PROVE  TableLog(Empty, s, s, {}, N, {})
<1>1. /\ Empty \in ChangeSet /\ Empty.del = {} /\ Empty.ins = {} /\ Empty.mod = {}
      /\ Empty.moves = <<>> /\ Empty.mapping = <<>>
  BY EmptyIsChange DEF IsChange, Empty
<1>2. \A k : k \notin DOMAIN <<>>
  OBVIOUS
<1> QED
  BY <1>1, <1>2 DEF TableLog, Placed, Mapped, Marked, Fresh

\* insert, of a row behind the others.
LEMMA InsertRowKeeps ==
    ASSUME NEW c, NEW s \in Seq(Nat), NEW t \in Seq(Nat), NEW T, NEW N \in Nat,
           TableLog(c, s, t, T, N, {}), NEW e \in Nat, e > N, e \notin T
    PROVE  TableLog(Insert(c, Len(t)), s, Append(t, e), T, N, {})
<1> DEFINE i == Len(t)
           u == Append(t, e)
           m == Insert(c, i)
           mapping == [k \in {IF n >= i THEN n + 1 ELSE n : n \in DOMAIN c.mapping}
                         |-> c.mapping[IF k > i THEN k - 1 ELSE k]]
<1>1. /\ c \in ChangeSet /\ c.moves = <<>> /\ c.ins \subseteq Indices(t) /\ c.mod \subseteq Indices(t)
      /\ \A k \in Indices(t) : k \notin c.ins => k \in Indices(s) /\ k \notin c.del /\ At(t, k) = At(s, k)
      /\ \A k \in c.ins : k \in Indices(s) => k \in c.del
      /\ \A k \in Indices(s) : k \notin Indices(t) => k \in c.del
      /\ \A k \in Indices(t) : k \in c.mod <=> At(t, k) \in T
      /\ \A k \in c.ins : k \notin DOMAIN c.mapping => At(t, k) > N
  BY DEF TableLog, Placed, Marked, Fresh
<1>m. \A k \in DOMAIN c.mapping :
         /\ k \in c.ins /\ c.mapping[k] \in Indices(s) /\ c.mapping[k] \in c.del
         /\ At(t, k) = At(s, c.mapping[k])
  BY DEF TableLog, Mapped
<1>2. i \in Nat /\ \A k : k \in Indices(t) <=> k \in Nat /\ k < i
  BY IndicesAre
<1>3. u \in Seq(Nat) /\ Len(u) = i + 1
  OBVIOUS
<1>4. \A k : k \in Indices(u) <=> k \in Nat /\ k < i + 1
  BY <1>3, IndicesAre
<1>i. i \notin Indices(t) /\ \A k : k \in Indices(u) <=> k \in Indices(t) \/ k = i
  BY <1>2, <1>4
<1>5. At(u, i) = e /\ \A k \in Indices(t) : At(u, k) = At(t, k)
  BY <1>2 DEF At
<1>6. c.ins \in IndexSet /\ c.mod \in IndexSet /\ c.del \in IndexSet
  BY <1>1, ChangeSetParts
<1>7. \A p \in IndexSet : p \subseteq Indices(t) => ShiftForInsert(p, i) = p
  BY <1>2 DEF ShiftForInsert
<1>8. InsertIndex(c.ins, i) = c.ins \cup {i}
  BY <1>1, <1>6, <1>7 DEF InsertIndex
<1>9. mapping = c.mapping
  <2>1. \A n \in DOMAIN c.mapping : n \in Nat /\ n < i
    BY <1>1, <1>2, <1>m
  <2>2. {IF n >= i THEN n + 1 ELSE n : n \in DOMAIN c.mapping} = DOMAIN c.mapping
    BY <1>2, <2>1
  <2>3. mapping = [k \in DOMAIN c.mapping |-> c.mapping[k]]
    BY <1>2, <2>1, <2>2
  <2>4. c.mapping = [k \in DOMAIN c.mapping |-> c.mapping[k]]
    BY <1>1 DEF ChangeSet
  <2> QED
    BY <2>3, <2>4
<1>10. m = [del |-> c.del, ins |-> c.ins \cup {i}, mod |-> c.mod, moves |-> <<>>,
            mapping |-> c.mapping]
  <2> DEFINE moves == [k \in DOMAIN c.moves |-> [c.moves[k] EXCEPT !.to = IF @ >= i THEN @ + 1 ELSE @]]
  <2>1. moves = <<>>
    <3> SUFFICES moves = << >>
      OBVIOUS
    <3>1. DOMAIN c.moves = {}
      BY <1>1
    <3> QED
      BY <3>1
  <2>2. m = [c EXCEPT !.mod = ShiftForInsert(@, i), !.ins = InsertIndex(@, i), !.moves = moves,
                      !.mapping = mapping]
    BY DEF Insert, Retarget
  <2>3. /\ c = [del |-> c.del, ins |-> c.ins, mod |-> c.mod, moves |-> c.moves, mapping |-> c.mapping]
        /\ ShiftForInsert(c.mod, i) = c.mod
    BY <1>1, <1>6, <1>7, ChangeSetParts
  <2> HIDE DEF moves, mapping, m
  <2> QED
    BY <1>8, <1>9, <2>1, <2>2, <2>3
<1> HIDE DEF m, i, u, mapping
<1>11. m \in ChangeSet
  <2>1. c.ins \cup {i} \in IndexSet
    BY <1>2, <1>6, OneIndexMore
  <2> QED
    BY <1>1, <1>6, <1>10, <2>1 DEF ChangeSet
<1>12. Placed(c.del, c.ins \cup {i}, s, u)
  BY <1>1, <1>5, <1>i DEF Placed
<1>13. Mapped(c.mapping, c.ins \cup {i}, c.del \cup {}, s, u)
  BY <1>1, <1>5, <1>m DEF Mapped
<1>14. Marked(c.mod, u, T, {})
  BY <1>1, <1>5, <1>i DEF Marked
<1>15. Fresh(c.ins \cup {i}, c.mapping, u, N, {})
  BY <1>1, <1>5 DEF Fresh
<1> QED
  BY <1>10, <1>11, <1>12, <1>13, <1>14, <1>15 DEF TableLog, m, i, u

\* A row is modified.
LEMMA ModifyRowKeeps ==
    ASSUME NEW c, NEW s \in Seq(Nat), NEW t \in Seq(Nat), NEW T, NEW N,
           TableLog(c, s, t, T, N, {}), NEW i \in Indices(t),
           \A k \in Indices(t) : k # i => At(t, k) # At(t, i)
    PROVE  TableLog([c EXCEPT !.mod = @ \cup {i}], s, t, T \cup {At(t, i)}, N, {})
<1> DEFINE m == [c EXCEPT !.mod = @ \cup {i}]
<1>1. c.mod \in IndexSet /\ i \in Nat /\ c \in ChangeSet
  BY ChangeSetParts, IndicesAre DEF TableLog
<1>3. c.mod \cup {i} \in IndexSet
  BY <1>1, OneIndexMore
<1>4. /\ m \in ChangeSet /\ m.del = c.del /\ m.ins = c.ins /\ m.mod = c.mod \cup {i}
      /\ m.moves = c.moves /\ m.mapping = c.mapping
  BY <1>1, <1>3 DEF ChangeSet
<1>5. Marked(c.mod \cup {i}, t, T \cup {At(t, i)}, {})
  BY DEF TableLog, Marked
<1> HIDE DEF m
<1> QED
  BY <1>4, <1>5 DEF TableLog, m

\* clear, of a table of no more rows than there are indices.
LEMMA ClearTableKeeps ==
    ASSUME NEW s \in Seq(Nat), Len(s) <= NoRow, NEW T, NEW N
    PROVE  TableLog(ClearAll, s, <<>>, T, N, {})
<1> DEFINE all == 0 .. NoRow - 1
<1>1. /\ Empty \in ChangeSet /\ Empty.del = {} /\ Empty.ins = {} /\ Empty.mod = {}
      /\ Empty.moves = <<>> /\ Empty.mapping = <<>>
  BY EmptyIsChange DEF IsChange, Empty
<1>2. all \in IndexSet
  <2>1. NoRow - 1 \in Int /\ 0 \in Int
    BY NoRowAssumption
  <2>2. IsFiniteSet(all)
    BY <2>1, FS_Interval
  <2>3. \A k \in all : k \in Nat
    BY <2>1
  <2> QED
    BY <2>2, <2>3 DEF IndexSet
<1>3. ASSUME NEW k \in Indices(s) PROVE k \in all
  <2>1. k \in Nat /\ k < Len(s) /\ Len(s) \in Nat
    BY IndicesAre
  <2> QED
    BY <2>1, NoRowAssumption
<1>4. Indices(<<>>) = {} /\ \A k : k \notin DOMAIN <<>>
  BY DEF Indices
<1> HIDE DEF all
<1>5. ClearAll = [del |-> all, ins |-> {}, mod |-> {}, moves |-> Empty.moves,
                  mapping |-> Empty.mapping]
  <2>1. Empty = [del |-> Empty.del, ins |-> Empty.ins, mod |-> Empty.mod, moves |-> Empty.moves,
                 mapping |-> Empty.mapping]
    BY <1>1, ChangeSetParts
  <2>2. ClearAll = [Empty EXCEPT !.del = all]
    BY DEF ClearAll, all
  <2> QED
    BY <1>1, <2>1, <2>2
<1>6. ClearAll \in ChangeSet
  BY <1>1, <1>2, <1>5 DEF ChangeSet
<1> QED
  BY <1>1, <1>3, <1>4, <1>5, <1>6 DEF TableLog, Placed, Mapped, Marked, Fresh

\* What the swap of a and b does to the mapping: entry k is what o was before.
Comes(new, mapping, ins, k, o) ==
    /\ k \in DOMAIN new <=> o \in DOMAIN mapping \/ o \notin ins
    /\ o \in DOMAIN mapping => new[k] = mapping[o]
    /\ o \notin ins => new[k] = o

\* m is the builder c after the swap of a and b.
SwappedIn(m, c, a, b) ==
    /\ m \in ChangeSet /\ m.moves = c.moves
    /\ m.del = c.del \cup ({a, b} \ c.ins) /\ m.ins = c.ins \cup {a, b}
    /\ m.mod = {IF k = a THEN b ELSE IF k = b THEN a ELSE k : k \in c.mod}
    /\ Comes(m.mapping, c.mapping, c.ins, a, b) /\ Comes(m.mapping, c.mapping, c.ins, b, a)
    /\ \A k : k # a /\ k # b => /\ k \in DOMAIN m.mapping <=> k \in DOMAIN c.mapping
                                /\ k \in DOMAIN c.mapping => m.mapping[k] = c.mapping[k]

\* m is the builder c after the move of row i to k, by a swap.
MovedIn(m, c, k, i, s, t) ==
    /\ m \in ChangeSet /\ m.moves = c.moves /\ m.mod = c.mod
    /\ m.del = c.del \cup ({i} \ c.ins) /\ m.ins = c.ins \cup {i}
    /\ m.mapping = IF i \in c.ins THEN c.mapping ELSE With(c.mapping, k, i)
    /\ Placed(m.del, m.ins, s, t)

\* The move of one of the rows of a swap: what was not inserted is deleted and inserted.
LEMMA MovedToFacts ==
    ASSUME NEW c \in ChangeSet, NEW s \in Seq(Nat), NEW t \in Seq(Nat),
           Placed(c.del, c.ins, s, t), NEW k \in Nat, NEW i \in Indices(t)
    PROVE  MovedIn(MovedTo(c, k, i), c, k, i, s, t)
<1> DEFINE m == MovedTo(c, k, i)
<1>1. c.del \in IndexSet /\ c.ins \in IndexSet /\ c.mapping \in Mapping /\ i \in Nat
  BY ChangeSetParts, IndicesAre DEF Mapping
<1>2. CASE i \in c.ins
  <2>1. m = c /\ c.del = c.del \cup ({i} \ c.ins) /\ c.ins = c.ins \cup {i}
    BY <1>2 DEF MovedTo
  <2> HIDE DEF m
  <2>2. MovedIn(m, c, k, i, s, t)
    BY <1>2, <2>1 DEF MovedIn
  <2> QED
    BY <2>2 DEF m
<1>3. CASE i \notin c.ins
  <2>1. OldIndex(c, i) = i
    BY <1>1, <1>3, OldIndexIsSame DEF OldIndex
  <2>2. m = [c EXCEPT !.mapping = With(@, k, i), !.del = @ \cup {i}, !.ins = @ \cup {i}]
    BY <1>3, <2>1 DEF MovedTo
  <2>3. c.del \cup {i} \in IndexSet /\ c.ins \cup {i} \in IndexSet
    BY <1>1, OneIndexMore
  <2>4. With(c.mapping, k, i) \in Mapping
    BY <1>1, WithFacts
  <2>5. /\ m \in ChangeSet /\ m.moves = c.moves /\ m.mod = c.mod /\ m.del = c.del \cup {i}
        /\ m.ins = c.ins \cup {i} /\ m.mapping = With(c.mapping, k, i)
    BY <2>2, <2>3, <2>4 DEF ChangeSet, Mapping
  <2>6. Placed(c.del \cup {i}, c.ins \cup {i}, s, t)
    BY DEF Placed
  <2>7. {i} \ c.ins = {i}
    BY <1>3
  <2> HIDE DEF m
  <2>8. MovedIn(m, c, k, i, s, t)
    BY <1>3, <2>5, <2>6, <2>7 DEF MovedIn
  <2> QED
    BY <2>8 DEF m
<1> QED
  BY <1>2, <1>3

\* swap, with and without earlier moves of the two rows.
LEMMA SwapIs ==
    ASSUME NEW c \in ChangeSet, NEW s \in Seq(Nat), NEW t \in Seq(Nat),
           Placed(c.del, c.ins, s, t), DOMAIN c.mapping \subseteq c.ins,
           NEW a \in Indices(t), NEW b \in Indices(t), a < b
    PROVE  SwappedIn(SwapRows(c, a, b), c, a, b)
<1> DEFINE m == SwapRows(c, a, b)
           mod == {IF k = a THEN b ELSE IF k = b THEN a ELSE k : k \in c.mod}
           d == [c EXCEPT !.mod = mod]
           map == c.mapping
<1>1. /\ c.del \in IndexSet /\ c.ins \in IndexSet /\ c.mod \in IndexSet /\ map \in Mapping
      /\ a \in Nat /\ b \in Nat /\ a # b
  BY SMTT(30), ChangeSetParts, IndicesAre DEF Mapping
<1>2. mod \in IndexSet
  <2> DEFINE f == [k \in c.mod |-> IF k = a THEN b ELSE IF k = b THEN a ELSE k]
  <2>1. f \in [c.mod -> Nat]
    BY <1>1 DEF IndexSet
  <2>2. mod = {f[k] : k \in c.mod}
    OBVIOUS
  <2> HIDE DEF f, mod
  <2> QED
    BY <1>1, <2>1, <2>2, ImageIsIndexSet
<1>3. /\ d \in ChangeSet /\ d.moves = c.moves /\ d.del = c.del /\ d.ins = c.ins /\ d.mod = mod
      /\ d.mapping = map /\ Placed(d.del, d.ins, s, t)
  BY <1>2 DEF ChangeSet
<1>4. m = IF a \in DOMAIN map /\ b \in DOMAIN map
          THEN [d EXCEPT !.mapping = With(With(@, b, @[a]), a, @[b])]
          ELSE IF a \in DOMAIN map THEN UpdateMove(d, a, b)
          ELSE IF b \in DOMAIN map THEN UpdateMove(d, b, a)
          ELSE MovedTo(MovedTo(d, a, b), b, a)
  BY DEF SwapRows
<1> HIDE DEF d, m, mod
<1>5. CASE a \in DOMAIN map /\ b \in DOMAIN map
  <2> DEFINE one == With(map, b, map[a])
             two == With(one, a, map[b])
  <2>1. map[a] \in Nat /\ map[b] \in Nat
    BY <1>1, <1>5, MappingFacts
  <2>2. Extends(one, map, b, map[a])
    BY <1>1, <2>1, WithExtends
  <2> HIDE DEF one
  <2>3. one \in Mapping /\ DOMAIN one = DOMAIN map \cup {b} /\ one[b] = map[a]
    BY <2>2 DEF Extends
  <2>4. \A n \in DOMAIN map : n # b => one[n] = map[n]
    BY <2>2 DEF Extends
  <2>5. Extends(two, one, a, map[b])
    BY <1>1, <2>1, <2>3, WithExtends
  <2>6. two \in Mapping /\ DOMAIN two = DOMAIN one \cup {a} /\ two[a] = map[b]
    <3> HIDE DEF two
    <3> QED
      BY <2>5 DEF Extends
  <2>7. \A n \in DOMAIN one : n # a => two[n] = one[n]
    <3> HIDE DEF two
    <3> QED
      BY <2>5 DEF Extends
  <2>8. m = [d EXCEPT !.mapping = two]
    BY <1>3, <1>4, <1>5 DEF one
  <2> HIDE DEF two
  <2>9. /\ m \in ChangeSet /\ m.moves = d.moves /\ m.del = d.del /\ m.ins = d.ins /\ m.mod = d.mod
        /\ m.mapping = two
    BY <1>3, <2>6, <2>8 DEF ChangeSet, Mapping
  <2>10. a \in c.ins /\ b \in c.ins
    BY <1>5
  <2>11. m.del = c.del \cup ({a, b} \ c.ins) /\ m.ins = c.ins \cup {a, b}
    BY <1>3, <2>9, <2>10
  <2>12. Comes(two, map, c.ins, a, b) /\ Comes(two, map, c.ins, b, a)
    BY <1>1, <1>5, <2>3, <2>6, <2>7, <2>10 DEF Comes
  <2>13. \A k : k # a /\ k # b => /\ k \in DOMAIN two <=> k \in DOMAIN map
                                  /\ k \in DOMAIN map => two[k] = map[k]
    BY <1>5, <2>3, <2>4, <2>6, <2>7
  <2> QED
    BY <1>3, <2>9, <2>11, <2>12, <2>13 DEF SwappedIn, m, mod
<1>6. ASSUME NEW x \in {a, b}, NEW y \in {a, b}, x # y, x \in DOMAIN map, y \notin DOMAIN map
      PROVE  SwappedIn(UpdateMove(d, x, y), c, a, b)
  <2> DEFINE less == Without(map, x)
             one == With(less, y, map[x])
             e == [d EXCEPT !.mapping = one]
             n == MovedTo(e, x, y)
             new == IF y \in c.ins THEN one ELSE With(one, x, y)
  <2>0. /\ x \in Nat /\ y \in Nat /\ {x, y} = {a, b} /\ x \in c.ins /\ map[x] \in Nat
        /\ y \in Indices(t)
    BY <1>1, <1>6, MappingFacts
  <2>1. UpdateMove(d, x, y) = n
    BY <1>3 DEF UpdateMove
  <2>2. less \in Mapping /\ DOMAIN less = DOMAIN map \ {x}
    BY <1>1, <2>0, WithoutFacts
  <2>3. \A k \in DOMAIN less : less[k] = map[k]
    BY <1>1, <2>0, WithoutFacts
  <2> HIDE DEF less
  <2>e. Extends(one, less, y, map[x])
    BY <2>0, <2>2, WithExtends
  <2> HIDE DEF one
  <2>4. one \in Mapping /\ DOMAIN one = DOMAIN less \cup {y} /\ one[y] = map[x]
    BY <2>e DEF Extends
  <2>5. \A k \in DOMAIN less : k # y => one[k] = less[k]
    BY <2>e DEF Extends
  <2>6. /\ e \in ChangeSet /\ e.moves = c.moves /\ e.del = c.del /\ e.ins = c.ins /\ e.mod = mod
        /\ e.mapping = one /\ Placed(e.del, e.ins, s, t)
    BY <1>3, <2>4 DEF ChangeSet, Mapping
  <2> HIDE DEF e
  <2>7. /\ n \in ChangeSet /\ n.moves = c.moves /\ n.mod = mod
        /\ n.del = c.del \cup ({y} \ c.ins) /\ n.ins = c.ins \cup {y} /\ n.mapping = new
    <3>1. MovedIn(n, e, x, y, s, t)
      BY <2>0, <2>6, MovedToFacts
    <3> HIDE DEF n
    <3> QED
      BY <2>6, <3>1 DEF MovedIn
  <2>8. n.del = c.del \cup ({a, b} \ c.ins) /\ n.ins = c.ins \cup {a, b}
    BY <2>0, <2>7
  <2>9. /\ x \in DOMAIN new <=> y \notin c.ins
        /\ y \notin c.ins => new[x] = y
        /\ y \in DOMAIN new /\ new[y] = map[x]
        /\ \A k : k # a /\ k # b => /\ k \in DOMAIN new <=> k \in DOMAIN map
                                    /\ k \in DOMAIN map => new[k] = map[k]
    <3>1. CASE y \in c.ins
      <4>1. new = one
        BY <3>1
      <4> HIDE DEF new
      <4> QED
        BY <1>6, <2>0, <2>2, <2>3, <2>4, <2>5, <3>1, <4>1
    <3>2. CASE y \notin c.ins
      <4>1. new = With(one, x, y)
        BY <3>2
      <4>2. Extends(With(one, x, y), one, x, y)
        BY <2>0, <2>4, WithExtends
      <4> HIDE DEF new
      <4> QED
        BY <1>6, <2>0, <2>2, <2>3, <2>4, <2>5, <3>2, <4>1, <4>2 DEF Extends
    <3> QED
      BY <3>1, <3>2
  <2> HIDE DEF n, new
  <2>10. Comes(new, map, c.ins, x, y) /\ Comes(new, map, c.ins, y, x)
    BY <1>6, <2>0, <2>9 DEF Comes
  <2>11. Comes(new, map, c.ins, a, b) /\ Comes(new, map, c.ins, b, a)
    BY <1>6, <2>10
  <2> QED
    BY <2>1, <2>7, <2>8, <2>9, <2>11 DEF SwappedIn, mod
<1>7. CASE a \notin DOMAIN map /\ b \notin DOMAIN map
  <2> DEFINE e == MovedTo(d, a, b)
             n == MovedTo(e, b, a)
             one == IF b \in c.ins THEN map ELSE With(map, a, b)
             new == IF a \in c.ins THEN one ELSE With(one, b, a)
  <2>1. m = n
    BY <1>4, <1>7
  <2>2. /\ e \in ChangeSet /\ e.moves = c.moves /\ e.mod = mod
        /\ e.del = c.del \cup ({b} \ c.ins) /\ e.ins = c.ins \cup {b} /\ e.mapping = one
        /\ Placed(e.del, e.ins, s, t)
    <3>1. MovedIn(e, d, a, b, s, t)
      BY <1>1, <1>3, MovedToFacts
    <3> HIDE DEF e
    <3> QED
      BY <1>3, <3>1 DEF MovedIn
  <2> HIDE DEF e
  <2>3. /\ n \in ChangeSet /\ n.moves = c.moves /\ n.mod = mod
        /\ n.del = e.del \cup ({a} \ e.ins) /\ n.ins = e.ins \cup {a}
        /\ n.mapping = IF a \in e.ins THEN one ELSE With(one, b, a)
    <3>1. MovedIn(n, e, b, a, s, t)
      BY <1>1, <2>2, MovedToFacts
    <3> HIDE DEF n
    <3> QED
      BY <2>2, <3>1 DEF MovedIn
  <2>4. n.mapping = new /\ n.del = c.del \cup ({a, b} \ c.ins) /\ n.ins = c.ins \cup {a, b}
    <3>1. a \in e.ins <=> a \in c.ins
      BY <1>1, <2>2
    <3> QED
      BY <2>2, <2>3, <3>1
  <2>5. /\ one \in Mapping /\ DOMAIN one = DOMAIN map \cup ({a} \cap (IF b \in c.ins THEN {} ELSE {a}))
        /\ b \notin c.ins => one[a] = b
        /\ \A k \in DOMAIN map : one[k] = map[k]
    <3>1. CASE b \in c.ins
      BY <1>1, <3>1
    <3>2. CASE b \notin c.ins
      <4>1. one = With(map, a, b)
        BY <3>2
      <4>2. Extends(With(map, a, b), map, a, b)
        BY <1>1, WithExtends
      <4> HIDE DEF one
      <4> QED
        BY <1>7, <3>2, <4>1, <4>2 DEF Extends
    <3> QED
      BY <3>1, <3>2
  <2> HIDE DEF one
  <2>6. /\ DOMAIN new = DOMAIN one \cup (IF a \in c.ins THEN {} ELSE {b})
        /\ a \notin c.ins => new[b] = a
        /\ \A k \in DOMAIN one : k # b => new[k] = one[k]
    <3>1. CASE a \in c.ins
      BY <3>1
    <3>2. CASE a \notin c.ins
      <4>1. new = With(one, b, a)
        BY <3>2
      <4>2. Extends(With(one, b, a), one, b, a)
        BY <1>1, <2>5, WithExtends
      <4> HIDE DEF new
      <4> QED
        BY <3>2, <4>1, <4>2 DEF Extends
    <3> QED
      BY <3>1, <3>2
  <2> HIDE DEF new, n
  <2>7. Comes(new, map, c.ins, a, b)
    BY <1>1, <1>7, <2>5, <2>6 DEF Comes
  <2>8. Comes(new, map, c.ins, b, a)
    BY <1>1, <1>7, <2>5, <2>6 DEF Comes
  <2>9. \A k : k # a /\ k # b => /\ k \in DOMAIN new <=> k \in DOMAIN map
                                 /\ k \in DOMAIN map => new[k] = map[k]
    BY <2>5, <2>6
  <2> QED
    BY <2>1, <2>3, <2>4, <2>7, <2>8, <2>9 DEF SwappedIn, m, mod
<1> QED
  <2>1. CASE a \in DOMAIN map /\ b \notin DOMAIN map
    BY <1>1, <1>4, <1>6, <2>1 DEF m
  <2>2. CASE a \notin DOMAIN map /\ b \in DOMAIN map
    BY <1>1, <1>4, <1>6, <2>2 DEF m
  <2> QED
    BY <1>5, <1>7, <2>1, <2>2

\* The rows a and b of t change places, in u.
Exchange(t, u, a, b) ==
    /\ Len(u) = Len(t)
    /\ \A k \in Indices(t) : At(u, k) = At(t, IF k = a THEN b ELSE IF k = b THEN a ELSE k)

\* swap: the builder of the table with the rows exchanged.
LEMMA SwapKeeps ==
    ASSUME NEW c, NEW s \in Seq(Nat), NEW t \in Seq(Nat), NEW T, NEW N,
           TableLog(c, s, t, T, N, {}), NEW a \in Indices(t), NEW b \in Indices(t), a < b,
           NEW u \in Seq(Nat), Exchange(t, u, a, b)
    PROVE  TableLog(SwapRows(c, a, b), s, u, T, N, {})
<1> DEFINE m == SwapRows(c, a, b)
           Other(k) == IF k = a THEN b ELSE IF k = b THEN a ELSE k
<1>1. /\ c \in ChangeSet /\ c.moves = <<>> /\ c.ins \subseteq Indices(t) /\ c.mod \subseteq Indices(t)
      /\ \A k \in Indices(t) : k \notin c.ins => k \in Indices(s) /\ k \notin c.del /\ At(t, k) = At(s, k)
      /\ \A k \in c.ins : k \in Indices(s) => k \in c.del
      /\ \A k \in Indices(s) : k \notin Indices(t) => k \in c.del
      /\ \A k \in Indices(t) : k \in c.mod <=> At(t, k) \in T
      /\ \A k \in c.ins : k \notin DOMAIN c.mapping => At(t, k) > N
  BY DEF TableLog, Placed, Marked, Fresh
<1>2. \A k \in DOMAIN c.mapping :
         /\ k \in c.ins /\ c.mapping[k] \in Indices(s) /\ c.mapping[k] \in c.del
         /\ At(t, k) = At(s, c.mapping[k])
  BY DEF TableLog, Mapped
<1>3. SwappedIn(m, c, a, b)
  <2>1. Placed(c.del, c.ins, s, t) /\ DOMAIN c.mapping \subseteq c.ins
    BY <1>2 DEF TableLog
  <2> QED
    BY <1>1, <2>1, SwapIs
<1> HIDE DEF m
<1>4. /\ m \in ChangeSet /\ m.moves = c.moves
      /\ m.del = c.del \cup ({a, b} \ c.ins) /\ m.ins = c.ins \cup {a, b}
      /\ m.mod = {Other(k) : k \in c.mod}
  BY <1>3 DEF SwappedIn
<1>5. /\ \A k : k # a /\ k # b => /\ k \in DOMAIN m.mapping <=> k \in DOMAIN c.mapping
                                  /\ k \in DOMAIN c.mapping => m.mapping[k] = c.mapping[k]
  BY <1>3 DEF SwappedIn
<1>6. Comes(m.mapping, c.mapping, c.ins, a, b) /\ Comes(m.mapping, c.mapping, c.ins, b, a)
  BY <1>3 DEF SwappedIn
<1>7. Indices(u) = Indices(t) /\ \A k \in Indices(t) : At(u, k) = At(t, Other(k))
  BY DEF Exchange, Indices
<1>a. At(u, a) = At(t, b) /\ At(u, b) = At(t, a)
      /\ \A k \in Indices(t) : k # a /\ k # b => At(u, k) = At(t, k)
  BY <1>7
<1>8. Placed(m.del, m.ins, s, u)
  BY <1>1, <1>4, <1>7, <1>a DEF Placed
<1>9. Mapped(m.mapping, m.ins, m.del \cup {}, s, u)
  <2>1. ASSUME NEW x \in {a, b}, NEW y \in {a, b}, x \in DOMAIN m.mapping, At(u, x) = At(t, y),
               Comes(m.mapping, c.mapping, c.ins, x, y)
        PROVE  /\ x \in m.ins /\ m.mapping[x] \in Indices(s) /\ m.mapping[x] \in m.del
               /\ At(u, x) = At(s, m.mapping[x])
    <3>1. CASE y \in DOMAIN c.mapping
      <4>1. m.mapping[x] = c.mapping[y]
        BY <2>1, <3>1 DEF Comes
      <4> QED
        BY <1>2, <1>4, <2>1, <3>1, <4>1
    <3>2. CASE y \notin c.ins
      <4>1. m.mapping[x] = y /\ y \in Indices(t)
        BY <2>1, <3>2 DEF Comes
      <4> QED
        BY <1>1, <1>4, <2>1, <3>2, <4>1
    <3> QED
      BY <2>1, <3>1, <3>2 DEF Comes
  <2> SUFFICES ASSUME NEW k \in DOMAIN m.mapping
               PROVE  /\ k \in m.ins /\ m.mapping[k] \in Indices(s) /\ m.mapping[k] \in m.del
                      /\ At(u, k) = At(s, m.mapping[k])
    BY DEF Mapped
  <2>2. CASE k = a
    BY <1>6, <1>a, <2>1, <2>2
  <2>3. CASE k = b
    BY <1>6, <1>a, <2>1, <2>3
  <2>4. CASE k # a /\ k # b
    <3>1. k \in DOMAIN c.mapping /\ m.mapping[k] = c.mapping[k]
      BY <1>5, <2>4
    <3>2. k \in c.ins /\ k \in Indices(t) /\ At(u, k) = At(t, k)
      BY <1>1, <1>2, <1>a, <2>4, <3>1
    <3> QED
      BY <1>2, <1>4, <3>1, <3>2
  <2> QED
    BY <2>2, <2>3, <2>4
<1>10. Marked(m.mod, u, T, {})
  <2>1. \A k \in Indices(t) : Other(k) \in Indices(t) /\ Other(Other(k)) = k
    OBVIOUS
  <2>2. \A k \in Indices(t) : k \in m.mod <=> Other(k) \in c.mod
    BY <1>1, <1>4, <2>1
  <2>3. m.mod \subseteq Indices(t)
    BY <1>1, <1>4, <2>1
  <2> HIDE DEF Other
  <2> QED
    BY <1>1, <1>7, <2>1, <2>2, <2>3 DEF Marked
<1>11. Fresh(m.ins, m.mapping, u, N, {})
  <2> SUFFICES ASSUME NEW k \in m.ins, k \notin DOMAIN m.mapping PROVE At(u, k) > N
    BY DEF Fresh
  <2>1. CASE k = a
    BY <1>1, <1>6, <1>a, <2>1 DEF Comes
  <2>2. CASE k = b
    BY <1>1, <1>6, <1>a, <2>2 DEF Comes
  <2>3. CASE k # a /\ k # b
    <3>1. k \notin DOMAIN c.mapping
      BY <1>5, <2>3
    <3>2. k \in c.ins /\ k \in Indices(t)
      BY <1>1, <1>4, <2>3
    <3> QED
      BY <1>1, <1>a, <2>3, <3>1, <3>2
  <2> QED
    BY <2>1, <2>2, <2>3
<1> QED
  BY <1>1, <1>4, <1>8, <1>9, <1>10, <1>11 DEF TableLog, m

\* Row i of t takes the place of row j as well, in u.
Doubled(t, u, i, j) ==
    Len(u) = Len(t) /\ \A k \in Indices(t) : At(u, k) = At(t, IF k = j THEN i ELSE k)

\* subsume: the builder of the table in which the old row i is at the new one j, too.
LEMMA SubsumeKeeps ==
    ASSUME NEW c, NEW s \in Seq(Nat), NEW t \in Seq(Nat), NEW T, NEW N,
           TableLog(c, s, t, T, N, {}), NEW i \in Indices(t), NEW j \in Indices(t), i # j,
           \A k \in Indices(t) : k # i => At(t, k) # At(t, i),
           j \in c.ins, j \notin DOMAIN c.mapping, NEW u \in Seq(Nat), Doubled(t, u, i, j)
    PROVE  TableLog(Subsume(c, i, j), s, u, IF At(t, j) \in T THEN T \cup {At(t, i)} ELSE T, N, {i})
<1> DEFINE m == Subsume(c, i, j)
           U == IF At(t, j) \in T THEN T \cup {At(t, i)} ELSE T
           mod == IF i \in c.mod THEN c.mod \cup {j} ELSE c.mod
           map == c.mapping
           less == Without(map, i)
           new == IF i \in DOMAIN map THEN With(less, j, map[i])
                  ELSE IF i \in c.ins THEN map ELSE With(map, j, i)
<1>1. /\ c \in ChangeSet /\ c.moves = <<>> /\ c.ins \subseteq Indices(t) /\ c.mod \subseteq Indices(t)
      /\ \A k \in Indices(t) : k \notin c.ins => k \in Indices(s) /\ k \notin c.del /\ At(t, k) = At(s, k)
      /\ \A k \in c.ins : k \in Indices(s) => k \in c.del
      /\ \A k \in Indices(s) : k \notin Indices(t) => k \in c.del
      /\ \A k \in Indices(t) : k \in c.mod <=> At(t, k) \in T
      /\ \A k \in c.ins : k \notin DOMAIN c.mapping => At(t, k) > N
  BY DEF TableLog, Placed, Marked, Fresh
<1>2. \A k \in DOMAIN map :
         k \in c.ins /\ map[k] \in Indices(s) /\ map[k] \in c.del /\ At(t, k) = At(s, map[k])
  BY DEF TableLog, Mapped
<1>3. c.ins \in IndexSet /\ c.mod \in IndexSet /\ c.del \in IndexSet /\ map \in Mapping
      /\ i \in Nat /\ j \in Nat
  BY <1>1, ChangeSetParts, IndicesAre DEF Mapping
<1>4. Indices(u) = Indices(t) /\ At(u, j) = At(t, i)
      /\ \A k \in Indices(t) : k # j => At(u, k) = At(t, k)
  BY DEF Doubled, Indices
<1>5. m = [c EXCEPT !.mod = mod, !.mapping = new]
  <2>1. i \notin c.ins => OldIndex(c, i) = i
    <3>1. Placed(c.del, c.ins, s, t)
      BY DEF TableLog
    <3> QED
      BY <1>3, <3>1, OldIndexIsSame DEF OldIndex
  <2> QED
    BY <2>1 DEF Subsume
<1>6. /\ new \in Mapping
      /\ \A k \in DOMAIN new : k = j \/ (k # i /\ k \in DOMAIN map /\ new[k] = map[k])
      /\ j \in DOMAIN new => \/ i \in DOMAIN map /\ new[j] = map[i]
                             \/ i \notin c.ins /\ new[j] = i
      /\ j \notin DOMAIN new => i \in c.ins /\ i \notin DOMAIN map
      /\ DOMAIN map \ {i} \subseteq DOMAIN new
  <2>1. CASE i \in DOMAIN map
    <3>1. map[i] \in Nat
      BY <1>3, <2>1, MappingFacts
    <3>2. less \in Mapping /\ DOMAIN less = DOMAIN map \ {i}
      BY <1>3, WithoutFacts
    <3>3. \A k \in DOMAIN less : less[k] = map[k]
      BY <1>3, WithoutFacts
    <3> HIDE DEF less
    <3>4. Extends(With(less, j, map[i]), less, j, map[i])
      BY <1>3, <3>1, <3>2, WithExtends
    <3>5. new = With(less, j, map[i])
      BY <2>1
    <3> HIDE DEF new
    <3> QED
      BY <2>1, <3>2, <3>3, <3>4, <3>5 DEF Extends
  <2>2. CASE i \notin DOMAIN map /\ i \in c.ins
    <3>1. new = map
      BY <2>2
    <3> HIDE DEF new
    <3> QED
      BY <1>3, <2>2, <3>1
  <2>3. CASE i \notin c.ins
    <3>1. new = With(map, j, i) /\ i \notin DOMAIN map
      BY <1>2, <2>3
    <3>2. Extends(With(map, j, i), map, j, i)
      BY <1>3, WithExtends
    <3> HIDE DEF new
    <3> QED
      BY <2>3, <3>1, <3>2 DEF Extends
  <2> QED
    BY <2>1, <2>2, <2>3
<1> HIDE DEF new, m
<1>7. mod \in IndexSet
  BY <1>3, OneIndexMore
<1>8. /\ m \in ChangeSet /\ m.del = c.del /\ m.ins = c.ins /\ m.mod = mod /\ m.moves = c.moves
      /\ m.mapping = new
  <2> HIDE DEF mod
  <2> QED
    BY <1>1, <1>5, <1>6, <1>7 DEF ChangeSet, Mapping
<1>9. Placed(c.del, c.ins, s, u)
  BY <1>1, <1>4 DEF Placed
<1>10. Mapped(new, c.ins, c.del \cup {i}, s, u)
  <2> SUFFICES ASSUME NEW k \in DOMAIN new
               PROVE  /\ k \in c.ins /\ new[k] \in Indices(s) /\ new[k] \in c.del \cup {i}
                      /\ At(u, k) = At(s, new[k])
    BY DEF Mapped
  <2>1. CASE k = j
    BY <1>1, <1>2, <1>4, <1>6, <2>1
  <2>2. CASE k # j
    BY <1>1, <1>2, <1>4, <1>6, <2>2
  <2> QED
    BY <2>1, <2>2
<1>11. Marked(mod, u, U, {i})
  <2>1. mod \subseteq Indices(u)
    BY <1>1, <1>4
  <2>2. j \in mod <=> At(u, j) \in U
    BY <1>1, <1>4
  <2>3. ASSUME NEW k \in Indices(u), k # i, k # j PROVE k \in mod <=> At(u, k) \in U
    <3>1. k \in Indices(t) /\ At(u, k) = At(t, k) /\ At(t, k) # At(t, i)
      BY <1>4, <2>3
    <3> QED
      BY <1>1, <2>3, <3>1
  <2> HIDE DEF mod, U
  <2> QED
    BY <2>1, <2>2, <2>3 DEF Marked
<1>12. Fresh(c.ins, new, u, N, {i})
  <2> SUFFICES ASSUME NEW k \in c.ins, k # i, k \notin DOMAIN new PROVE At(u, k) > N
    BY DEF Fresh
  <2>1. CASE k = j
    BY <1>1, <1>4, <1>6, <2>1
  <2>2. CASE k # j
    BY <1>1, <1>4, <1>6, <2>2
  <2> QED
    BY <2>1, <2>2
<1> QED
  BY <1>1, <1>8, <1>9, <1>10, <1>11, <1>12 DEF TableLog, m

-----------------------------------------------------------------------------
\* parse_complete

\* parse_complete: the entries of the mapping, by their old index
CompleteOne(moves, mapping, moved, n) ==
    IF \A k \in moved : mapping[k] # n - 1 THEN moves
    ELSE Append(moves, [from |-> n - 1, to |-> CHOOSE k \in moved : mapping[k] = n - 1])

\* f are the moves after each of the old indices.
CompletingRun(f, mapping, moved) ==
    /\ f[0] = <<>>
    /\ \A n \in 1 .. NoRow : f[n] = CompleteOne(f[n - 1], mapping, moved, n)

\* It is a loop over the old indices.
LEMMA CompletingSteps ==
    ASSUME NEW c \in ChangeSet,
           NEW stay, stay = {k \in DOMAIN c.mapping : c.mapping[k] = k},
           NEW moved, moved = DOMAIN c.mapping \ stay
    PROVE  \E f : /\ CompletingRun(f, c.mapping, moved)
                  /\ ParseComplete(c) = [c EXCEPT !.del = @ \ stay, !.ins = @ \ stay,
                                                  !.mapping = <<>>, !.moves = f[NoRow]]
<1> DEFINE map == c.mapping
           G == [p \in Seq(Move) \X (1 .. NoRow) |-> CompleteOne(p[1], map, moved, p[2])]
           g(h, n) == IF n = 0 THEN <<>>
                      ELSE IF \A k \in moved : map[k] # n - 1 THEN h[n - 1]
                      ELSE Append(h[n - 1], [from |-> n - 1, to |-> CHOOSE k \in moved : map[k] = n - 1])
           Runs(h) == h = [n \in 0 .. NoRow |-> g(h, n)]
           R == CHOOSE h : Runs(h)
<1>1. map \in Mapping /\ NoRow \in Nat /\ <<>> \in Seq(Move)
  BY ChangeSetParts, NoRowAssumption DEF Mapping
<1>2. ASSUME NEW moves \in Seq(Move), NEW n \in 1 .. NoRow
      PROVE  CompleteOne(moves, map, moved, n) \in Seq(Move)
  <2>1. CASE \A k \in moved : map[k] # n - 1
    BY <2>1 DEF CompleteOne
  <2>2. CASE \E k \in moved : map[k] = n - 1
    <3> DEFINE to == CHOOSE k \in moved : map[k] = n - 1
    <3>1. to \in moved
      BY <2>2
    <3>2. to \in Nat /\ n - 1 \in Nat
      BY <1>1, <3>1, MappingFacts
    <3>3. [from |-> n - 1, to |-> to] \in Move
      BY <3>2 DEF Move
    <3>4. CompleteOne(moves, map, moved, n) = Append(moves, [from |-> n - 1, to |-> to])
      BY <2>2 DEF CompleteOne
    <3> HIDE DEF to
    <3> QED
      BY <3>3, <3>4
  <2> QED
    BY <2>1, <2>2
<1>3. G \in [Seq(Move) \X (1 .. NoRow) -> Seq(Move)]
  BY <1>2
<1>4. ParseComplete(c) = [c EXCEPT !.del = @ \ stay, !.ins = @ \ stay, !.mapping = <<>>,
                                   !.moves = R[NoRow]]
  BY DEF ParseComplete
<1>5. PICK f : RunOf(f, NoRow, Seq(Move), <<>>, G)
  <2> HIDE DEF G
  <2> QED
    BY <1>1, <1>3, Recursion
<1>6. f \in [0 .. NoRow -> Seq(Move)] /\ f[0] = <<>> /\ \A n \in 1 .. NoRow : f[n] = G[<<f[n - 1], n>>]
  BY <1>5 DEF RunOf
<1>7. ASSUME NEW n \in 1 .. NoRow PROVE f[n] = CompleteOne(f[n - 1], map, moved, n)
  <2>1. n - 1 \in 0 .. NoRow
    BY <1>1
  <2>2. <<f[n - 1], n>> \in Seq(Move) \X (1 .. NoRow)
    BY <1>6, <2>1
  <2> QED
    BY <1>6, <2>2
<1> HIDE DEF G
<1>8. Runs(f)
  <2>1. f = [n \in 0 .. NoRow |-> f[n]]
    BY <1>6
  <2>2. ASSUME NEW n \in 0 .. NoRow PROVE f[n] = g(f, n)
    <3>1. n = 0 \/ (n \in 1 .. NoRow /\ n # 0)
      BY <1>1
    <3> QED
      BY <1>6, <1>7, <3>1 DEF CompleteOne
  <2> HIDE DEF g
  <2> QED
    BY <2>1, <2>2
<1>9. Runs(R)
  <2> HIDE DEF Runs
  <2> QED
    BY <1>8
<1>10. CompletingRun(R, map, moved)
  <2> HIDE DEF R
  <2>1. ASSUME NEW n \in 0 .. NoRow PROVE R[n] = g(R, n)
    <3> HIDE DEF g
    <3> QED
      BY <1>9
  <2>2. R[0] = <<>>
    <3>1. 0 \in 0 .. NoRow
      BY <1>1
    <3>2. R[0] = g(R, 0)
      BY <2>1, <3>1
    <3> QED
      BY <3>2
  <2>3. ASSUME NEW n \in 1 .. NoRow PROVE R[n] = CompleteOne(R[n - 1], map, moved, n)
    <3>1. n \in 0 .. NoRow /\ n # 0
      BY <1>1
    <3> QED
      BY <2>1, <3>1 DEF CompleteOne
  <2> QED
    BY <2>2, <2>3 DEF CompletingRun
<1> HIDE DEF R
<1> QED
  BY <1>4, <1>10

\* The moves of the mapped rows with an old index below n.
CompletedBelow(moves, mapping, moved, n) ==
    /\ moves \in Seq(Move) /\ Apart(moves)
    /\ \A j \in 1 .. Len(moves) : /\ moves[j].to \in moved /\ moves[j].from = mapping[moves[j].to]
                                  /\ moves[j].from < n
    /\ \A k \in moved : mapping[k] < n =>
           \E j \in 1 .. Len(moves) : moves[j].to = k /\ moves[j].from = mapping[k]

\* The moves that parse_complete makes are those of the mapping, which leads no two rows
\* to the same old one.
LEMMA CompletingFacts ==
    ASSUME NEW mapping \in Mapping, NEW moved \in SUBSET DOMAIN mapping,
           \A j, k \in moved : j # k => mapping[j] # mapping[k],
           NEW f, CompletingRun(f, mapping, moved)
    PROVE  CompletedBelow(f[NoRow], mapping, moved, NoRow)
<1> DEFINE P == {n \in Nat : CompletedBelow(f[n], mapping, moved, n)}
<1>1. NoRow \in Nat /\ \A k \in moved : k \in Nat /\ mapping[k] \in Nat
  BY MappingFacts, NoRowAssumption
<1>2. 0 \in P
  <2>1. <<>> \in Seq(Move) /\ Len(<<>>) = 0
    OBVIOUS
  <2>2. f[0] = <<>>
    BY DEF CompletingRun
  <2>3. Len(f[0]) = 0 /\ f[0] \in Seq(Move)
    BY <2>1, <2>2
  <2>4. \A k \in moved : ~(mapping[k] < 0)
    BY <1>1
  <2> QED
    BY <2>3, <2>4 DEF CompletedBelow, Apart
<1>3. ASSUME NEW n \in 1 .. NoRow, n - 1 \in P PROVE n \in P
  <2> DEFINE moves == f[n - 1]
  <2>1. /\ moves \in Seq(Move) /\ Len(moves) \in Nat /\ Apart(moves) /\ n - 1 \in Nat /\ n \in Nat
        /\ \A j \in 1 .. Len(moves) : /\ moves[j].to \in moved /\ moves[j].from = mapping[moves[j].to]
                                      /\ moves[j].from < n - 1
        /\ \A k \in moved : mapping[k] < n - 1 =>
               \E j \in 1 .. Len(moves) : moves[j].to = k /\ moves[j].from = mapping[k]
    BY <1>3 DEF CompletedBelow
  <2>2. f[n] = CompleteOne(moves, mapping, moved, n)
    BY DEF CompletingRun
  <2> HIDE DEF moves
  <2>3. CASE \A k \in moved : mapping[k] # n - 1
    <3>1. f[n] = moves
      BY <2>2, <2>3 DEF CompleteOne
    <3>2. \A k \in moved : mapping[k] < n <=> mapping[k] < n - 1
      BY <1>1, <2>1, <2>3
    <3>3. ASSUME NEW j \in 1 .. Len(moves) PROVE moves[j].from < n
      <4>1. moves[j].from \in Nat
        BY <1>1, <2>1
      <4> QED
        BY <2>1, <4>1
    <3> QED
      BY <2>1, <3>1, <3>2, <3>3 DEF CompletedBelow
  <2>4. CASE \E k \in moved : mapping[k] = n - 1
    <3> DEFINE to == CHOOSE k \in moved : mapping[k] = n - 1
               move == [from |-> n - 1, to |-> to]
    <3>1. to \in moved /\ mapping[to] = n - 1
      BY <2>4
    <3>2. f[n] = Append(moves, move)
      BY <2>2, <2>4 DEF CompleteOne
    <3> HIDE DEF to
    <3>3. move \in Move /\ move.from = n - 1 /\ move.to = to
      BY <1>1, <2>1, <3>1 DEF Move
    <3> HIDE DEF move
    <3>4. \A j \in 1 .. Len(moves) : moves[j].from # move.from /\ moves[j].to # move.to
      <4> SUFFICES ASSUME NEW j \in 1 .. Len(moves) PROVE moves[j].from # move.from /\ moves[j].to # move.to
        OBVIOUS
      <4>1. moves[j].from \in Nat /\ moves[j].from < n - 1 /\ moves[j].from = mapping[moves[j].to]
        BY <1>1, <2>1
      <4> QED
        BY <2>1, <3>1, <3>3, <4>1
    <3>5. /\ f[n] \in Seq(Move) /\ Len(f[n]) = Len(moves) + 1 /\ f[n][Len(moves) + 1] = move
          /\ \A j \in 1 .. Len(moves) : f[n][j] = moves[j]
      BY <2>1, <3>2, <3>3
    <3>6. Apart(f[n])
      BY <2>1, <3>2, <3>3, <3>4, AppendedApart
    <3>7. ASSUME NEW j \in 1 .. Len(f[n])
          PROVE  f[n][j].to \in moved /\ f[n][j].from = mapping[f[n][j].to] /\ f[n][j].from < n
      <4>1. CASE j = Len(moves) + 1
        BY <2>1, <3>1, <3>3, <3>5, <4>1
      <4>2. CASE j # Len(moves) + 1
        <5>1. j \in 1 .. Len(moves)
          BY <2>1, <3>5, <4>2
        <5>2. moves[j].from \in Nat /\ f[n][j] = moves[j]
          BY <1>1, <2>1, <3>5, <5>1
        <5> QED
          BY <2>1, <5>1, <5>2
      <4> QED
        BY <4>1, <4>2
    <3>8. ASSUME NEW k \in moved, mapping[k] < n
          PROVE  \E j \in 1 .. Len(f[n]) : f[n][j].to = k /\ f[n][j].from = mapping[k]
      <4>1. CASE mapping[k] = n - 1
        <5>1. k = to
          BY <3>1, <4>1
        <5>2. Len(moves) + 1 \in 1 .. Len(f[n])
          BY <2>1, <3>5
        <5> QED
          BY <3>3, <3>5, <4>1, <5>1, <5>2
      <4>2. CASE mapping[k] # n - 1
        <5>1. mapping[k] < n - 1
          BY <1>1, <2>1, <3>8, <4>2
        <5>2. PICK j \in 1 .. Len(moves) : moves[j].to = k /\ moves[j].from = mapping[k]
          BY <2>1, <5>1
        <5>3. j \in 1 .. Len(f[n]) /\ f[n][j] = moves[j]
          BY <2>1, <3>5
        <5> QED
          BY <5>2, <5>3
      <4> QED
        BY <4>1, <4>2
    <3> QED
      BY <2>1, <3>5, <3>6, <3>7, <3>8 DEF CompletedBelow
  <2> QED
    BY <2>3, <2>4
<1>4. NoRow \in P
  <2> HIDE DEF P
  <2> QED
    BY <1>1, <1>2, <1>3, UpTo
<1> QED
  BY <1>4

\* The change c leads the rows of s that it does not delete to the same rows of t ...
Leads(s, c, t) ==
    /\ IsChange(c)
    /\ \A x, y : <<x, y>> \in Tracks(c) /\ x \in Indices(s) => y \in Indices(t) /\ At(s, x) = At(t, y)

\* ... and those that it modifies are those in T.
MarksJust(s, c, t, T) ==
    \A x, y : <<x, y>> \in Tracks(c) /\ x \in Indices(s) => (y \in c.mod <=> At(t, y) \in T)

\* The rows of t are distinct.
Distinct(t) == \A j, k \in Indices(t) : At(t, j) = At(t, k) => j = k

\* parse_complete: what the builder of a table becomes leads the old rows to the new ones.
LEMMA CompleteLeads ==
    ASSUME NEW c, NEW s \in Seq(Nat), NEW t \in Seq(Nat), NEW T, NEW N,
           TableLog(c, s, t, T, N, {}), Len(s) <= NoRow, Distinct(t)
    PROVE  Leads(s, ParseComplete(c), t) /\ MarksJust(s, ParseComplete(c), t, T)
<1> DEFINE map == c.mapping
           stay == {k \in DOMAIN map : map[k] = k}
           moved == DOMAIN map \ stay
           m == ParseComplete(c)
           del == c.del \ stay
           ins == c.ins \ stay
<1>1. /\ c \in ChangeSet /\ c.ins \subseteq Indices(t) /\ c.mod \subseteq Indices(t)
      /\ \A k \in Indices(t) : k \notin c.ins => k \in Indices(s) /\ k \notin c.del /\ At(t, k) = At(s, k)
      /\ \A k \in c.ins : k \in Indices(s) => k \in c.del
      /\ \A k \in Indices(s) : k \notin Indices(t) => k \in c.del
      /\ \A k \in Indices(t) : k \in c.mod <=> At(t, k) \in T
  BY DEF TableLog, Placed, Marked
<1>2. \A k \in DOMAIN map :
         k \in c.ins /\ map[k] \in Indices(s) /\ map[k] \in c.del /\ At(t, k) = At(s, map[k])
  BY DEF TableLog, Mapped
<1>3. c.ins \in IndexSet /\ c.mod \in IndexSet /\ c.del \in IndexSet /\ map \in Mapping
  BY <1>1, ChangeSetParts DEF Mapping
<1>4. \A j, k \in DOMAIN map : map[j] = map[k] => j = k
  BY <1>1, <1>2 DEF Distinct
<1>5. PICK f : /\ CompletingRun(f, map, moved)
               /\ m = [c EXCEPT !.del = @ \ stay, !.ins = @ \ stay, !.mapping = <<>>,
                                !.moves = f[NoRow]]
  BY <1>1, CompletingSteps
<1>6. CompletedBelow(f[NoRow], map, moved, NoRow)
  <2>1. moved \in SUBSET DOMAIN map /\ \A j, k \in moved : j # k => map[j] # map[k]
    BY <1>4
  <2> HIDE DEF moved, map
  <2> QED
    BY <1>3, <1>5, <2>1, CompletingFacts
<1> DEFINE moves == f[NoRow]
<1>7. /\ moves \in Seq(Move) /\ Apart(moves)
      /\ \A j \in 1 .. Len(moves) : moves[j].to \in moved /\ moves[j].from = map[moves[j].to]
      /\ \A k \in moved : \E j \in 1 .. Len(moves) : moves[j].to = k /\ moves[j].from = map[k]
  <2>1. ASSUME NEW k \in moved PROVE map[k] < NoRow
    <3>1. map[k] \in Nat /\ map[k] < Len(s) /\ Len(s) \in Nat
      BY <1>2, IndicesAre
    <3> QED
      BY <3>1, NoRowAssumption
  <2> HIDE DEF moved, moves, map
  <2> QED
    BY <1>6, <2>1 DEF CompletedBelow, moves
<1>8. del \in IndexSet /\ ins \in IndexSet
  BY <1>3, IndexSetParts
<1> HIDE DEF moves, m
<1>9. /\ m \in ChangeSet /\ m.del = del /\ m.ins = ins /\ m.mod = c.mod /\ m.moves = moves
  <2>1. <<>> \in Mapping
    <3>1. Empty.mapping = <<>> /\ Empty.mapping \in Mapping
      BY EmptyIsChange, ChangeSetParts DEF Empty, Mapping, IsChange
    <3> QED
      BY <3>1
  <2>2. m = [c EXCEPT !.del = del, !.ins = ins, !.mapping = <<>>, !.moves = moves]
    BY <1>5 DEF moves
  <2> HIDE DEF del, ins, stay
  <2> QED
    BY <1>1, <1>7, <1>8, <2>1, <2>2 DEF ChangeSet, Mapping
<1>10. ASSUME NEW j \in 1 .. Len(moves)
       PROVE  /\ moves[j].from \in del /\ moves[j].to \in ins
              /\ moves[j].from \in Indices(s) /\ moves[j].to \in Indices(t)
              /\ At(s, moves[j].from) = At(t, moves[j].to)
  <2> DEFINE k == moves[j].to
  <2>1. k \in DOMAIN map /\ map[k] # k /\ moves[j].from = map[k]
    BY <1>7
  <2>2. k \in c.ins /\ map[k] \in Indices(s) /\ map[k] \in c.del /\ At(t, k) = At(s, map[k])
    BY <1>2, <2>1
  <2>3. map[k] \notin stay
    <3> SUFFICES ASSUME map[k] \in DOMAIN map, map[map[k]] = map[k] PROVE FALSE
      OBVIOUS
    <3> QED
      BY <1>4, <2>1
  <2>4. k \notin stay
    BY <2>1
  <2> HIDE DEF k
  <2> QED
    BY <1>1, <2>1, <2>2, <2>3, <2>4 DEF k
<1>11. IsChange(m)
  <2>1. \A j, k \in 1 .. Len(moves) : j # k => moves[j].from # moves[k].from /\ moves[j].to # moves[k].to
    BY <1>7 DEF Apart
  <2> QED
    BY <1>9, <1>10, <2>1 DEF IsChange, MovesMatch
<1>12. ASSUME NEW x \in Indices(s), x \notin del
       PROVE  x \in Indices(t) /\ Where(del, ins, x) = x /\ At(s, x) = At(t, x)
  <2>1. x \in Indices(t)
    BY <1>1, <1>2, <1>12
  <2>2. x \notin ins /\ At(s, x) = At(t, x)
    BY <1>1, <1>2, <1>12, <2>1
  <2>3. x \in Nat /\ x < Len(s) /\ x < Len(t) /\ Len(s) \in Nat /\ Len(t) \in Nat
    BY <2>1, IndicesAre
  <2>4. ASSUME NEW z \in Nat, z < x PROVE z \in del <=> z \in ins
    <3>1. z \in Indices(s) /\ z \in Indices(t)
      BY <2>3, <2>4 DEF Indices
    <3> QED
      BY <1>1, <3>1
  <2> HIDE DEF del, ins
  <2> QED
    BY <1>8, <2>1, <2>2, <2>3, <2>4, SameBelow
<1>13. ASSUME NEW x, NEW y, <<x, y>> \in Tracks(m), x \in Indices(s)
       PROVE  y \in Indices(t) /\ At(s, x) = At(t, y)
  <2>1. \/ x \in Nat /\ x \notin m.del /\ y = Where(m.del, m.ins, x)
        \/ \E k \in 1 .. Len(m.moves) : x = m.moves[k].from /\ y = m.moves[k].to
    <3>1. \A v, w : <<v, w>> \in Tracks(m)
             <=> \/ v \in Nat /\ v \notin m.del /\ w = Where(m.del, m.ins, v)
                 \/ \E k \in 1 .. Len(m.moves) : v = m.moves[k].from /\ w = m.moves[k].to
      BY <1>11, TracksFacts
    <3> QED
      BY SMTT(30), <1>13, <3>1
  <2>2. CASE x \notin m.del /\ y = Where(m.del, m.ins, x)
    BY <1>9, <1>12, <1>13, <2>2
  <2>3. CASE \E k \in 1 .. Len(m.moves) : x = m.moves[k].from /\ y = m.moves[k].to
    BY <1>9, <1>10, <2>3
  <2> QED
    BY <2>1, <2>2, <2>3
<1>14. Leads(s, m, t)
  BY <1>11, <1>13 DEF Leads
<1>15. MarksJust(s, m, t, T)
  BY <1>1, <1>9, <1>13 DEF MarksJust
<1> QED
  BY <1>14, <1>15 DEF m

-----------------------------------------------------------------------------
\* The pieces of the log of a table, merged from the last on

\* What is known of the pieces of a table's log: they lead the rows of s to those of t,
\* and mark just those in T.
Pieces(s, c, t, T) == Leads(s, c, t) /\ MarksJust(s, c, t, T)

\* Two of them merged.
LEMMA MergedPieces ==
    ASSUME NEW s, NEW mid, NEW t, NEW T, NEW U, NEW a, Pieces(s, a, mid, T),
           NEW c, Pieces(mid, c, t, U)
    PROVE  Pieces(s, Merge(a, c), t, T \cup U)
<1> DEFINE m == Merge(a, c)
<1>1. IsChange(a) /\ IsChange(c)
  BY DEF Pieces, Leads
<1>2. Continues(m, a, c) /\ KeepsModifications(m, a, c)
  BY <1>1, MergeComposes, MergeKeepsModifications
<1> HIDE DEF m
<1>3. ASSUME NEW x, NEW y, <<x, y>> \in Tracks(m), x \in Indices(s)
      PROVE  /\ y \in Indices(t) /\ At(s, x) = At(t, y)
             /\ y \in m.mod <=> At(t, y) \in T \cup U
  <2>1. <<x, y>> \in FollowedBy(Tracks(a), Tracks(c))
    BY <1>2, <1>3 DEF Continues
  <2>2. PICK w \in Nat : <<x, w>> \in Tracks(a) /\ <<w, y>> \in Tracks(c)
    BY <2>1 DEF FollowedBy
  <2>3. w \in Indices(mid) /\ At(s, x) = At(mid, w) /\ (w \in a.mod <=> At(mid, w) \in T)
    BY <1>3, <2>2 DEF Pieces, Leads, MarksJust
  <2>4. y \in Indices(t) /\ At(mid, w) = At(t, y) /\ (y \in c.mod <=> At(t, y) \in U)
    BY <2>2, <2>3 DEF Pieces, Leads, MarksJust
  <2>5. y \in m.mod <=> w \in a.mod \/ y \in c.mod
    BY <1>2, <2>2 DEF KeepsModifications
  <2> QED
    BY <2>3, <2>4, <2>5
<1>4. IsChange(m)
  BY <1>2 DEF Continues
<1> QED
  BY <1>3, <1>4 DEF Pieces, Leads, MarksJust, m

\* Changes merged from the last one on.
FromLastRun(f, changes) ==
    /\ f[0] = changes[Len(changes)]
    /\ \A n \in 1 .. Len(changes) - 1 : f[n] = Merge(changes[Len(changes) - n], f[n - 1])
    /\ MergedFromLast(changes) = f[Len(changes) - 1]

\* It is a loop over the changes.
LEMMA FromLastSteps ==
    ASSUME NEW changes \in Seq(Changes), Len(changes) > 0
    PROVE  \E f : FromLastRun(f, changes)
<1> DEFINE L == Len(changes)
           N == L - 1
           last == Last(changes)
           G == [p \in Changes \X (1 .. N) |-> Merge(changes[L - p[2]], p[1])]
           Runs(g) == g = [n \in 0 .. N |-> IF n = 0 THEN last ELSE Merge(changes[L - n], g[n - 1])]
           R == CHOOSE g : Runs(g)
<1>1. /\ L \in Nat /\ N \in Nat /\ last \in Changes /\ last = changes[L]
      /\ \A n \in 1 .. N : changes[L - n] \in Changes
  BY DEF Last
<1>3. G \in [Changes \X (1 .. N) -> Changes]
  BY <1>1, MergedIsChange
<1>4. MergedFromLast(changes) = R[N]
  BY DEF MergedFromLast
<1> HIDE DEF L, last
<1>a. PICK f : RunOf(f, N, Changes, last, G)
  <2> HIDE DEF N, G
  <2> QED
    BY <1>1, <1>3, Recursion
<1>5. f \in [0 .. N -> Changes] /\ f[0] = last /\ \A n \in 1 .. N : f[n] = G[<<f[n - 1], n>>]
  BY <1>a DEF RunOf
<1>6. \A n \in 1 .. N : f[n - 1] \in Changes /\ f[n] = Merge(changes[L - n], f[n - 1])
  <2> SUFFICES ASSUME NEW n \in 1 .. N
               PROVE  f[n - 1] \in Changes /\ f[n] = Merge(changes[L - n], f[n - 1])
    OBVIOUS
  <2>1. n - 1 \in 0 .. N
    BY <1>1
  <2>2. f[n - 1] \in Changes /\ <<f[n - 1], n>> \in Changes \X (1 .. N)
    BY <1>5, <2>1
  <2> QED
    BY <1>5, <2>2
<1> HIDE DEF G
<1>7. Runs(f)
  <2>1. f = [n \in 0 .. N |-> f[n]]
    BY <1>5
  <2>2. ASSUME NEW n \in 0 .. N
        PROVE  f[n] = IF n = 0 THEN last ELSE Merge(changes[L - n], f[n - 1])
    <3>1. n = 0 \/ (n \in 1 .. N /\ n # 0)
      BY <1>1
    <3> QED
      BY <1>5, <1>6, <3>1
  <2> HIDE DEF N
  <2> QED
    BY <2>1, <2>2
<1>8. Runs(R)
  <2> HIDE DEF Runs
  <2> QED
    BY <1>7
<1>9. R[0] = last /\ \A n \in 1 .. N : R[n] = Merge(changes[L - n], R[n - 1])
  <2> HIDE DEF R
  <2>1. R[0] = last
    BY <1>1, <1>8
  <2>2. ASSUME NEW n \in 1 .. N PROVE R[n] = Merge(changes[L - n], R[n - 1])
    BY <1>1, <1>8
  <2> QED
    BY <2>1, <2>2
<1> HIDE DEF R
<1> QED
  BY <1>1, <1>4, <1>9 DEF FromLastRun, L

\* One change only.
LEMMA FromLastOfOne ==
    ASSUME NEW c \in Changes
    PROVE  MergedFromLast(<<c>>) = c
<1> DEFINE one == <<c>>
<1>1. one \in Seq(Changes) /\ Len(one) = 1 /\ one[1] = c /\ Len(one) > 0 /\ Len(one) - 1 = 0
  OBVIOUS
<1> HIDE DEF one
<1>2. PICK f : FromLastRun(f, one)
  BY <1>1, FromLastSteps
<1>3. MergedFromLast(one) = c
  BY <1>1, <1>2 DEF FromLastRun
<1> QED
  BY <1>3 DEF one

\* The last two may be merged before the others.
LEMMA FromLastOfTwo ==
    ASSUME NEW changes \in Seq(Changes), NEW p \in Changes, NEW c \in Changes
    PROVE  MergedFromLast(Append(Append(changes, p), c)) = MergedFromLast(Append(changes, Merge(p, c)))
<1> DEFINE N == Len(changes)
           m == Merge(p, c)
           one == Append(changes, m)
           two == Append(Append(changes, p), c)
<1>m. m \in Changes
  BY MergedIsChange
<1> HIDE DEF m
<1>1. /\ N \in Nat /\ one \in Seq(Changes) /\ Len(one) = N + 1 /\ one[N + 1] = m
      /\ \A n \in 1 .. N : one[n] = changes[n]
  BY <1>m
<1>2. /\ two \in Seq(Changes) /\ Len(two) = N + 2 /\ two[N + 2] = c /\ two[N + 1] = p
      /\ \A n \in 1 .. N : two[n] = changes[n]
  OBVIOUS
<1> HIDE DEF one, two
<1>3. PICK f : FromLastRun(f, one)
  BY <1>1, FromLastSteps
<1>4. PICK g : FromLastRun(g, two)
  BY <1>1, <1>2, FromLastSteps
<1>5. /\ f[0] = m /\ \A n \in 1 .. N : f[n] = Merge(one[N + 1 - n], f[n - 1])
      /\ MergedFromLast(one) = f[N]
  BY <1>1, <1>3 DEF FromLastRun
<1>6. /\ g[0] = c /\ \A n \in 1 .. N + 1 : g[n] = Merge(two[N + 2 - n], g[n - 1])
      /\ MergedFromLast(two) = g[N + 1]
  BY <1>1, <1>2, <1>4 DEF FromLastRun
<1> HIDE DEF N
<1> DEFINE P == {n \in Nat : f[n] = g[n + 1]}
<1>7. 0 \in P
  <2>1. g[1] = Merge(two[N + 2 - 1], g[1 - 1])
    BY <1>1, <1>6
  <2>2. N + 2 - 1 = N + 1 /\ 1 - 1 = 0
    BY <1>1
  <2> QED
    BY <1>2, <1>5, <1>6, <2>1, <2>2 DEF m
<1>8. ASSUME NEW n \in 1 .. N, n - 1 \in P PROVE n \in P
  <2>1. n + 1 \in 1 .. N + 1 /\ N + 2 - (n + 1) = N + 1 - n /\ (n + 1) - 1 = (n - 1) + 1
        /\ N + 1 - n \in 1 .. N
    BY <1>1
  <2>2. f[n - 1] = g[(n - 1) + 1] /\ n \in Nat
    BY <1>8
  <2>3. g[n + 1] = Merge(two[N + 2 - (n + 1)], g[(n + 1) - 1])
    BY <1>6, <2>1
  <2> QED
    BY <1>1, <1>2, <1>5, <2>1, <2>2, <2>3
<1>9. N \in P
  <2> HIDE DEF P
  <2> QED
    BY <1>1, <1>7, <1>8, UpTo
<1> QED
  BY <1>5, <1>6, <1>9 DEF one, two, m

\* Where a row is now: what is found is where the change leads it.
LEMMA FollowIsTracked ==
    ASSUME NEW c, IsChange(c), NEW x \in Nat
    PROVE  Follow(c, x) = Gone \/ <<x, Follow(c, x)>> \in Tracks(c)
<1> DEFINE behind == {k \in DOMAIN c.moves : c.moves[k].from >= x}
           k == CHOOSE k \in behind : \A n \in behind : k <= n
<1>1. c.moves \in Seq(Move) /\ DOMAIN c.moves = 1 .. Len(c.moves)
  BY ChangeFacts
<1>2. CASE x \notin c.del
  <2>1. Follow(c, x) = Where(c.del, c.ins, x)
    BY <1>2 DEF Follow, Where
  <2> QED
    BY <1>2, <2>1, TracksFacts
<1>3. CASE x \in c.del /\ behind # {} /\ c.moves[k].from = x
  <2>1. behind \subseteq Nat
    BY <1>1
  <2>2. \E j \in behind : \A n \in behind : j <= n
    <3> HIDE DEF behind
    <3> QED
      BY <1>3, <2>1, LeastIndex
  <2>3. k \in behind
    <3> HIDE DEF behind
    <3> QED
      BY <2>2
  <2>4. k \in 1 .. Len(c.moves)
    <3> HIDE DEF k
    <3> QED
      BY <1>1, <2>3
  <2>5. Follow(c, x) = c.moves[k].to
    BY <1>3 DEF Follow
  <2> HIDE DEF k
  <2> QED
    BY <1>3, <2>4, <2>5, TracksFacts
<1>4. CASE x \in c.del /\ ~(behind # {} /\ c.moves[k].from = x)
  BY <1>4 DEF Follow
<1> QED
  BY <1>2, <1>3, <1>4

-----------------------------------------------------------------------------
\* calculate: the rows that are in both, and changes that pair them

\* The pairs of K are the indices below n that del leaves and those below m that ins
\* leaves, one to one and in the same order.
Pairing(K, n, del, m, ins) ==
    /\ \A x, y : <<x, y>> \in K => /\ x \in Nat /\ x < n /\ x \notin del
                                   /\ y \in Nat /\ y < m /\ y \notin ins
    /\ \A x \in Nat : x < n /\ x \notin del => \E y : <<x, y>> \in K
    /\ \A y \in Nat : y < m /\ y \notin ins => \E x : <<x, y>> \in K
    /\ \A x, y, u, v : <<x, y>> \in K /\ <<u, v>> \in K => (x < u <=> y < v)

\* What is deleted and inserted leads each index to the one it is paired with, and what
\* is behind the one to what is behind the other.
LEMMA PairedWhere ==
    ASSUME NEW n \in Nat, NEW m \in Nat, NEW del \in IndexSet, NEW ins \in IndexSet,
           \A x \in del : x < n, \A y \in ins : y < m, NEW K, Pairing(K, n, del, m, ins)
    PROVE  \A x \in Nat : x \notin del =>
               IF x < n THEN <<x, Where(del, ins, x)>> \in K ELSE Where(del, ins, x) >= m
<1> DEFINE To(x) == CHOOSE y : <<x, y>> \in K
           g == [x \in Nat \ del |-> IF x < n THEN To(x) ELSE x - n + m]
<1>p. /\ \A x, y : <<x, y>> \in K => /\ x \in Nat /\ x < n /\ x \notin del
                                     /\ y \in Nat /\ y < m /\ y \notin ins
      /\ \A x \in Nat : x < n /\ x \notin del => \E y : <<x, y>> \in K
      /\ \A y \in Nat : y < m /\ y \notin ins => \E x : <<x, y>> \in K
      /\ \A x, y, u, v : <<x, y>> \in K /\ <<u, v>> \in K => (x < u <=> y < v)
  BY DEF Pairing
<1>1. \A x \in Nat \ del : x < n => <<x, To(x)>> \in K
  <2> SUFFICES ASSUME NEW x \in Nat \ del, x < n PROVE <<x, To(x)>> \in K
    OBVIOUS
  <2>1. \E y : <<x, y>> \in K
    BY <1>p
  <2> QED
    BY <2>1
<1> HIDE DEF To
<1>2. \A x \in Nat \ del : /\ x < n => g[x] = To(x) /\ <<x, g[x]>> \in K
                           /\ ~(x < n) => g[x] = x - n + m
  BY <1>1
<1>d. g = [x \in Nat \ del |-> g[x]]
  OBVIOUS
<1> HIDE DEF g
<1>3. \A x \in Nat \ del : /\ g[x] \in Nat \ ins /\ (x < n <=> g[x] < m)
  <2> SUFFICES ASSUME NEW x \in Nat \ del PROVE g[x] \in Nat \ ins /\ (x < n <=> g[x] < m)
    OBVIOUS
  <2>1. CASE x < n
    BY ZenonT(60), <1>2, <1>p, <2>1
  <2>2. CASE ~(x < n)
    <3>1. x - n + m \in Nat /\ ~(x - n + m < m)
      BY <2>2
    <3> QED
      BY <1>2, <2>2, <3>1
  <2> QED
    BY <2>1, <2>2
<1>4. g \in [Nat \ del -> Nat \ ins]
  BY <1>d, <1>3
<1>5. ASSUME NEW k \in Nat \ del, NEW l \in Nat \ del, k < l PROVE g[k] < g[l]
  <2>1. g[k] \in Nat /\ g[l] \in Nat
    BY <1>3
  <2>2. CASE k < n /\ l < n
    <3>1. <<k, g[k]>> \in K /\ <<l, g[l]>> \in K
      BY <1>2, <2>2
    <3> QED
      BY <1>5, <1>p, <3>1
  <2>3. CASE k < n /\ ~(l < n)
    BY <1>3, <2>1, <2>3
  <2>4. CASE ~(k < n) /\ ~(l < n)
    <3>1. g[k] = k - n + m /\ g[l] = l - n + m
      BY <1>2, <2>4
    <3> QED
      BY <1>5, <3>1
  <2> QED
    BY <1>5, <2>2, <2>3, <2>4
<1>6. ASSUME NEW y \in Nat \ ins PROVE \E k \in Nat \ del : g[k] = y
  <2>1. CASE y < m
    <3>1. PICK x : <<x, y>> \in K
      BY <1>p, <2>1
    <3>2. x \in Nat \ del /\ x < n
      BY <1>p, <3>1
    <3>3. <<x, g[x]>> \in K
      BY <1>2, <3>2
    <3>4. y \in Nat /\ g[x] \in Nat
      BY <1>p, <3>1, <3>3
    <3>5. ~(y < g[x]) /\ ~(g[x] < y)
      <4>1. ~(x < x)
        BY <3>2
      <4> QED
        BY <1>p, <3>1, <3>3, <4>1
    <3> QED
      BY <3>2, <3>4, <3>5
  <2>2. CASE ~(y < m)
    <3>1. y - m + n \in Nat /\ ~(y - m + n < n) /\ (y - m + n) - n + m = y
      BY <2>2
    <3>2. y - m + n \in Nat \ del
      BY <3>1
    <3> QED
      BY <1>2, <3>1, <3>2
  <2> QED
    BY <2>1, <2>2
<1>7. \A k \in Nat \ del : g[k] = Where(del, ins, k)
  BY <1>4, <1>5, <1>6, WhereIsUnique
<1> QED
  BY <1>2, <1>3, <1>7

\* What calculate is to find of the rows old and new: a change of the one to the other,
\* with those of the changed rows that were there.
Calculated(c, old, new, changed) ==
    /\ IsChange(c) /\ c.del \subseteq Indices(old) /\ c.ins \subseteq Indices(new)
    /\ \A x, y : <<x, y>> \in Tracks(c) =>
           /\ x \in Indices(old) <=> y \in Indices(new)
           /\ x \in Indices(old) => At(old, x) = At(new, y)
    /\ c.mod = {i \in Indices(new) : At(new, i) \in ToSet(old) \cap changed}

\* The pairs are of rows that are the same.
SameRows(K, old, new) == \A x, y : <<x, y>> \in K => At(old, x) = At(new, y)

\* The moves are of rows that are deleted and inserted, each of one row.
TrueMoves(c, old, new) ==
    /\ MovesMatch(c)
    /\ \A k \in 1 .. Len(c.moves) : At(old, c.moves[k].from) = At(new, c.moves[k].to)

\* A change with deletions and insertions that leave pairs of the same rows.
LEMMA PairedCalculated ==
    ASSUME NEW old, Len(old) \in Nat, NEW new, Len(new) \in Nat, NEW changed,
           NEW c \in ChangeSet, c.del \subseteq Indices(old), c.ins \subseteq Indices(new),
           c.mod = {i \in Indices(new) : At(new, i) \in ToSet(old) \cap changed},
           TrueMoves(c, old, new),
           NEW K, Pairing(K, Len(old), c.del, Len(new), c.ins), SameRows(K, old, new)
    PROVE  Calculated(c, old, new, changed)
<1>1. IsChange(c)
  BY DEF IsChange, TrueMoves
<1>2. c.del \in IndexSet /\ c.ins \in IndexSet
  BY ChangeSetParts
<1>3. /\ \A x : x \in Indices(old) <=> x \in Nat /\ x < Len(old)
      /\ \A x : x \in Indices(new) <=> x \in Nat /\ x < Len(new)
  BY DEF Indices
<1>4. \A x \in Nat : x \notin c.del =>
         IF x < Len(old) THEN <<x, Where(c.del, c.ins, x)>> \in K
         ELSE Where(c.del, c.ins, x) >= Len(new)
  <2>1. (\A x \in c.del : x < Len(old)) /\ (\A y \in c.ins : y < Len(new))
    BY <1>3
  <2> QED
    BY <1>2, <2>1, PairedWhere
<1>5. ASSUME NEW x, NEW y, <<x, y>> \in Tracks(c)
      PROVE  /\ x \in Indices(old) <=> y \in Indices(new)
             /\ x \in Indices(old) => At(old, x) = At(new, y)
  <2>1. \/ x \in Nat /\ x \notin c.del /\ y = Where(c.del, c.ins, x)
        \/ \E k \in 1 .. Len(c.moves) : x = c.moves[k].from /\ y = c.moves[k].to
    BY <1>1, <1>5, TracksFacts
  <2>2. CASE x \in Nat /\ x \notin c.del /\ y = Where(c.del, c.ins, x)
    <3>1. y \in Nat
      BY <1>2, <2>2, WhereFacts
    <3>2. CASE x < Len(old)
      <4>1. <<x, y>> \in K
        BY <1>4, <2>2, <3>2
      <4>2. y < Len(new)
        BY <4>1 DEF Pairing
      <4> QED
        BY <1>3, <2>2, <3>1, <3>2, <4>1, <4>2 DEF SameRows
    <3>3. CASE ~(x < Len(old))
      <4>1. y >= Len(new)
        BY <1>4, <2>2, <3>3
      <4> QED
        BY <1>3, <3>1, <3>3, <4>1
    <3> QED
      BY <3>2, <3>3
  <2>3. CASE \E k \in 1 .. Len(c.moves) : x = c.moves[k].from /\ y = c.moves[k].to
    <3>1. PICK k \in 1 .. Len(c.moves) : x = c.moves[k].from /\ y = c.moves[k].to
      BY <2>3
    <3>2. x \in c.del /\ y \in c.ins /\ At(old, x) = At(new, y)
      BY <3>1 DEF TrueMoves, MovesMatch
    <3> QED
      BY <3>2
  <2> QED
    BY <2>1, <2>2, <2>3
<1> QED
  BY <1>1, <1>5 DEF Calculated

\* The place of an element that s has only once.
LEMMA PlaceIs ==
    ASSUME NEW S, NEW s \in Seq(S), NEW i \in Indices(s),
           \A k \in Indices(s) : At(s, k) = At(s, i) => k = i
    PROVE  Place(s, At(s, i)) = i
<1> DEFINE j == CHOOSE n \in DOMAIN s : s[n] = At(s, i)
<1>1. DOMAIN s = 1 .. Len(s) /\ Len(s) \in Nat
  OBVIOUS
<1>2. i \in Int /\ 0 <= i /\ i < Len(s) /\ i + 1 \in DOMAIN s /\ s[i + 1] = At(s, i)
  BY <1>1 DEF Indices, At
<1>3. j \in DOMAIN s /\ s[j] = At(s, i)
  BY <1>2
<1> HIDE DEF j
<1>4. j - 1 \in Indices(s) /\ At(s, j - 1) = s[j]
  <2>1. (j - 1) + 1 = j /\ j - 1 \in 0 .. Len(s) - 1
    BY <1>1, <1>3
  <2> QED
    BY <2>1 DEF Indices, At
<1>5. j - 1 = i
  BY <1>3, <1>4
<1> QED
  BY <1>5 DEF Place, j

\* b is what s has at the places h, which are those of what is in t.
Selected(b, s, t, h) ==
    /\ h \in [1 .. Len(b) -> Indices(s)]
    /\ \A p \in 1 .. Len(b) : b[p] = At(s, h[p]) /\ b[p] \in ToSet(t) /\ Place(s, b[p]) = h[p]
    /\ \A p, q \in 1 .. Len(b) : p < q => h[p] < h[q]
    /\ \A k \in Indices(s) : At(s, k) \in ToSet(t) => \E p \in 1 .. Len(b) : h[p] = k

\* Both, element by element.
LEMMA BothFacts ==
    ASSUME NEW S, NEW s \in Seq(S), NEW t,
           \A j, k \in Indices(s) : At(s, j) = At(s, k) /\ At(s, j) \in ToSet(t) => j = k
    PROVE  Both(t, s) \in Seq(S) /\ \E h : Selected(Both(t, s), s, t, h)
<1> DEFINE out == {i \in Indices(s) : At(s, i) \notin ToSet(t)}
           b == Both(t, s)
           h == [p \in 1 .. Len(b) |-> Shift(out, p - 1)]
<1>1. Len(s) \in Nat /\ \A i : i \in Indices(s) <=> i \in Nat /\ i < Len(s)
  BY DEF Indices
<1>2. out \in IndexSet
  <2>1. Indices(s) \in IndexSet
    BY <1>1, UpToIsIndexSet DEF Indices
  <2> QED
    BY <2>1, FS_Subset DEF IndexSet
<1>3. b = Rest(s, out)
  BY DEF Both
<1>i. \A i \in Indices(s) : i \in out <=> At(s, i) \notin ToSet(t)
  OBVIOUS
<1> HIDE DEF b, out
<1>4. /\ b \in Seq(S) /\ Len(b) = Unshift(out, Len(s)) /\ Len(b) \in Nat
      /\ \A k \in 0 .. Len(s) - 1 : k \notin out => b[Unshift(out, k) + 1] = s[k + 1]
  <2>1. RestOf(S, b, s, out, Len(s))
    BY <1>2, <1>3, RestFacts
  <2> QED
    BY <2>1 DEF RestOf
<1>5. ASSUME NEW p \in 1 .. Len(b)
      PROVE  /\ h[p] \in Indices(s) /\ h[p] \notin out /\ Unshift(out, h[p]) = p - 1
             /\ b[p] = At(s, h[p])
  <2>1. p - 1 \in Nat /\ h[p] = Shift(out, p - 1) /\ (p - 1) + 1 = p /\ p - 1 < Len(b)
    BY <1>4
  <2>2. h[p] \in Nat /\ h[p] \notin out /\ Unshift(out, h[p]) = p - 1
    BY <1>2, <2>1, ShiftFacts
  <2> HIDE DEF h
  <2>3. h[p] < Len(s)
    <3>1. Len(s) <= h[p] => Len(b) <= p - 1
      BY <1>1, <1>2, <1>4, <2>2, UnshiftOrder
    <3> QED
      BY <1>1, <1>4, <2>1, <2>2, <3>1
  <2>4. h[p] \in Indices(s)
    BY <1>1, <2>2, <2>3
  <2>5. h[p] \in 0 .. Len(s) - 1
    BY <2>4 DEF Indices
  <2> QED
    BY <1>4, <2>1, <2>2, <2>4, <2>5 DEF At
<1>d. h = [p \in 1 .. Len(b) |-> h[p]]
  OBVIOUS
<1> HIDE DEF h
<1>6. ASSUME NEW p \in 1 .. Len(b) PROVE b[p] \in ToSet(t) /\ Place(s, b[p]) = h[p]
  <2>1. At(s, h[p]) \in ToSet(t)
    BY <1>5, <1>i
  <2>2. Place(s, At(s, h[p])) = h[p]
    BY <1>5, <2>1, PlaceIs
  <2> QED
    BY <1>5, <2>1, <2>2
<1>7. ASSUME NEW p \in 1 .. Len(b), NEW q \in 1 .. Len(b), p < q PROVE h[p] < h[q]
  <2>1. h[p] \in Nat /\ h[q] \in Nat /\ Unshift(out, h[p]) = p - 1 /\ Unshift(out, h[q]) = q - 1
    BY <1>1, <1>5
  <2>2. h[q] <= h[p] => q - 1 <= p - 1
    BY <1>2, <2>1, UnshiftOrder
  <2> QED
    BY <1>7, <2>1, <2>2
<1>8. ASSUME NEW k \in Indices(s), At(s, k) \in ToSet(t) PROVE \E p \in 1 .. Len(b) : h[p] = k
  <2> DEFINE p == Unshift(out, k) + 1
  <2>1. k \in Nat /\ k < Len(s) /\ k \notin out
    BY <1>1, <1>8, <1>i
  <2>2. Unshift(out, k) \in Nat /\ Unshift(out, k) < Len(b)
    BY <1>1, <1>2, <1>4, <2>1, UnshiftOrder, UnshiftFacts
  <2>3. p \in 1 .. Len(b) /\ p - 1 = Unshift(out, k)
    BY <1>4, <2>2
  <2>4. h[p] = Shift(out, Unshift(out, k))
    BY <2>3 DEF h
  <2>5. h[p] = k
    BY <1>2, <2>1, <2>4, ShiftUnshift
  <2> QED
    BY <2>3, <2>5
<1>9. h \in [1 .. Len(b) -> Indices(s)]
  BY <1>5, <1>d
<1>10. Selected(b, s, t, h)
  BY <1>5, <1>6, <1>7, <1>8, <1>9 DEF Selected
<1> QED
  BY <1>4, <1>10 DEF b

\* The rows that calculate compares: those of the last run, where they are now, or gone,
\* and those of this run.
RowLists(old, new) ==
    /\ old \in Seq(Nat \cup {Gone}) /\ new \in Seq(Nat) /\ Distinct(new)
    /\ \A j, k \in Indices(old) : At(old, j) = At(old, k) /\ At(old, j) # Gone => j = k

\* The n-th of the rows that are in both is at from[n] in the old and at to[n] in the new.
Common(old, new, rows, from, to) ==
    /\ rows \in Seq(Nat) /\ from \in [1 .. Len(rows) -> Indices(old)]
    /\ to \in [1 .. Len(rows) -> Indices(new)]
    /\ \A n \in 1 .. Len(rows) : /\ Place(old, rows[n]) = from[n] /\ Place(new, rows[n]) = to[n]
                                 /\ At(old, from[n]) = rows[n] /\ At(new, to[n]) = rows[n]
    /\ \A m, n \in 1 .. Len(rows) : m < n => to[m] < to[n]
    /\ \A m, n \in 1 .. Len(rows) : m # n => from[m] # from[n] /\ to[m] # to[n]
    /\ \A x \in Indices(old) : At(old, x) \in ToSet(new) => \E n \in 1 .. Len(rows) : from[n] = x
    /\ \A y \in Indices(new) : At(new, y) \in ToSet(old) => \E n \in 1 .. Len(rows) : to[n] = y

\* What is in a sequence.
LEMMA InSequence ==
    ASSUME NEW S, NEW s \in Seq(S)
    PROVE  /\ \A e : e \in ToSet(s) <=> \E i \in Indices(s) : At(s, i) = e
           /\ \A e \in ToSet(s) : e \in S
<1>1. Len(s) \in Nat /\ DOMAIN s = 1 .. Len(s)
  OBVIOUS
<1>2. ASSUME NEW e PROVE e \in ToSet(s) <=> \E i \in 1 .. Len(s) : s[i] = e
  BY <1>1 DEF ToSet
<1>3. \A i \in 1 .. Len(s) : i - 1 \in Indices(s) /\ At(s, i - 1) = s[i]
  <2> SUFFICES ASSUME NEW i \in 1 .. Len(s) PROVE i - 1 \in 0 .. Len(s) - 1 /\ (i - 1) + 1 = i
    BY DEF Indices, At
  <2> QED
    BY <1>1
<1>4. \A i \in Indices(s) : i + 1 \in 1 .. Len(s) /\ At(s, i) = s[i + 1]
  BY <1>1 DEF Indices, At
<1>5. ASSUME NEW e PROVE e \in ToSet(s) <=> \E i \in Indices(s) : At(s, i) = e
  BY <1>2, <1>3, <1>4
<1>6. \A e \in ToSet(s) : e \in S
  <2>1. \A i \in 1 .. Len(s) : s[i] \in S
    OBVIOUS
  <2> QED
    BY <1>2, <2>1
<1> QED
  BY <1>5, <1>6

\* The rows that are in both.
LEMMA CommonRows ==
    ASSUME NEW old, NEW new, RowLists(old, new)
    PROVE  \E from, to : Common(old, new, Both(old, new), from, to)
<1> DEFINE rows == Both(old, new)
           from == [n \in 1 .. Len(rows) |-> Place(old, rows[n])]
<1>1. /\ old \in Seq(Nat \cup {Gone}) /\ new \in Seq(Nat) /\ Len(old) \in Nat
      /\ \A j, k \in Indices(new) : At(new, j) = At(new, k) => j = k
      /\ \A j, k \in Indices(old) : At(old, j) = At(old, k) /\ At(old, j) # Gone => j = k
  BY DEF RowLists, Distinct
<1>2. rows \in Seq(Nat)
  BY <1>1, BothFacts
<1>3. PICK to : Selected(rows, new, old, to)
  BY <1>1, BothFacts
<1> HIDE DEF rows
<1>4. /\ to \in [1 .. Len(rows) -> Indices(new)]
      /\ \A p \in 1 .. Len(rows) : /\ rows[p] = At(new, to[p]) /\ rows[p] \in ToSet(old)
                                   /\ Place(new, rows[p]) = to[p]
      /\ \A p, q \in 1 .. Len(rows) : p < q => to[p] < to[q]
      /\ \A k \in Indices(new) : At(new, k) \in ToSet(old) => \E p \in 1 .. Len(rows) : to[p] = k
  BY <1>3 DEF Selected
<1>5. Len(rows) \in Nat /\ \A n \in 1 .. Len(rows) : rows[n] \in Nat /\ rows[n] # Gone /\ to[n] \in Nat
  <2>1. \A n \in 1 .. Len(rows) : rows[n] \in Nat
    BY <1>2
  <2>2. \A k \in Nat : k # Gone
    BY DEF Gone
  <2>3. \A y \in Indices(new) : y \in Nat
    BY <1>1 DEF Indices
  <2> QED
    BY <1>2, <1>4, <2>1, <2>2, <2>3
<1>6. ASSUME NEW n \in 1 .. Len(rows)
      PROVE  from[n] \in Indices(old) /\ At(old, from[n]) = rows[n] /\ from[n] = Place(old, rows[n])
  <2>1. PICK x \in Indices(old) : At(old, x) = rows[n]
    BY <1>1, <1>4, InSequence
  <2>2. Place(old, At(old, x)) = x
    <3>1. \A k \in Indices(old) : At(old, k) = At(old, x) => k = x
      BY <1>1, <1>5, <2>1
    <3> QED
      BY <1>1, <3>1, PlaceIs
  <2> QED
    BY <2>1, <2>2
<1>d. from = [n \in 1 .. Len(rows) |-> from[n]]
  OBVIOUS
<1> HIDE DEF from
<1>7. from \in [1 .. Len(rows) -> Indices(old)]
  BY <1>6, <1>d
<1>8. ASSUME NEW m \in 1 .. Len(rows), NEW n \in 1 .. Len(rows), m # n
      PROVE  from[m] # from[n] /\ to[m] # to[n]
  <2>1. m < n \/ n < m
    BY <1>5, <1>8
  <2>2. to[m] # to[n]
    BY <1>4, <1>5, <2>1
  <2>3. rows[m] # rows[n]
    BY <1>4, <2>2
  <2> QED
    BY <1>6, <2>2, <2>3
<1>9. ASSUME NEW x \in Indices(old), At(old, x) \in ToSet(new)
      PROVE  \E n \in 1 .. Len(rows) : from[n] = x
  <2>1. PICK y \in Indices(new) : At(new, y) = At(old, x)
    BY <1>1, <1>9, InSequence
  <2>2. At(new, y) \in ToSet(old)
    BY <1>1, <2>1, InSequence
  <2>3. PICK n \in 1 .. Len(rows) : to[n] = y
    BY <1>4, <2>2
  <2>4. At(old, from[n]) = At(old, x) /\ rows[n] # Gone
    BY <1>4, <1>5, <1>6, <2>1, <2>3
  <2> QED
    BY <1>1, <1>6, <2>4
<1>10. Common(old, new, rows, from, to)
  BY <1>2, <1>4, <1>6, <1>7, <1>8, <1>9 DEF Common
<1> QED
  BY <1>10 DEF rows

-----------------------------------------------------------------------------
\* calculate_moves_unsorted

\* As many values as arguments, when no two arguments have the same.
LEMMA ImageCount ==
    ASSUME NEW K, IsFiniteSet(K), NEW f, \A m, n \in K : m # n => f[m] # f[n]
    PROVE  IsFiniteSet({f[m] : m \in K}) /\ Cardinality({f[m] : m \in K}) = Cardinality(K)
<1> DEFINE T == {f[m] : m \in K}
           g == [m \in K |-> f[m]]
<1>1. g \in Surjection(K, T)
  BY DEF Surjection
<1>2. g \in Injection(K, T)
  BY DEF Injection, IsInjective
<1> QED
  BY <1>1, <1>2, FS_Surjection

\* Two sets with nothing in common.
LEMMA CountOfTwo ==
    ASSUME NEW A, IsFiniteSet(A), NEW B, IsFiniteSet(B), A \cap B = {}
    PROVE  IsFiniteSet(A \cup B) /\ Cardinality(A \cup B) = Cardinality(A) + Cardinality(B)
           /\ Cardinality(A) \in Nat /\ Cardinality(B) \in Nat
<1>1. Cardinality(A) \in Nat /\ Cardinality(B) \in Nat
  BY FS_CardinalityType
<1>2. Cardinality(A \cap B) = 0
  BY FS_EmptySet
<1>3. /\ IsFiniteSet(A \cup B)
      /\ Cardinality(A \cup B) = Cardinality(A) + Cardinality(B) - Cardinality(A \cap B)
  BY FS_Union
<1> QED
  BY <1>1, <1>2, <1>3

\* The indices below f.
LEMMA BelowIs ==
    ASSUME NEW f \in Nat
    PROVE  IsFiniteSet({x \in Nat : x < f}) /\ Cardinality({x \in Nat : x < f}) = f
<1>1. {x \in Nat : x < f} = 0 .. f - 1
  OBVIOUS
<1>2. IsFiniteSet(0 .. f - 1) /\ Cardinality(0 .. f - 1) = IF 0 > f - 1 THEN 0 ELSE f - 1 - 0 + 1
  BY FS_Interval
<1>3. (IF 0 > f - 1 THEN 0 ELSE f - 1 - 0 + 1) = f
  OBVIOUS
<1> QED
  BY <1>1, <1>2, <1>3

\* The part of a set below f.
LEMMA PartBelow ==
    ASSUME NEW A \in IndexSet, NEW f
    PROVE  IsFiniteSet({x \in A : x < f}) /\ Cardinality({x \in A : x < f}) \in Nat
           /\ Cardinality({x \in A : x < f}) <= Cardinality(A)
           /\ (Cardinality({x \in A : x < f}) = Cardinality(A) => {x \in A : x < f} = A)
BY FS_Subset, FS_CardinalityType DEF IndexSet

\* Below f are the indices in out, those removed, those of the rows F that stay and those
\* of the rows U to come; below t are those inserted and those of the rows T that stay;
\* and the place of f is where it is awaited.
Awaited(f, t, out, removed, ins, F, U, T) ==
    /\ f \in Nat /\ t \in Nat /\ out \in IndexSet /\ removed \in IndexSet /\ ins \in IndexSet
    /\ F \in IndexSet /\ U \in IndexSet /\ T \in IndexSet /\ Cardinality(F) = Cardinality(T)
    /\ \A x \in Nat : x < f => x \in out \/ x \in removed \/ x \in F \/ x \in U
    /\ out \cap removed = {} /\ F \cap (out \cup removed) = {} /\ U \cap (out \cup removed) = {}
    /\ F \cap U = {} /\ T \cap ins = {}
    /\ \A y \in Nat : y < t => y \in ins \/ y \in T
    /\ \A y \in T : y < t
    /\ Unshift(out, f) = Unshift(ins, t) + CountBelow(removed, f)

\* Then as many rows are before it that are still to come as there are behind it that stay.
LEMMA AwaitedCounts ==
    ASSUME NEW f, NEW t, NEW out, NEW removed, NEW ins, NEW F, NEW U, NEW T,
           Awaited(f, t, out, removed, ins, F, U, T)
    PROVE  /\ (\A x \in U : ~(x < f)) => \A x \in F : x < f
           /\ (\A x \in F : x < f) => \A x \in U : ~(x < f)
<1> DEFINE B(A) == {x \in A : x < f}
           i == {y \in ins : y < t}
<1>0. /\ f \in Nat /\ t \in Nat /\ out \in IndexSet /\ removed \in IndexSet /\ ins \in IndexSet
      /\ F \in IndexSet /\ U \in IndexSet /\ T \in IndexSet /\ Cardinality(F) = Cardinality(T)
      /\ \A x \in Nat : x < f => x \in out \/ x \in removed \/ x \in F \/ x \in U
      /\ out \cap removed = {} /\ F \cap (out \cup removed) = {} /\ U \cap (out \cup removed) = {}
      /\ F \cap U = {} /\ T \cap ins = {}
      /\ \A y \in Nat : y < t => y \in ins \/ y \in T
      /\ \A y \in T : y < t
      /\ Unshift(out, f) = Unshift(ins, t) + CountBelow(removed, f)
  BY DEF Awaited
<1>1. /\ IsFiniteSet(B(out)) /\ IsFiniteSet(B(removed)) /\ IsFiniteSet(B(F)) /\ IsFiniteSet(B(U))
      /\ IsFiniteSet(i) /\ IsFiniteSet(T)
  BY <1>0, PartBelow DEF IndexSet
<1>2. f = Cardinality(B(out)) + Cardinality(B(removed)) + Cardinality(B(F)) + Cardinality(B(U))
  <2>1. /\ IsFiniteSet(B(out) \cup B(removed))
        /\ Cardinality(B(out) \cup B(removed)) = Cardinality(B(out)) + Cardinality(B(removed))
    <3>1. B(out) \cap B(removed) = {}
      BY <1>0
    <3> HIDE DEF B
    <3> QED
      BY <1>1, <3>1, CountOfTwo
  <2>2. /\ IsFiniteSet(B(F) \cup B(U))
        /\ Cardinality(B(F) \cup B(U)) = Cardinality(B(F)) + Cardinality(B(U))
    <3>1. B(F) \cap B(U) = {}
      BY <1>0
    <3> HIDE DEF B
    <3> QED
      BY <1>1, <3>1, CountOfTwo
  <2>3. (B(out) \cup B(removed)) \cap (B(F) \cup B(U)) = {}
    BY <1>0
  <2>4. (B(out) \cup B(removed)) \cup (B(F) \cup B(U)) = {x \in Nat : x < f}
    BY <1>0 DEF IndexSet
  <2> HIDE DEF B
  <2>5. Cardinality((B(out) \cup B(removed)) \cup (B(F) \cup B(U)))
          = Cardinality(B(out) \cup B(removed)) + Cardinality(B(F) \cup B(U))
    BY <2>1, <2>2, <2>3, CountOfTwo
  <2>6. f = Cardinality(B(out) \cup B(removed)) + Cardinality(B(F) \cup B(U))
    BY <1>0, <2>4, <2>5, BelowIs
  <2>7. /\ Cardinality(B(out)) \in Nat /\ Cardinality(B(removed)) \in Nat
        /\ Cardinality(B(F)) \in Nat /\ Cardinality(B(U)) \in Nat
    BY <1>1, FS_CardinalityType
  <2> QED
    BY <2>1, <2>2, <2>6, <2>7
<1>3. t = Cardinality(i) + Cardinality(T)
  <2>1. i \cap T = {} /\ i \cup T = {x \in Nat : x < t}
    BY <1>0 DEF IndexSet
  <2> HIDE DEF i
  <2>2. Cardinality(i \cup T) = Cardinality(i) + Cardinality(T)
    BY <1>1, <2>1, CountOfTwo
  <2> QED
    BY <1>0, <2>1, <2>2, BelowIs
<1>4. /\ Unshift(out, f) = f - Cardinality(B(out)) /\ Unshift(ins, t) = t - Cardinality(i)
      /\ CountBelow(removed, f) = Cardinality(B(removed))
  BY DEF Unshift, CountBelow
<1>5. /\ Cardinality(B(out)) \in Nat /\ Cardinality(B(removed)) \in Nat /\ Cardinality(i) \in Nat
      /\ Cardinality(B(F)) \in Nat /\ Cardinality(B(U)) \in Nat /\ Cardinality(T) \in Nat
  BY <1>1, FS_CardinalityType
<1> HIDE DEF i
<1>6. Cardinality(B(F)) + Cardinality(B(U)) = Cardinality(F)
  <2> HIDE DEF B
  <2> QED
    <3>1. /\ f \in Nat /\ t \in Nat /\ Cardinality(F) = Cardinality(T)
          /\ Unshift(out, f) = Unshift(ins, t) + CountBelow(removed, f)
      BY <1>0
    <3> QED
      BY <1>2, <1>3, <1>4, <1>5, <3>1
<1>7. /\ Cardinality(B(U)) = 0 <=> B(U) = {}
      /\ Cardinality(B(F)) = Cardinality(F) => B(F) = F
  BY <1>0, <1>1, FS_EmptySet, PartBelow
<1>8. ASSUME \A x \in U : ~(x < f) PROVE \A x \in F : x < f
  <2>1. Cardinality(B(U)) = 0
    BY <1>7, <1>8, <1>0
  <2>2. B(F) = F
    <3> HIDE DEF B
    <3> QED
      BY <1>5, <1>6, <1>7, <2>1
  <2> QED
    BY <2>2
<1>9. ASSUME \A x \in F : x < f PROVE \A x \in U : ~(x < f)
  <2>1. B(F) = F
    BY <1>9
  <2>2. B(U) = {}
    <3> HIDE DEF B
    <3> QED
      BY <1>5, <1>6, <1>7, <2>1
  <2> QED
    BY <2>2
<1> QED
  BY <1>8, <1>9

\* The rows that are gone, and those that are there and no longer found.
OutOf(old) == {i \in Indices(old) : At(old, i) = Gone}
RemovedOf(old, new) == {i \in Indices(old) : At(old, i) \notin ToSet(new)} \ OutOf(old)

\* calculate_moves_unsorted, of one row.
UnsortedOne(s, r, old, new, candidates) ==
    LET from == Place(old, r)
        to == Place(new, r)
        place == Unshift(OutOf(old), from)
        awaited == Unshift(s.c.ins, to) + CountBelow(s.removed, from)
    IN  IF place = s.expected \/ r \notin candidates \/ place = awaited
        THEN [s EXCEPT !.expected = place + 1]
        ELSE [s EXCEPT !.c.moves = Append(@, [from |-> from, to |-> to]),
                       !.c.ins = @ \cup {to}, !.removed = @ \cup {from}]

\* It is a loop over the rows that are in both.
UnsortedRun(g, old, new, candidates, c) ==
    /\ g[0] = [expected |-> 0, removed |-> RemovedOf(old, new), c |-> c]
    /\ \A n \in 1 .. Len(Both(old, new)) :
           g[n] = UnsortedOne(g[n - 1], Both(old, new)[n], old, new, candidates)
    /\ MovesUnsorted(old, new, candidates, c)
         = [g[Len(Both(old, new))].c EXCEPT
              !.del = g[Len(Both(old, new))].removed \cup OutOf(old)]

\* What the loop keeps.
UnsortedState == [expected : Nat, removed : IndexSet, c : ChangeSet]

\* The step u from s, for the row r at from and to: it stays, or is moved.
StepOf(u, s, old, candidates, r, from, to) ==
    LET place == Unshift(OutOf(old), from)
    IN  /\ u \in UnsortedState /\ place \in Nat
        /\ IF \/ place = s.expected \/ r \notin candidates
              \/ place = Unshift(s.c.ins, to) + CountBelow(s.removed, from)
           THEN u.expected = place + 1 /\ u.removed = s.removed /\ u.c = s.c
           ELSE /\ u.expected = s.expected /\ u.removed = s.removed \cup {from}
                /\ u.c.ins = s.c.ins \cup {to}
                /\ u.c.moves = Append(s.c.moves, [from |-> from, to |-> to])
                /\ u.c.del = s.c.del /\ u.c.mod = s.c.mod

\* The step for a row that stays, and for one that is moved.
LEMMA UnsortedCases ==
    ASSUME NEW s \in UnsortedState, NEW r, NEW old, NEW new, NEW candidates,
           Place(old, r) \in Nat, Place(new, r) \in Nat, OutOf(old) \in IndexSet
    PROVE  StepOf(UnsortedOne(s, r, old, new, candidates), s, old, candidates, r,
                  Place(old, r), Place(new, r))
<1> DEFINE from == Place(old, r)
           to == Place(new, r)
           place == Unshift(OutOf(old), from)
           u == UnsortedOne(s, r, old, new, candidates)
           stays == \/ place = s.expected \/ r \notin candidates
                    \/ place = Unshift(s.c.ins, to) + CountBelow(s.removed, from)
           c == s.c
           mv == Append(c.moves, [from |-> from, to |-> to])
           more == c.ins \cup {to}
           d == [c EXCEPT !.moves = mv, !.ins = more]
<1>1. /\ s.expected \in Nat /\ s.removed \in IndexSet /\ c \in ChangeSet
      /\ s = [expected |-> s.expected, removed |-> s.removed, c |-> c]
  BY DEF UnsortedState
<1>2. from \in Nat /\ to \in Nat /\ place \in Nat
  BY UnshiftFacts
<1>3. /\ c.ins \in IndexSet /\ c.moves \in Seq(Move)
      /\ c = [del |-> c.del, ins |-> c.ins, mod |-> c.mod, moves |-> c.moves, mapping |-> c.mapping]
  BY <1>1, ChangeSetParts
<1>4. u = IF stays THEN [s EXCEPT !.expected = place + 1]
          ELSE [s EXCEPT !.c.moves = Append(@, [from |-> from, to |-> to]),
                         !.c.ins = @ \cup {to}, !.removed = @ \cup {from}]
  BY DEF UnsortedOne
<1> HIDE DEF from, to, place, u, stays, c
<1>5. CASE stays
  <2>1. u = [expected |-> place + 1, removed |-> s.removed, c |-> c]
    BY <1>1, <1>4, <1>5
  <2>2. u \in UnsortedState
    BY <1>1, <1>2, <2>1 DEF UnsortedState
  <2> QED
    BY <1>2, <1>5, <2>1, <2>2 DEF stays, u, place, from, to, c, StepOf
<1>6. CASE ~stays
  <2>1. u = [expected |-> s.expected, removed |-> s.removed \cup {from}, c |-> d]
    <3>1. u = [s EXCEPT !.c.moves = Append(@, [from |-> from, to |-> to]),
                        !.c.ins = @ \cup {to}, !.removed = @ \cup {from}]
      BY <1>4, <1>6
    <3>2. s.c = c
      BY DEF c
    <3> QED
      BY <1>1, <1>3, <3>1, <3>2
  <2>2. d = [del |-> c.del, ins |-> more, mod |-> c.mod, moves |-> mv, mapping |-> c.mapping]
    <3> HIDE DEF mv, more
    <3>1. PICK e1, e2, e3, e4, e5 :
             c = [del |-> e1, ins |-> e2, mod |-> e3, moves |-> e4, mapping |-> e5]
      BY <1>3
    <3>2. c.del = e1 /\ c.mod = e3 /\ c.mapping = e5
      BY <3>1
    <3>3. [c EXCEPT !.moves = mv]
            = [del |-> e1, ins |-> e2, mod |-> e3, moves |-> mv, mapping |-> e5]
      BY ONLY <3>1
    <3> DEFINE d1 == [c EXCEPT !.moves = mv]
    <3>5. d = [d1 EXCEPT !.ins = more]
      OBVIOUS
    <3>6. d1 = [del |-> e1, ins |-> e2, mod |-> e3, moves |-> mv, mapping |-> e5]
      BY <3>3
    <3> HIDE DEF d1, d
    <3>7. d = [del |-> e1, ins |-> more, mod |-> e3, moves |-> mv, mapping |-> e5]
      BY ONLY <3>5, <3>6
    <3> QED
      BY ONLY <3>2, <3>7
  <2>3. c.ins \cup {to} \in IndexSet /\ s.removed \cup {from} \in IndexSet
    BY <1>1, <1>2, <1>3, OneIndexMore
  <2>4. Append(c.moves, [from |-> from, to |-> to]) \in Seq(Move)
    <3>1. [from |-> from, to |-> to] \in Move
      BY <1>2 DEF Move
    <3> QED
      BY <1>3, <3>1
  <2> HIDE DEF d
  <2>5. d \in ChangeSet
    BY <1>1, <2>2, <2>3, <2>4, ChangeSetParts DEF ChangeSet
  <2>6. u \in UnsortedState
    BY <1>1, <2>1, <2>3, <2>5 DEF UnsortedState
  <2>7. /\ u.expected = s.expected /\ u.removed = s.removed \cup {from} /\ u.c.ins = c.ins \cup {to}
        /\ u.c.moves = Append(c.moves, [from |-> from, to |-> to])
        /\ u.c.del = c.del /\ u.c.mod = c.mod
    BY <2>1, <2>2
  <2> QED
    BY <1>2, <1>6, <2>6, <2>7 DEF stays, u, place, from, to, c, StepOf
<1> QED
  BY <1>5, <1>6

\* calculate_moves_unsorted is a loop over the rows that are in both.
LEMMA UnsortedSteps ==
    ASSUME NEW old, NEW new, NEW candidates, NEW c \in ChangeSet,
           OutOf(old) \in IndexSet, RemovedOf(old, new) \in IndexSet,
           Both(old, new) \in Seq(Nat),
           \A n \in 1 .. Len(Both(old, new)) : /\ Place(old, Both(old, new)[n]) \in Nat
                                               /\ Place(new, Both(old, new)[n]) \in Nat
    PROVE  \E g : /\ UnsortedRun(g, old, new, candidates, c)
                  /\ \A n \in 0 .. Len(Both(old, new)) : g[n] \in UnsortedState
<1> DEFINE rows == Both(old, new)
           N == Len(rows)
           s0 == [expected |-> 0, removed |-> RemovedOf(old, new), c |-> c]
           G == [p \in UnsortedState \X (1 .. N) |-> UnsortedOne(p[1], rows[p[2]], old, new, candidates)]
           Runs(g) == g = [n \in 0 .. N |-> IF n = 0 THEN s0
                             ELSE UnsortedOne(g[n - 1], rows[n], old, new, candidates)]
           R == CHOOSE g : Runs(g)
<1>1. N \in Nat
  OBVIOUS
<1>2. s0 \in UnsortedState
  BY DEF UnsortedState
<1>3. MovesUnsorted(old, new, candidates, c) = [R[N].c EXCEPT !.del = R[N].removed \cup OutOf(old)]
  BY DEF MovesUnsorted, UnsortedOne, OutOf, RemovedOf
<1>4. \A n \in 1 .. N : Place(old, rows[n]) \in Nat /\ Place(new, rows[n]) \in Nat
  OBVIOUS
<1> HIDE DEF rows
<1>5. ASSUME NEW s \in UnsortedState, NEW n \in 1 .. N
      PROVE  UnsortedOne(s, rows[n], old, new, candidates) \in UnsortedState
  BY <1>4, UnsortedCases DEF StepOf
<1>6. G \in [UnsortedState \X (1 .. N) -> UnsortedState]
  BY <1>5
<1> HIDE DEF s0
<1>a. PICK f : RunOf(f, N, UnsortedState, s0, G)
  <2> HIDE DEF N, G
  <2> QED
    BY <1>1, <1>2, <1>6, Recursion
<1>7. /\ f \in [0 .. N -> UnsortedState] /\ f[0] = s0
      /\ \A n \in 1 .. N : f[n] = G[<<f[n - 1], n>>]
  BY <1>a DEF RunOf
<1>8. \A n \in 1 .. N : f[n] = UnsortedOne(f[n - 1], rows[n], old, new, candidates)
  <2> SUFFICES ASSUME NEW n \in 1 .. N
               PROVE  f[n] = UnsortedOne(f[n - 1], rows[n], old, new, candidates)
    OBVIOUS
  <2>1. n - 1 \in 0 .. N
    BY <1>1
  <2>2. <<f[n - 1], n>> \in UnsortedState \X (1 .. N)
    BY <1>7, <2>1
  <2> QED
    BY <1>7, <2>2
<1> HIDE DEF G
<1>9. Runs(f)
  <2>1. f = [n \in 0 .. N |-> f[n]]
    BY <1>7
  <2>2. ASSUME NEW n \in 0 .. N
        PROVE  f[n] = IF n = 0 THEN s0 ELSE UnsortedOne(f[n - 1], rows[n], old, new, candidates)
    <3>1. n = 0 \/ (n \in 1 .. N /\ n # 0)
      BY <1>1
    <3> QED
      BY <1>7, <1>8, <3>1
  <2> HIDE DEF N
  <2> QED
    BY <2>1, <2>2
<1>10. Runs(R)
  <2> HIDE DEF Runs
  <2> QED
    BY <1>9
<1>11. /\ R[0] = s0
       /\ \A n \in 1 .. N : R[n] = UnsortedOne(R[n - 1], rows[n], old, new, candidates)
  <2> HIDE DEF R
  <2>1. R[0] = s0
    BY <1>1, <1>10
  <2>2. ASSUME NEW n \in 1 .. N
        PROVE  R[n] = UnsortedOne(R[n - 1], rows[n], old, new, candidates)
    <3>1. n \in 0 .. N /\ n # 0
      BY <1>1
    <3> HIDE DEF N
    <3> QED
      BY <1>10, <3>1
  <2> QED
    BY <2>1, <2>2
<1> HIDE DEF R
<1>12. UnsortedRun(R, old, new, candidates, c)
  BY <1>3, <1>11 DEF UnsortedRun, s0, rows
<1> DEFINE P == {n \in 0 .. N : R[n] \in UnsortedState}
<1>13. \A n \in 0 .. N : R[n] \in UnsortedState
  <2> SUFFICES ASSUME NEW n \in 0 .. N PROVE n \in P
    OBVIOUS
  <2>1. 0 \in P
    BY <1>1, <1>2, <1>11
  <2>2. \A m \in 1 .. n : m - 1 \in P => m \in P
    <3> SUFFICES ASSUME NEW m \in 1 .. n, m - 1 \in P PROVE m \in P
      OBVIOUS
    <3>1. m \in 1 .. N /\ m \in 0 .. N
      BY <1>1
    <3> QED
      BY <1>5, <1>11, <3>1
  <2> HIDE DEF P
  <2> QED
    BY <2>1, <2>2, UpTo
<1> QED
  BY <1>12, <1>13 DEF rows

\* The row u could have moved, and one behind it could not.
Offends(u, rows, from, candidates) ==
    /\ rows[u] \in candidates
    /\ \E q \in 1 .. Len(rows) : rows[q] \notin candidates /\ from[u] < from[q]

\* Rows that cannot have moved are in the order of the table, before and after; of
\* the others at most one was before one of them.
AsExpected(rows, from, candidates) ==
    /\ \A m, n \in 1 .. Len(rows) :
           m < n /\ rows[m] \notin candidates /\ rows[n] \notin candidates => from[m] < from[n]
    /\ \A u, v \in 1 .. Len(rows) :
           Offends(u, rows, from, candidates) /\ Offends(v, rows, from, candidates) => u = v

\* What is inserted at first: what was not there.
NewOf(old, new) == {i \in Indices(new) : At(new, i) \notin ToSet(old)}

\* The indices of some of the rows.
Places(f, K) == {f[m] : m \in K}

\* After n rows, of which those in M were moved: the others stay in their order,
\* expected is the place behind the last of them, and whatever is still to come is at or
\* behind it, or offends.
UnsortedInv(s, n, M, old, new, candidates, rows, from, to) ==
    /\ M \subseteq 1 .. n
    /\ s.removed = RemovedOf(old, new) \cup Places(from, M)
    /\ s.c.ins = NewOf(old, new) \cup Places(to, M)
    /\ \A k, l \in (1 .. n) \ M : k < l => from[k] < from[l]
    /\ \A k \in (1 .. n) \ M : Unshift(OutOf(old), from[k]) < s.expected
    /\ s.expected # 0 => \E k \in (1 .. n) \ M : s.expected = Unshift(OutOf(old), from[k]) + 1
    /\ \A u \in n + 1 .. Len(rows) : \/ Unshift(OutOf(old), from[u]) >= s.expected
                                     \/ Offends(u, rows, from, candidates)

\* Where the rows are.
LEMMA CommonFacts ==
    ASSUME NEW old, NEW new, RowLists(old, new), NEW rows, NEW from, NEW to,
           Common(old, new, rows, from, to)
    PROVE  /\ Len(rows) \in Nat /\ Len(old) \in Nat /\ Len(new) \in Nat
           /\ OutOf(old) \in IndexSet /\ RemovedOf(old, new) \in IndexSet
           /\ NewOf(old, new) \in IndexSet
           /\ \A n \in 1 .. Len(rows) :
                 /\ from[n] \in Nat /\ from[n] \in Indices(old)
                 /\ to[n] \in Nat /\ to[n] \in Indices(new)
                 /\ from[n] \notin OutOf(old) /\ from[n] \notin RemovedOf(old, new)
                 /\ to[n] \notin NewOf(old, new)
           /\ \A x \in Nat : x < Len(old) => \/ x \in OutOf(old) \/ x \in RemovedOf(old, new)
                                             \/ \E n \in 1 .. Len(rows) : from[n] = x
           /\ \A y \in Nat : y < Len(new) => \/ y \in NewOf(old, new)
                                             \/ \E n \in 1 .. Len(rows) : to[n] = y
           /\ OutOf(old) \cap RemovedOf(old, new) = {}
<1>1. /\ old \in Seq(Nat \cup {Gone}) /\ new \in Seq(Nat) /\ Len(old) \in Nat /\ Len(new) \in Nat
  BY DEF RowLists
<1>2. /\ \A x : x \in Indices(old) <=> x \in Nat /\ x < Len(old)
      /\ \A x : x \in Indices(new) <=> x \in Nat /\ x < Len(new)
  BY <1>1 DEF Indices
<1>3. Indices(old) \in IndexSet /\ Indices(new) \in IndexSet
  BY <1>1, UpToIsIndexSet DEF Indices
<1>4. /\ OutOf(old) \in IndexSet /\ RemovedOf(old, new) \in IndexSet
      /\ NewOf(old, new) \in IndexSet
  <2>1. OutOf(old) \in SUBSET Indices(old) /\ RemovedOf(old, new) \in SUBSET Indices(old)
        /\ NewOf(old, new) \in SUBSET Indices(new)
    BY DEF OutOf, RemovedOf, NewOf
  <2> QED
    BY <1>3, <2>1, FS_Subset DEF IndexSet
<1>5. /\ rows \in Seq(Nat) /\ from \in [1 .. Len(rows) -> Indices(old)] /\ Len(rows) \in Nat
      /\ to \in [1 .. Len(rows) -> Indices(new)]
      /\ \A n \in 1 .. Len(rows) : At(old, from[n]) = rows[n] /\ At(new, to[n]) = rows[n]
      /\ \A x \in Indices(old) : At(old, x) \in ToSet(new) => \E n \in 1 .. Len(rows) : from[n] = x
      /\ \A y \in Indices(new) : At(new, y) \in ToSet(old) => \E n \in 1 .. Len(rows) : to[n] = y
  BY DEF Common
<1>6. ASSUME NEW n \in 1 .. Len(rows)
      PROVE  /\ from[n] \in Nat /\ from[n] \in Indices(old)
             /\ to[n] \in Nat /\ to[n] \in Indices(new)
             /\ from[n] \notin OutOf(old) /\ from[n] \notin RemovedOf(old, new)
             /\ to[n] \notin NewOf(old, new)
  <2>1. from[n] \in Indices(old) /\ to[n] \in Indices(new)
    BY <1>5
  <2>2. rows[n] \in Nat /\ rows[n] # Gone
    BY <1>5 DEF Gone
  <2>3. rows[n] \in ToSet(new) /\ rows[n] \in ToSet(old)
    BY <1>1, <1>5, <2>1, InSequence
  <2> QED
    BY <1>2, <1>5, <2>1, <2>2, <2>3 DEF OutOf, RemovedOf, NewOf
<1>7. ASSUME NEW x \in Nat, x < Len(old)
      PROVE  \/ x \in OutOf(old) \/ x \in RemovedOf(old, new)
             \/ \E n \in 1 .. Len(rows) : from[n] = x
  BY <1>2, <1>5, <1>7 DEF RemovedOf
<1>8. ASSUME NEW y \in Nat, y < Len(new)
      PROVE  y \in NewOf(old, new) \/ \E n \in 1 .. Len(rows) : to[n] = y
  BY <1>2, <1>5, <1>8 DEF NewOf
<1>9. OutOf(old) \cap RemovedOf(old, new) = {}
  BY DEF RemovedOf
<1> QED
  BY <1>1, <1>4, <1>5, <1>6, <1>7, <1>8, <1>9

\* They are as many as the rows.
LEMMA PlacesOf ==
    ASSUME NEW N \in Nat, NEW K, K \subseteq 1 .. N, NEW f, \A m \in 1 .. N : f[m] \in Nat,
           \A m, n \in 1 .. N : m # n => f[m] # f[n]
    PROVE  Places(f, K) \in IndexSet /\ Cardinality(Places(f, K)) = Cardinality(K)
<1>1. IsFiniteSet(K)
  <2>1. IsFiniteSet(1 .. N) /\ K \in SUBSET (1 .. N)
    BY FS_Interval
  <2> QED
    BY <2>1, FS_Subset
<1>2. \A m, n \in K : m # n => f[m] # f[n]
  OBVIOUS
<1>3. IsFiniteSet({f[m] : m \in K}) /\ Cardinality({f[m] : m \in K}) = Cardinality(K)
  BY <1>1, <1>2, ImageCount
<1> QED
  BY <1>3 DEF IndexSet, Places

\* A row that is where it is awaited: there are rows to come before it just if there are
\* some behind it that stay.
LEMMA AwaitedRow ==
    ASSUME NEW old, NEW new, RowLists(old, new), NEW rows, NEW from, NEW to,
           Common(old, new, rows, from, to), NEW candidates, NEW n \in 1 .. Len(rows), NEW s, NEW M,
           UnsortedInv(s, n - 1, M, old, new, candidates, rows, from, to),
           Unshift(OutOf(old), from[n]) = Unshift(s.c.ins, to[n]) + CountBelow(s.removed, from[n])
    PROVE  /\ (\A u \in n + 1 .. Len(rows) : ~(from[u] < from[n]))
                  => \A k \in (1 .. n - 1) \ M : from[k] < from[n]
           /\ (\A k \in (1 .. n - 1) \ M : from[k] < from[n])
                  => \A u \in n + 1 .. Len(rows) : ~(from[u] < from[n])
<1> DEFINE N == Len(rows)
           K == (1 .. n - 1) \ M
           L == n + 1 .. N
           F == Places(from, K)
           T == Places(to, K)
           U == Places(from, L)
           out == OutOf(old)
           gone0 == RemovedOf(old, new)
           new0 == NewOf(old, new)
<1>1. /\ N \in Nat /\ Len(old) \in Nat /\ Len(new) \in Nat
      /\ out \in IndexSet /\ gone0 \in IndexSet /\ new0 \in IndexSet
      /\ \A m \in 1 .. N : /\ from[m] \in Nat /\ from[m] \in Indices(old)
                           /\ to[m] \in Nat /\ to[m] \in Indices(new)
                           /\ from[m] \notin out /\ from[m] \notin gone0 /\ to[m] \notin new0
      /\ \A x \in Nat : x < Len(old) => x \in out \/ x \in gone0 \/ \E m \in 1 .. N : from[m] = x
      /\ \A y \in Nat : y < Len(new) => y \in new0 \/ \E m \in 1 .. N : to[m] = y
      /\ out \cap gone0 = {}
  BY CommonFacts
<1>2. /\ \A k, m \in 1 .. N : k # m => from[k] # from[m] /\ to[k] # to[m]
      /\ \A k, m \in 1 .. N : k < m => to[k] < to[m]
  BY DEF Common
<1>3. /\ M \subseteq 1 .. n - 1 /\ s.removed = gone0 \cup Places(from, M)
      /\ s.c.ins = new0 \cup Places(to, M)
  BY DEF UnsortedInv
<1> HIDE DEF out, gone0, new0
<1>4. /\ n \in 1 .. N /\ n \in Nat /\ M \subseteq 1 .. N /\ K \subseteq 1 .. N /\ L \subseteq 1 .. N
      /\ \A k \in K : k \notin M /\ k \notin L /\ k < n
      /\ \A m \in M : m < n
      /\ \A u \in L : n < u /\ u \notin M
      /\ \A m \in 1 .. N : m \in M \/ m \in K \/ m = n \/ m \in L
  BY <1>1, <1>3
<1> HIDE DEF K, L, N
<1>5. /\ Places(from, M) \in IndexSet /\ Places(to, M) \in IndexSet
      /\ F \in IndexSet /\ T \in IndexSet /\ U \in IndexSet
      /\ Cardinality(F) = Cardinality(T)
  <2>1. /\ \A m \in 1 .. N : from[m] \in Nat /\ to[m] \in Nat
        /\ \A k, m \in 1 .. N : k # m => from[k] # from[m]
        /\ \A k, m \in 1 .. N : k # m => to[k] # to[m]
    BY <1>1, <1>2
  <2>2. Places(from, M) \in IndexSet /\ Places(to, M) \in IndexSet
    BY <1>1, <1>4, <2>1, PlacesOf
  <2>3. U \in IndexSet
    BY <1>1, <1>4, <2>1, PlacesOf
  <2>4. F \in IndexSet /\ Cardinality(F) = Cardinality(K)
    <3>1. Places(from, K) \in IndexSet
      BY <1>1, <1>4, <2>1, PlacesOf
    <3>2. Cardinality(Places(from, K)) = Cardinality(K)
      <4>1. N \in Nat /\ K \subseteq 1 .. N /\ \A m \in 1 .. N : from[m] \in Nat
        BY <1>1, <1>4
      <4>2. \A k, m \in 1 .. N : k # m => from[k] # from[m]
        BY <1>2
      <4> HIDE DEF F, T, U
      <4> QED
        BY ONLY <4>1, <4>2, PlacesOf
    <3> QED
      BY <3>1, <3>2
  <2>5. T \in IndexSet /\ Cardinality(T) = Cardinality(K)
    <3>1. Places(to, K) \in IndexSet
      BY <1>1, <1>4, <2>1, PlacesOf
    <3>2. Cardinality(Places(to, K)) = Cardinality(K)
      <4>1. N \in Nat /\ K \subseteq 1 .. N /\ \A m \in 1 .. N : to[m] \in Nat
        BY <1>1, <1>4
      <4>2. \A k, m \in 1 .. N : k # m => to[k] # to[m]
        BY <1>2
      <4> HIDE DEF F, T, U
      <4> QED
        BY ONLY <4>1, <4>2, PlacesOf
    <3> QED
      BY <3>1, <3>2
  <2> QED
    BY <2>2, <2>3, <2>4, <2>5
<1>6. s.removed \in IndexSet /\ s.c.ins \in IndexSet
  <2> DEFINE A == Places(from, M)
             B == Places(to, M)
  <2> HIDE DEF A, B
  <2>1. gone0 \cup A \in IndexSet
    BY <1>1, <1>5, FS_Union DEF IndexSet, A
  <2>2. new0 \cup B \in IndexSet
    BY <1>1, <1>5, FS_Union DEF IndexSet, B
  <2> QED
    BY <1>3, <2>1, <2>2 DEF A, B
<1>7. ASSUME NEW x \in Nat, x < from[n]
      PROVE  x \in out \/ x \in s.removed \/ x \in F \/ x \in U
  <2>1. x < Len(old)
    <3>1. from[n] < Len(old) /\ from[n] \in Nat
      BY <1>1, <1>4 DEF Indices
    <3> QED
      BY <1>1, <1>7, <3>1
  <2>2. CASE \E m \in 1 .. N : from[m] = x
    <3>1. PICK m \in 1 .. N : from[m] = x
      BY <2>2
    <3>2. m # n
      BY <1>1, <1>4, <1>7, <3>1
    <3> QED
      BY <1>3, <1>4, <3>1, <3>2 DEF Places
  <2> QED
    BY <1>1, <1>3, <2>1, <2>2
<1>8. ASSUME NEW y \in Nat, y < to[n] PROVE y \in s.c.ins \/ y \in T
  <2>1. y < Len(new)
    <3>1. to[n] < Len(new) /\ to[n] \in Nat
      BY <1>1, <1>4 DEF Indices
    <3> QED
      BY <1>1, <1>8, <3>1
  <2>2. CASE \E m \in 1 .. N : to[m] = y
    <3>1. PICK m \in 1 .. N : to[m] = y
      BY <2>2
    <3>2. ~(n < m) /\ m # n
      BY <1>1, <1>2, <1>4, <1>8, <3>1
    <3>3. m \notin L
      BY <1>4, <3>2
    <3> QED
      BY <1>3, <1>4, <3>1, <3>2, <3>3 DEF Places
  <2> QED
    BY <1>1, <1>3, <2>1, <2>2
<1>9. /\ out \cap s.removed = {} /\ F \cap (out \cup s.removed) = {}
      /\ U \cap (out \cup s.removed) = {} /\ F \cap U = {} /\ T \cap s.c.ins = {}
  <2>1. /\ \A k \in K, m \in M : from[k] # from[m] /\ to[k] # to[m]
        /\ \A k \in K, u \in L : from[k] # from[u]
        /\ \A u \in L, m \in M : from[u] # from[m]
    BY <1>2, <1>4
  <2>2. \A k \in K : from[k] \notin out /\ from[k] \notin gone0 /\ to[k] \notin new0
    BY <1>1, <1>4
  <2>3. \A u \in L : from[u] \notin out /\ from[u] \notin gone0
    BY <1>1, <1>4
  <2>4. \A m \in M : from[m] \notin out
    BY <1>1, <1>4
  <2>5. out \cap s.removed = {}
    BY <1>1, <1>3, <2>4 DEF Places
  <2> HIDE DEF F, T, U
  <2>f. \A x \in F : \E k \in K : x = from[k]
    BY DEF F, Places
  <2>t. \A x \in T : \E k \in K : x = to[k]
    BY DEF T, Places
  <2>u. \A x \in U : \E u \in L : x = from[u]
    BY DEF U, Places
  <2>r. /\ \A x \in s.removed : x \in gone0 \/ \E m \in M : x = from[m]
        /\ \A x \in s.c.ins : x \in new0 \/ \E m \in M : x = to[m]
    BY <1>3 DEF Places
  <2>6. F \cap (out \cup s.removed) = {}
    BY <2>1, <2>2, <2>f, <2>r
  <2>7. U \cap (out \cup s.removed) = {}
    BY <2>1, <2>3, <2>u, <2>r
  <2>8. F \cap U = {}
    BY <2>1, <2>f, <2>u
  <2>9. T \cap s.c.ins = {}
    BY <2>1, <2>2, <2>t, <2>r
  <2> QED
    BY <2>5, <2>6, <2>7, <2>8, <2>9
<1>10. \A y \in T : y < to[n]
  BY <1>2, <1>4 DEF Places
<1>11. Unshift(out, from[n]) = Unshift(s.c.ins, to[n]) + CountBelow(s.removed, from[n])
  BY DEF out
<1>12. from[n] \in Nat /\ to[n] \in Nat
  BY <1>1, <1>4
<1>13. /\ (\A x \in U : ~(x < from[n])) => \A x \in F : x < from[n]
       /\ (\A x \in F : x < from[n]) => \A x \in U : ~(x < from[n])
  <2> DEFINE f == from[n]
             t == to[n]
             ins == s.c.ins
             removed == s.removed
  <2>1. Awaited(f, t, out, removed, ins, F, U, T)
    <3> HIDE DEF F, T, U
    <3> QED
      BY <1>1, <1>5, <1>6, <1>7, <1>8, <1>9, <1>10, <1>11, <1>12 DEF Awaited
  <2> HIDE DEF F, T, U, f, t, ins, removed
  <2>2. /\ (\A x \in U : ~(x < f)) => \A x \in F : x < f
        /\ (\A x \in F : x < f) => \A x \in U : ~(x < f)
    BY <2>1, AwaitedCounts
  <2> QED
    BY <2>2 DEF f
<1>14. /\ (\A u \in L : ~(from[u] < from[n])) => \A k \in K : from[k] < from[n]
       /\ (\A k \in K : from[k] < from[n]) => \A u \in L : ~(from[u] < from[n])
  BY <1>13 DEF Places
<1> QED
  BY <1>14 DEF K, L, N

\* The row that calculate_moves_unsorted looks at stays behind the others that stayed.
LEMMA StaysBehind ==
    ASSUME NEW old, NEW new, RowLists(old, new), NEW rows, NEW from, NEW to,
           Common(old, new, rows, from, to), NEW candidates, AsExpected(rows, from, candidates),
           NEW n \in 1 .. Len(rows), NEW s, s.expected \in Nat, NEW M,
           UnsortedInv(s, n - 1, M, old, new, candidates, rows, from, to),
           NEW place, place = Unshift(OutOf(old), from[n]),
           \/ place = s.expected \/ rows[n] \notin candidates
           \/ place = Unshift(s.c.ins, to[n]) + CountBelow(s.removed, from[n])
    PROVE  /\ place >= s.expected /\ place \in Nat
           /\ \A u \in n + 1 .. Len(rows) : \/ Unshift(OutOf(old), from[u]) >= place + 1
                                            \/ Offends(u, rows, from, candidates)
<1> DEFINE N == Len(rows)
           K == (1 .. n - 1) \ M
           L == n + 1 .. N
           p(m) == Unshift(OutOf(old), from[m])
           Off(u) == Offends(u, rows, from, candidates)
<1>1. /\ N \in Nat /\ OutOf(old) \in IndexSet
      /\ \A m \in 1 .. N : from[m] \in Nat /\ from[m] \notin OutOf(old)
  BY CommonFacts
<1>2. \A k, m \in 1 .. N : k # m => from[k] # from[m]
  BY DEF Common
<1>3. \A m \in 1 .. N : p(m) \in Nat
  BY <1>1, UnshiftFacts
<1>4. \A k, m \in 1 .. N : from[k] < from[m] => p(k) < p(m)
  BY <1>1, UnshiftFacts
<1>5. /\ \A k \in K : p(k) < s.expected
      /\ s.expected # 0 => \E k \in K : s.expected = p(k) + 1
      /\ \A u \in n .. N : p(u) >= s.expected \/ Off(u)
  <2>1. (n - 1) + 1 = n
    OBVIOUS
  <2> QED
    BY <2>1 DEF UnsortedInv
<1>6. /\ \A k, m \in 1 .. N : k < m /\ rows[k] \notin candidates /\ rows[m] \notin candidates
            => from[k] < from[m]
      /\ \A u, v \in 1 .. N : Off(u) /\ Off(v) => u = v
  BY DEF AsExpected
<1>7. /\ \A u \in 1 .. N : Off(u) => rows[u] \in candidates
      /\ \A u, q \in 1 .. N : rows[u] \in candidates /\ rows[q] \notin candidates /\ from[u] < from[q]
            => Off(u)
  BY DEF Offends
<1>8. place = Unshift(s.c.ins, to[n]) + CountBelow(s.removed, from[n])
      => /\ (\A u \in L : ~(from[u] < from[n])) => \A k \in K : from[k] < from[n]
         /\ (\A k \in K : from[k] < from[n]) => \A u \in L : ~(from[u] < from[n])
  <2>1. place = Unshift(OutOf(old), from[n])
    OBVIOUS
  <2> QED
    BY <2>1, AwaitedRow
<1>9. /\ n \in 1 .. N /\ n \in n .. N /\ place = p(n) /\ n \in Nat
      /\ \A k \in K : k \in 1 .. N /\ k # n
      /\ \A u \in L : u \in 1 .. N /\ u \in n .. N /\ n < u /\ u # n
  BY <1>1
<1> HIDE DEF K, L, p, Off, N
<1>10. place \in Nat
  BY <1>3, <1>9
<1>11. place >= s.expected
  <2> SUFFICES ASSUME ~(place >= s.expected) PROVE FALSE
    OBVIOUS
  <2>1. Off(n)
    BY <1>5, <1>9
  <2>2. rows[n] \in candidates
    BY <1>7, <1>9, <2>1
  <2>3. place # s.expected
    BY <1>10
  <2>4. place = Unshift(s.c.ins, to[n]) + CountBelow(s.removed, from[n])
    BY <2>2, <2>3
  <2>5. PICK k \in K : s.expected = p(k) + 1
    BY <1>5, <1>10
  <2>6. p(k) \in Nat /\ p(k) >= place /\ from[k] # from[n] /\ k \in 1 .. N
    BY <1>2, <1>3, <1>9, <1>10, <2>5
  <2>7. ~(from[k] < from[n])
    BY <1>4, <1>9, <1>10, <2>6
  <2>8. PICK u \in L : from[u] < from[n]
    BY <1>8, <2>4, <2>7
  <2>9. p(u) < place /\ p(u) \in Nat
    BY <1>3, <1>4, <1>9, <2>8
  <2>10. Off(u)
    BY <1>5, <1>9, <1>10, <2>9
  <2> QED
    BY <1>6, <1>9, <2>1, <2>10
<1>12. ASSUME NEW u \in L PROVE p(u) >= place + 1 \/ Off(u)
  <2> SUFFICES ASSUME ~(p(u) >= place + 1) PROVE Off(u)
    OBVIOUS
  <2>1. p(u) \in Nat /\ p(u) <= place /\ from[u] # from[n] /\ from[u] \in Nat /\ from[n] \in Nat
    BY SMTT(30), <1>1, <1>2, <1>3, <1>9, <1>10
  <2>2. from[u] < from[n]
    <3>1. ~(from[n] < from[u])
      BY <1>4, <1>9, <1>10, <2>1
    <3> QED
      BY <2>1, <3>1
  <2>3. p(u) < place
    BY <1>4, <1>9, <2>2
  <2>4. CASE rows[n] \notin candidates
    <3>1. rows[u] \in candidates
      <4>1. ~(from[n] < from[u])
        BY <2>1, <2>2
      <4> QED
        BY <1>6, <1>9, <2>4, <4>1
    <3> QED
      BY <1>7, <1>9, <2>2, <2>4, <3>1
  <2>5. CASE place = s.expected
    BY <1>5, <1>9, <1>10, <2>1, <2>3, <2>5
  <2>6. CASE place = Unshift(s.c.ins, to[n]) + CountBelow(s.removed, from[n])
    <3>1. PICK k \in K : ~(from[k] < from[n])
      BY <1>8, <2>2, <2>6
    <3>2. from[k] \in Nat /\ from[k] # from[n] /\ k \in 1 .. N /\ p(k) < s.expected /\ p(k) \in Nat
      BY <1>1, <1>2, <1>3, <1>5, <1>9
    <3>3. from[n] < from[k]
      BY <2>1, <3>1, <3>2
    <3>4. place < p(k)
      BY <1>4, <1>9, <3>2, <3>3
    <3> QED
      BY <1>10, <1>11, <3>2, <3>4
  <2> QED
    BY <2>4, <2>5, <2>6
<1> QED
  BY <1>10, <1>11, <1>12 DEF L, p, Off, N

\* The moves are of the rows in M, each of another one.
MovedRows(moves, M, from, to) ==
    /\ \A k \in 1 .. Len(moves) : \E m \in M : moves[k].from = from[m] /\ moves[k].to = to[m]
    /\ \A k, l \in 1 .. Len(moves) : l # k => moves[l].from # moves[k].from /\ moves[l].to # moves[k].to

\* What the loop of calculate_moves_unsorted has done after n rows.
UnsortedSoFar(s, n, old, new, candidates, rows, from, to, c) ==
    /\ s \in UnsortedState /\ s.c.mod = c.mod
    /\ \E M : /\ UnsortedInv(s, n, M, old, new, candidates, rows, from, to)
              /\ MovedRows(s.c.moves, M, from, to)

\* It looks at one more row.
LEMMA UnsortedKeeps ==
    ASSUME NEW old, NEW new, RowLists(old, new), NEW rows, NEW from, NEW to,
           Common(old, new, rows, from, to), NEW candidates, AsExpected(rows, from, candidates),
           NEW n \in 1 .. Len(rows), NEW s, NEW c,
           UnsortedSoFar(s, n - 1, old, new, candidates, rows, from, to, c)
    PROVE  UnsortedSoFar(UnsortedOne(s, rows[n], old, new, candidates), n,
                         old, new, candidates, rows, from, to, c)
<1> DEFINE N == Len(rows)
           f == from[n]
           t == to[n]
           place == Unshift(OutOf(old), f)
           p(m) == Unshift(OutOf(old), from[m])
           u == UnsortedOne(s, rows[n], old, new, candidates)
           stays == \/ place = s.expected \/ rows[n] \notin candidates
                    \/ place = Unshift(s.c.ins, t) + CountBelow(s.removed, f)
<1>1. /\ N \in Nat /\ OutOf(old) \in IndexSet
      /\ \A m \in 1 .. N : /\ from[m] \in Nat /\ from[m] \notin OutOf(old) /\ to[m] \in Nat
  BY CommonFacts
<1>2. /\ \A k, m \in 1 .. N : k # m => from[k] # from[m] /\ to[k] # to[m]
      /\ Place(old, rows[n]) = f /\ Place(new, rows[n]) = t
  BY DEF Common
<1>3. s \in UnsortedState /\ s.c.mod = c.mod /\ s.expected \in Nat /\ s.c \in ChangeSet
  BY DEF UnsortedSoFar, UnsortedState
<1>4. PICK M : /\ UnsortedInv(s, n - 1, M, old, new, candidates, rows, from, to)
               /\ MovedRows(s.c.moves, M, from, to)
  BY DEF UnsortedSoFar
<1>5. /\ M \subseteq 1 .. n - 1
      /\ s.removed = RemovedOf(old, new) \cup Places(from, M)
      /\ s.c.ins = NewOf(old, new) \cup Places(to, M)
      /\ \A k, l \in (1 .. n - 1) \ M : k < l => from[k] < from[l]
      /\ \A k \in (1 .. n - 1) \ M : p(k) < s.expected
      /\ s.expected # 0 => \E k \in (1 .. n - 1) \ M : s.expected = p(k) + 1
      /\ \A v \in n .. N : p(v) >= s.expected \/ Offends(v, rows, from, candidates)
  <2>1. (n - 1) + 1 = n
    OBVIOUS
  <2> QED
    BY <1>4, <2>1 DEF UnsortedInv
<1>6. /\ u \in UnsortedState /\ place \in Nat
      /\ IF stays THEN u.expected = place + 1 /\ u.removed = s.removed /\ u.c = s.c
         ELSE /\ u.expected = s.expected /\ u.removed = s.removed \cup {f}
              /\ u.c.ins = s.c.ins \cup {t}
              /\ u.c.moves = Append(s.c.moves, [from |-> f, to |-> t])
              /\ u.c.del = s.c.del /\ u.c.mod = s.c.mod
  <2>1. Place(old, rows[n]) \in Nat /\ Place(new, rows[n]) \in Nat
    BY <1>1, <1>2
  <2>2. s \in UnsortedState /\ OutOf(old) \in IndexSet
    BY <1>1, <1>3
  <2>3. StepOf(UnsortedOne(s, rows[n], old, new, candidates), s, old, candidates, rows[n],
               Place(old, rows[n]), Place(new, rows[n]))
    BY ONLY <2>1, <2>2, UnsortedCases
  <2> QED
    BY <1>2, <2>3 DEF StepOf
<1>7. n \in Nat /\ n \in 1 .. N /\ \A k \in 1 .. n - 1 : k \in 1 .. N /\ k < n /\ k # n
  BY <1>1
<1>8. \A k \in 1 .. n : k \in 1 .. n - 1 \/ k = n
  OBVIOUS
<1>9. CASE stays
  <2>1. /\ place >= s.expected
        /\ \A v \in n + 1 .. N : p(v) >= place + 1 \/ Offends(v, rows, from, candidates)
    <3>1. place = Unshift(OutOf(old), from[n])
      OBVIOUS
    <3>2. \/ place = s.expected \/ rows[n] \notin candidates
          \/ place = Unshift(s.c.ins, to[n]) + CountBelow(s.removed, from[n])
      BY <1>9
    <3> HIDE DEF place
    <3> QED
      BY <1>3, <1>4, <3>1, <3>2, StaysBehind
  <2> HIDE DEF u
  <2>2. \A k \in (1 .. n - 1) \ M : p(k) < place /\ p(k) \in Nat /\ from[k] < f
    <3> SUFFICES ASSUME NEW k \in (1 .. n - 1) \ M PROVE p(k) < place /\ p(k) \in Nat /\ from[k] < f
      OBVIOUS
    <3>1. p(k) \in Nat /\ p(k) < s.expected /\ from[k] \in Nat /\ f \in Nat /\ from[k] # f
          /\ from[k] \notin OutOf(old) /\ f \notin OutOf(old)
      BY <1>1, <1>2, <1>5, <1>7, UnshiftFacts
    <3>2. p(k) < place
      BY <1>3, <1>6, <2>1, <3>1
    <3>3. f < from[k] => place < p(k)
      BY <1>1, <3>1, UnshiftFacts
    <3> QED
      BY <1>6, <3>1, <3>2, <3>3
  <2>3. M \subseteq 1 .. n /\ n \notin M
    BY <1>5, <1>7
  <2>4. \A k \in (1 .. n) \ M : k \in (1 .. n - 1) \ M \/ k = n
    BY <1>8
  <2>5. n \in (1 .. n) \ M
    BY <1>7, <2>3
  <2>6. \A k, l \in (1 .. n) \ M : k < l => from[k] < from[l]
    <3> SUFFICES ASSUME NEW k \in (1 .. n) \ M, NEW l \in (1 .. n) \ M, k < l PROVE from[k] < from[l]
      OBVIOUS
    <3>1. k # n
      BY <1>7, <2>4
    <3>2. k \in (1 .. n - 1) \ M
      BY <2>4, <3>1
    <3> QED
      BY <1>5, <2>2, <2>4, <3>2
  <2>7. \A k \in (1 .. n) \ M : p(k) < place + 1
    BY <1>6, <2>2, <2>4
  <2>8. u.expected = place + 1 /\ u.removed = s.removed /\ u.c = s.c
    BY <1>6, <1>9
  <2>9. \E k \in (1 .. n) \ M : u.expected = p(k) + 1
    BY <2>5, <2>8
  <2> HIDE DEF place
  <2>10. UnsortedInv(u, n, M, old, new, candidates, rows, from, to)
    BY <1>5, <2>1, <2>3, <2>6, <2>7, <2>8, <2>9 DEF UnsortedInv
  <2> QED
    BY <1>3, <1>4, <1>6, <2>8, <2>10 DEF UnsortedSoFar, u
<1>10. CASE ~stays
  <2> DEFINE M2 == M \cup {n}
             moves == s.c.moves
             one == [from |-> f, to |-> t]
  <2> HIDE DEF u
  <2>1. /\ u.expected = s.expected /\ u.removed = s.removed \cup {f} /\ u.c.ins = s.c.ins \cup {t}
        /\ u.c.moves = Append(moves, one) /\ u.c.mod = s.c.mod
    BY <1>6, <1>10
  <2>2. M2 \subseteq 1 .. n /\ (1 .. n) \ M2 = (1 .. n - 1) \ M
    <3>1. \A k : k \in 1 .. n <=> k \in 1 .. n - 1 \/ k = n
      BY <1>7
    <3>2. n \notin 1 .. n - 1
      BY <1>7
    <3> QED
      BY <1>5, <3>1, <3>2
  <2>3. Places(from, M2) = Places(from, M) \cup {f} /\ Places(to, M2) = Places(to, M) \cup {t}
    BY DEF Places
  <2>4. \A v \in n + 1 .. N : v \in n .. N
    BY <1>7
  <2> HIDE DEF M2
  <2>5. UnsortedInv(u, n, M2, old, new, candidates, rows, from, to)
    BY <1>5, <2>1, <2>2, <2>3, <2>4 DEF UnsortedInv
  <2>6. moves \in Seq(Move) /\ one \in Move /\ Len(moves) \in Nat
    <3>1. moves \in Seq(Move)
      BY <1>3, ChangeSetParts
    <3>2. one \in Move
      BY <1>1 DEF Move
    <3> QED
      BY <3>1, <3>2
  <2>7. one.from = f /\ one.to = t
    OBVIOUS
  <2> HIDE DEF moves, one
  <2>8. /\ Len(Append(moves, one)) = Len(moves) + 1
        /\ Append(moves, one)[Len(moves) + 1] = one
        /\ \A k \in 1 .. Len(moves) : Append(moves, one)[k] = moves[k]
    BY <2>6
  <2>9. /\ \A k \in 1 .. Len(moves) : \E m \in M : moves[k].from = from[m] /\ moves[k].to = to[m]
        /\ \A k, l \in 1 .. Len(moves) :
              l # k => moves[l].from # moves[k].from /\ moves[l].to # moves[k].to
    BY <1>4 DEF MovedRows, moves
  <2>10. \A k \in 1 .. Len(moves) : moves[k].from # f /\ moves[k].to # t
    BY <1>2, <1>5, <1>7, <2>9
  <2>11. \A k \in 1 .. Len(Append(moves, one)) : k \in 1 .. Len(moves) \/ k = Len(moves) + 1
    BY <2>6, <2>8
  <2>12. n \in M2 /\ \A m \in M : m \in M2
    BY DEF M2
  <2>13. MovedRows(Append(moves, one), M2, from, to)
    <3>1. \A k \in 1 .. Len(Append(moves, one)) :
             \E m \in M2 : /\ Append(moves, one)[k].from = from[m]
                           /\ Append(moves, one)[k].to = to[m]
      <4> SUFFICES ASSUME NEW k \in 1 .. Len(Append(moves, one))
                   PROVE  \E m \in M2 : /\ Append(moves, one)[k].from = from[m]
                                        /\ Append(moves, one)[k].to = to[m]
        OBVIOUS
      <4>1. CASE k \in 1 .. Len(moves)
        <5>1. PICK m \in M : moves[k].from = from[m] /\ moves[k].to = to[m]
          BY <2>9, <4>1
        <5>2. Append(moves, one)[k] = moves[k]
          BY <2>8, <4>1
        <5> QED
          BY <2>12, <5>1, <5>2
      <4>2. CASE k = Len(moves) + 1
        BY <2>7, <2>8, <2>12, <4>2
      <4> QED
        BY <2>11, <4>1, <4>2
    <3>2. ASSUME NEW k \in 1 .. Len(Append(moves, one)), NEW l \in 1 .. Len(Append(moves, one)), l # k
          PROVE  /\ Append(moves, one)[l].from # Append(moves, one)[k].from
                 /\ Append(moves, one)[l].to # Append(moves, one)[k].to
      <4>1. CASE k \in 1 .. Len(moves) /\ l \in 1 .. Len(moves)
        BY <2>8, <2>9, <3>2, <4>1
      <4>2. CASE k = Len(moves) + 1 /\ l \in 1 .. Len(moves)
        BY <2>7, <2>8, <2>10, <4>2
      <4>3. CASE l = Len(moves) + 1 /\ k \in 1 .. Len(moves)
        BY <2>7, <2>8, <2>10, <4>3
      <4> QED
        BY <2>11, <3>2, <4>1, <4>2, <4>3
    <3> QED
      BY <3>1, <3>2 DEF MovedRows
  <2> QED
    BY <1>3, <1>6, <2>1, <2>5, <2>13 DEF UnsortedSoFar, u
<1> QED
  BY <1>9, <1>10

\* What calculate begins with: rows that are in one of the two only, and those changed.
Begun(old, new, changed) ==
    [Empty EXCEPT !.del = {i \in Indices(old) : At(old, i) \notin ToSet(new)},
                  !.ins = NewOf(old, new),
                  !.mod = {i \in Indices(new) : At(new, i) \in ToSet(old) \cap changed}]

\* Empty, with other sets, as a record.
LEMMA EmptyWith ==
    ASSUME NEW D, NEW A, NEW C
    PROVE  [Empty EXCEPT !.del = D, !.ins = A, !.mod = C]
             = [del |-> D, ins |-> A, mod |-> C, moves |-> <<>>, mapping |-> <<>>]
<1>1. PICK e1, e2, e3, e4, e5 :
         /\ Empty = [del |-> e1, ins |-> e2, mod |-> e3, moves |-> e4, mapping |-> e5]
         /\ e4 = <<>> /\ e5 = <<>>
  BY DEF Empty
<1> DEFINE a == [Empty EXCEPT !.del = D]
           b == [a EXCEPT !.ins = A]
           d == [b EXCEPT !.mod = C]
<1>2. a = [del |-> D, ins |-> e2, mod |-> e3, moves |-> e4, mapping |-> e5]
  BY ONLY <1>1
<1> HIDE DEF a
<1>3. b = [del |-> D, ins |-> A, mod |-> e3, moves |-> e4, mapping |-> e5]
  BY ONLY <1>2
<1> HIDE DEF b
<1>4. d = [del |-> D, ins |-> A, mod |-> C, moves |-> e4, mapping |-> e5]
  BY ONLY <1>3
<1>5. d = [Empty EXCEPT !.del = D, !.ins = A, !.mod = C]
  BY DEF a, b, d
<1> HIDE DEF d
<1> QED
  BY <1>1, <1>4, <1>5

\* What calculate begins with is a change set without moves.
LEMMA BegunFacts ==
    ASSUME NEW old, NEW new, Len(old) \in Nat, Len(new) \in Nat, NEW changed
    PROVE  /\ Begun(old, new, changed) \in ChangeSet
           /\ Begun(old, new, changed).del = {i \in Indices(old) : At(old, i) \notin ToSet(new)}
           /\ Begun(old, new, changed).ins = NewOf(old, new)
           /\ Begun(old, new, changed).mod
                = {i \in Indices(new) : At(new, i) \in ToSet(old) \cap changed}
           /\ Begun(old, new, changed).moves = <<>>
<1> DEFINE D == {i \in Indices(old) : At(old, i) \notin ToSet(new)}
           A == NewOf(old, new)
           C == {i \in Indices(new) : At(new, i) \in ToSet(old) \cap changed}
<1>1. D \in IndexSet /\ A \in IndexSet /\ C \in IndexSet
  <2>1. D \in SUBSET Indices(old) /\ A \in SUBSET Indices(new) /\ C \in SUBSET Indices(new)
    BY DEF NewOf
  <2>2. Indices(old) \in IndexSet /\ Indices(new) \in IndexSet
    BY UpToIsIndexSet DEF Indices
  <2> QED
    BY <2>1, <2>2, FS_Subset DEF IndexSet
<1>2. Begun(old, new, changed) = [Empty EXCEPT !.del = D, !.ins = A, !.mod = C]
  BY DEF Begun
<1> HIDE DEF D, A, C
<1>3. [Empty EXCEPT !.del = D, !.ins = A, !.mod = C]
        = [del |-> D, ins |-> A, mod |-> C, moves |-> <<>>, mapping |-> <<>>]
  BY EmptyWith
<1>4. <<>> \in UNION {[s -> Nat] : s \in IndexSet}
  <2>1. Empty \in ChangeSet /\ Empty.mapping = <<>>
    BY EmptyIsChange DEF IsChange, Empty
  <2> QED
    BY <2>1, ChangeSetParts
<1>5. <<>> \in Seq(Move)
  OBVIOUS
<1>6. [del |-> D, ins |-> A, mod |-> C, moves |-> <<>>, mapping |-> <<>>] \in ChangeSet
  BY <1>1, <1>4, <1>5 DEF ChangeSet
<1> QED
  BY <1>2, <1>3, <1>6 DEF D, A, C

\* calculate_moves_unsorted, of any two lists of rows that are as it expects (a row that
\* could not have moved is in the order of the table, and at most one of the others was
\* before such a row): the result leads each row that is in both to its place in the new
\* list, and marks the changed ones.
THEOREM UnsortedCalculated ==
    ASSUME NEW old, NEW new, RowLists(old, new), NEW candidates, NEW changed,
           NEW from, NEW to, Common(old, new, Both(old, new), from, to),
           AsExpected(Both(old, new), from, candidates)
    PROVE  Calculated(MovesUnsorted(old, new, candidates, Begun(old, new, changed)),
                      old, new, changed)
<1> DEFINE rows == Both(old, new)
           N == Len(rows)
           c == Begun(old, new, changed)
           d == MovesUnsorted(old, new, candidates, c)
           SoFar(s, n) == UnsortedSoFar(s, n, old, new, candidates, rows, from, to, c)
<1>1. /\ N \in Nat /\ Len(old) \in Nat /\ Len(new) \in Nat
      /\ OutOf(old) \in IndexSet /\ RemovedOf(old, new) \in IndexSet /\ NewOf(old, new) \in IndexSet
      /\ \A m \in 1 .. N : /\ from[m] \in Nat /\ from[m] \in Indices(old)
                           /\ to[m] \in Nat /\ to[m] \in Indices(new)
                           /\ from[m] \notin OutOf(old) /\ from[m] \notin RemovedOf(old, new)
                           /\ to[m] \notin NewOf(old, new)
      /\ \A x \in Nat : x < Len(old) => \/ x \in OutOf(old) \/ x \in RemovedOf(old, new)
                                        \/ \E m \in 1 .. N : from[m] = x
      /\ \A y \in Nat : y < Len(new) => \/ y \in NewOf(old, new) \/ \E m \in 1 .. N : to[m] = y
  BY CommonFacts
<1>2. /\ rows \in Seq(Nat)
      /\ \A n \in 1 .. N : /\ Place(old, rows[n]) = from[n] /\ Place(new, rows[n]) = to[n]
                           /\ At(old, from[n]) = rows[n] /\ At(new, to[n]) = rows[n]
      /\ \A k, m \in 1 .. N : k < m => to[k] < to[m]
      /\ \A k, m \in 1 .. N : k # m => from[k] # from[m] /\ to[k] # to[m]
  BY DEF Common
<1>3. /\ c \in ChangeSet /\ c.ins = NewOf(old, new) /\ c.moves = <<>>
      /\ c.mod = {i \in Indices(new) : At(new, i) \in ToSet(old) \cap changed}
  BY <1>1, BegunFacts
<1> HIDE DEF c
<1>4. PICK g : /\ UnsortedRun(g, old, new, candidates, c)
               /\ \A n \in 0 .. N : g[n] \in UnsortedState
  <2>1. \A n \in 1 .. Len(Both(old, new)) : /\ Place(old, Both(old, new)[n]) \in Nat
                                            /\ Place(new, Both(old, new)[n]) \in Nat
    BY <1>1, <1>2
  <2>2. Both(old, new) \in Seq(Nat)
    BY <1>2
  <2> QED
    BY <1>1, <1>3, <2>1, <2>2, UnsortedSteps
<1>5. /\ g[0] = [expected |-> 0, removed |-> RemovedOf(old, new), c |-> c]
      /\ \A n \in 1 .. N : g[n] = UnsortedOne(g[n - 1], rows[n], old, new, candidates)
      /\ d = [g[N].c EXCEPT !.del = g[N].removed \cup OutOf(old)]
  BY <1>4 DEF UnsortedRun
<1> HIDE DEF rows
<1>6. SoFar(g[0], 0)
  <2>1. g[0] \in UnsortedState
    BY <1>1, <1>4
  <2>2. g[0].c = c /\ g[0].expected = 0 /\ g[0].removed = RemovedOf(old, new)
    BY <1>5
  <2>3. Places(from, {}) = {} /\ Places(to, {}) = {}
    BY DEF Places
  <2>4. \A v \in 0 + 1 .. N : Unshift(OutOf(old), from[v]) >= 0
    <3>1. \A v \in 0 + 1 .. N : v \in 1 .. N
      BY <1>1
    <3>2. \A v \in 1 .. N : Unshift(OutOf(old), from[v]) \in Nat
      BY <1>1, UnshiftFacts
    <3> QED
      BY <3>1, <3>2
  <2>5. (1 .. 0) \ {} = {}
    OBVIOUS
  <2>6. UnsortedInv(g[0], 0, {}, old, new, candidates, rows, from, to)
    BY <1>3, <2>2, <2>3, <2>4, <2>5 DEF UnsortedInv
  <2>7. MovedRows(g[0].c.moves, {}, from, to)
    BY <1>3, <2>2 DEF MovedRows
  <2> QED
    BY <2>1, <2>2, <2>6, <2>7 DEF UnsortedSoFar
<1>7. ASSUME NEW n \in 1 .. N, SoFar(g[n - 1], n - 1) PROVE SoFar(g[n], n)
  <2>1. g[n] = UnsortedOne(g[n - 1], rows[n], old, new, candidates)
    BY <1>5
  <2>2. n \in 1 .. Len(rows) /\ Common(old, new, rows, from, to)
        /\ AsExpected(rows, from, candidates)
    BY DEF rows
  <2>3. UnsortedSoFar(UnsortedOne(g[n - 1], rows[n], old, new, candidates), n,
                      old, new, candidates, rows, from, to, c)
    BY <1>7, <2>2, UnsortedKeeps
  <2> QED
    BY <2>1, <2>3
<1>8. SoFar(g[N], N)
  <2> DEFINE P == {n \in 0 .. N : SoFar(g[n], n)}
  <2>1. 0 \in P
    BY <1>1, <1>6
  <2>2. \A n \in 1 .. N : n - 1 \in P => n \in P
    <3> SUFFICES ASSUME NEW n \in 1 .. N, n - 1 \in P PROVE n \in P
      OBVIOUS
    <3>1. n \in 0 .. N
      BY <1>1
    <3> HIDE DEF SoFar
    <3> QED
      BY <1>7, <3>1
  <2>3. N \in P
    <3> HIDE DEF P
    <3> QED
      BY <1>1, <2>1, <2>2, UpTo
  <2> QED
    BY <2>3
<1>9. g[N] \in UnsortedState /\ g[N].c.mod = c.mod
  BY <1>8 DEF UnsortedSoFar
<1>10. PICK M : /\ UnsortedInv(g[N], N, M, old, new, candidates, rows, from, to)
                /\ MovedRows(g[N].c.moves, M, from, to)
  BY <1>8 DEF UnsortedSoFar
<1>11. /\ M \subseteq 1 .. N
       /\ g[N].removed = RemovedOf(old, new) \cup Places(from, M)
       /\ g[N].c.ins = NewOf(old, new) \cup Places(to, M)
       /\ \A k, l \in (1 .. N) \ M : k < l => from[k] < from[l]
  BY <1>10 DEF UnsortedInv
<1> DEFINE e == g[N].c
           D == g[N].removed \cup OutOf(old)
<1>12. e \in ChangeSet /\ D \in IndexSet
  <2>1. g[N].removed \in IndexSet
    BY <1>9 DEF UnsortedState
  <2>2. e \in ChangeSet
    BY <1>9 DEF UnsortedState
  <2> QED
    BY <1>1, <2>1, <2>2, FS_Union DEF IndexSet
<1>13. /\ d.del = D /\ d.ins = e.ins /\ d.mod = e.mod /\ d.moves = e.moves /\ d \in ChangeSet
  <2>1. d = [e EXCEPT !.del = D]
    BY <1>5
  <2> HIDE DEF d, e, D
  <2>2. e = [del |-> e.del, ins |-> e.ins, mod |-> e.mod, moves |-> e.moves, mapping |-> e.mapping]
    BY <1>12, ChangeSetParts
  <2>3. d = [del |-> D, ins |-> e.ins, mod |-> e.mod, moves |-> e.moves, mapping |-> e.mapping]
    BY <2>1, <2>2
  <2> QED
    BY <1>12, <2>3, ChangeSetParts DEF ChangeSet
<1>14. d.del = (RemovedOf(old, new) \cup Places(from, M)) \cup OutOf(old)
       /\ d.ins = NewOf(old, new) \cup Places(to, M)
  BY <1>11, <1>13
<1> DEFINE L == (1 .. N) \ M
           K == {<<from[m], to[m]>> : m \in L}
<1> HIDE DEF d, e, D, SoFar
<1>15. /\ \A i : i \in Indices(old) <=> i \in Nat /\ i < Len(old)
       /\ \A i : i \in Indices(new) <=> i \in Nat /\ i < Len(new)
  BY <1>1 DEF Indices
<1>16. \A m \in L : m \in 1 .. N /\ from[m] \notin d.del /\ to[m] \notin d.ins
  <2>1. \A m \in L : m \in 1 .. N /\ from[m] \notin Places(from, M) /\ to[m] \notin Places(to, M)
    BY <1>2, <1>11 DEF Places
  <2> QED
    BY <1>1, <1>14, <2>1
<1>17. \A x, y : <<x, y>> \in K <=> \E m \in L : x = from[m] /\ y = to[m]
  OBVIOUS
<1>18. \A k, m \in L : (from[k] < from[m]) <=> (to[k] < to[m])
  <2> SUFFICES ASSUME NEW k \in L, NEW m \in L PROVE (from[k] < from[m]) <=> (to[k] < to[m])
    OBVIOUS
  <2>1. k \in 1 .. N /\ m \in 1 .. N /\ k \in Nat /\ m \in Nat
    BY <1>1
  <2>2. from[k] \in Nat /\ from[m] \in Nat /\ to[k] \in Nat /\ to[m] \in Nat
    BY <1>1, <2>1
  <2>3. k < m => from[k] < from[m] /\ to[k] < to[m]
    BY <1>2, <1>11, <2>1
  <2>4. m < k => from[m] < from[k] /\ to[m] < to[k]
    BY <1>2, <1>11, <2>1
  <2> QED
    BY <2>1, <2>2, <2>3, <2>4
<1>19. \A m \in 1 .. N : m \in L \/ m \in M
  OBVIOUS
<1> HIDE DEF K
<1>20. Pairing(K, Len(old), d.del, Len(new), d.ins)
  <2>1. \A x, y : <<x, y>> \in K => /\ x \in Nat /\ x < Len(old) /\ x \notin d.del
                                    /\ y \in Nat /\ y < Len(new) /\ y \notin d.ins
    BY SMTT(30), <1>1, <1>15, <1>16, <1>17
  <2>2. \A x \in Nat : x < Len(old) /\ x \notin d.del => \E y : <<x, y>> \in K
    <3> SUFFICES ASSUME NEW x \in Nat, x < Len(old), x \notin d.del PROVE \E y : <<x, y>> \in K
      OBVIOUS
    <3>1. PICK m \in 1 .. N : from[m] = x
      BY <1>1, <1>14
    <3>2. m \notin M
      BY <1>14, <3>1 DEF Places
    <3>3. <<from[m], to[m]>> \in K
      BY <1>17, <1>19, <3>2
    <3> QED
      BY <3>1, <3>3
  <2>3. \A y \in Nat : y < Len(new) /\ y \notin d.ins => \E x : <<x, y>> \in K
    <3> SUFFICES ASSUME NEW y \in Nat, y < Len(new), y \notin d.ins PROVE \E x : <<x, y>> \in K
      OBVIOUS
    <3>1. PICK m \in 1 .. N : to[m] = y
      BY <1>1, <1>14
    <3>2. m \notin M
      BY <1>14, <3>1 DEF Places
    <3>3. <<from[m], to[m]>> \in K
      BY <1>17, <1>19, <3>2
    <3> QED
      BY <3>1, <3>3
  <2>4. \A x, y, u, v : <<x, y>> \in K /\ <<u, v>> \in K => (x < u <=> y < v)
    BY <1>17, <1>18
  <2> QED
    BY <2>1, <2>2, <2>3, <2>4 DEF Pairing
<1>21. SameRows(K, old, new)
  <2> SUFFICES ASSUME NEW x, NEW y, <<x, y>> \in K PROVE At(old, x) = At(new, y)
    BY DEF SameRows
  <2>1. PICK m \in L : x = from[m] /\ y = to[m]
    BY <1>17
  <2> QED
    BY <1>2, <1>16, <2>1
<1>22. TrueMoves(d, old, new)
  <2>1. d.moves = g[N].c.moves
    BY <1>13 DEF e
  <2>2. MovedRows(d.moves, M, from, to)
    BY <1>10, <2>1
  <2>3. \A k \in 1 .. Len(d.moves) : /\ d.moves[k].from \in d.del /\ d.moves[k].to \in d.ins
                                     /\ At(old, d.moves[k].from) = At(new, d.moves[k].to)
    <3> SUFFICES ASSUME NEW k \in 1 .. Len(d.moves)
                 PROVE  /\ d.moves[k].from \in d.del /\ d.moves[k].to \in d.ins
                        /\ At(old, d.moves[k].from) = At(new, d.moves[k].to)
      OBVIOUS
    <3>1. PICK m \in M : d.moves[k].from = from[m] /\ d.moves[k].to = to[m]
      BY <2>2 DEF MovedRows
    <3>2. m \in 1 .. N /\ from[m] \in Places(from, M) /\ to[m] \in Places(to, M)
      BY <1>11 DEF Places
    <3> QED
      BY <1>2, <1>14, <3>1, <3>2
  <2>4. MovesMatch(d)
    BY <2>2, <2>3 DEF MovedRows, MovesMatch
  <2> QED
    BY <2>3, <2>4 DEF TrueMoves
<1>23. d.del \subseteq Indices(old) /\ d.ins \subseteq Indices(new)
  <2>1. RemovedOf(old, new) \subseteq Indices(old) /\ OutOf(old) \subseteq Indices(old)
        /\ NewOf(old, new) \subseteq Indices(new)
    BY DEF RemovedOf, OutOf, NewOf
  <2>2. Places(from, M) \subseteq Indices(old) /\ Places(to, M) \subseteq Indices(new)
    BY <1>1, <1>11 DEF Places
  <2> QED
    BY <1>14, <2>1, <2>2
<1>24. d.mod = {i \in Indices(new) : At(new, i) \in ToSet(old) \cap changed}
  BY <1>3, <1>9, <1>13 DEF e
<1>25. Calculated(d, old, new, changed)
  BY <1>1, <1>13, <1>20, <1>21, <1>22, <1>23, <1>24, PairedCalculated
<1> QED
  BY <1>25 DEF d, c, rows

\* The rows in between are as calculate_moves_unsorted expects when at most one of them
\* was moved from before others that were not.
LEMMA ExpectedRows ==
    ASSUME NEW old, NEW new, NEW from, NEW to, NEW candidates,
           Common(old, new, Both(old, new), from, to),
           ~(Cardinality(MovedFromBefore(old, new, candidates)) > 1),
           \A m, n \in 1 .. Len(Both(old, new)) :
               /\ m < n
               /\ Both(old, new)[m] \notin candidates /\ Both(old, new)[n] \notin candidates
               => from[m] < from[n]
    PROVE  AsExpected(Both(old, new), from, candidates)
<1> DEFINE rows == Both(old, new)
           N == Len(rows)
           B == MovedFromBefore(old, new, candidates)
<1>1. /\ rows \in Seq(Nat) /\ N \in Nat
      /\ \A n \in 1 .. N : Place(old, rows[n]) = from[n]
      /\ \A m, n \in 1 .. N : m # n => from[m] # from[n]
  BY DEF Common
<1>2. IsFiniteSet(B)
  <2>1. IsFiniteSet(ToSet(rows))
    <3>1. IsFiniteSet(1 .. N)
      BY <1>1, FS_Interval
    <3>2. ToSet(rows) = {rows[n] : n \in 1 .. N}
      BY <1>1 DEF ToSet
    <3>3. \A m, n \in 1 .. N : m # n => rows[m] # rows[n]
      BY <1>1
    <3>4. IsFiniteSet({rows[n] : n \in 1 .. N})
      BY <3>1, <3>3, ImageCount
    <3> QED
      BY <3>2, <3>4
  <2>2. B \in SUBSET ToSet(rows)
    BY DEF MovedFromBefore
  <2> QED
    BY <2>1, <2>2, FS_Subset
<1>3. \A n \in 1 .. N : rows[n] \in ToSet(rows)
  BY <1>1 DEF ToSet
<1>4. ASSUME NEW u \in 1 .. N, Offends(u, rows, from, candidates) PROVE rows[u] \in B
  <2>1. rows[u] \in candidates
    BY <1>4 DEF Offends
  <2>2. PICK q \in 1 .. N : rows[q] \notin candidates /\ from[u] < from[q]
    BY <1>4 DEF Offends
  <2>3. Place(old, rows[u]) < Place(old, rows[q])
    BY <1>1, <2>2
  <2>4. rows[u] \in ToSet(rows) \cap candidates /\ rows[q] \in ToSet(rows) \ candidates
    BY <1>3, <2>1, <2>2
  <2> QED
    BY <2>3, <2>4 DEF MovedFromBefore
<1>5. ASSUME NEW u \in 1 .. N, NEW v \in 1 .. N, Offends(u, rows, from, candidates),
             Offends(v, rows, from, candidates), u # v
      PROVE  FALSE
  <2>1. rows[u] # rows[v]
    BY <1>1, <1>5
  <2>2. {rows[u], rows[v]} \subseteq B
    BY <1>4, <1>5
  <2>3. Cardinality({rows[u], rows[v]}) = 2
    <3>1. /\ IsFiniteSet({rows[u]}) /\ Cardinality({rows[u]}) = 1
          /\ IsFiniteSet({rows[v]}) /\ Cardinality({rows[v]}) = 1
      BY FS_Singleton
    <3>2. {rows[u], rows[v]} = {rows[u]} \cup {rows[v]} /\ {rows[u]} \cap {rows[v]} = {}
      BY <2>1
    <3> DEFINE U == {rows[u]}
               V == {rows[v]}
    <3>3. IsFiniteSet(U) /\ IsFiniteSet(V) /\ U \cap V = {} /\ Cardinality(U) = 1 /\ Cardinality(V) = 1
      BY <3>1, <3>2
    <3> HIDE DEF U, V
    <3>4. Cardinality(U \cup V) = Cardinality(U) + Cardinality(V)
      BY ONLY <3>3, CountOfTwo
    <3>5. Cardinality(U \cup V) = 2
      BY <3>3, <3>4
    <3> QED
      BY <3>2, <3>5 DEF U, V
  <2>4. Cardinality({rows[u], rows[v]}) <= Cardinality(B) /\ Cardinality(B) \in Nat
    BY <1>2, <2>2, FS_Subset, FS_CardinalityType
  <2> QED
    BY <2>3, <2>4
<1> QED
  BY <1>5 DEF AsExpected

-----------------------------------------------------------------------------
\* find_longest_match

\* A count of marked indices is a number.
LEMMA CountInIsNat ==
    ASSUME NEW s \in IndexSet, NEW lo, NEW hi
    PROVE  CountIn(s, lo, hi) \in Nat
<1>1. IsFiniteSet(s \cap (lo .. hi - 1))
  BY FS_Subset DEF IndexSet
<1>2. Cardinality(s \cap (lo .. hi - 1)) \in Nat
  BY <1>1, FS_CardinalityType
<1> QED
  BY <1>2 DEF CountIn

\* Two lists of rows for the calculator: b has each row once, and every row of a.
Comparable(a, b) ==
    /\ a \in Seq(Nat) /\ b \in Seq(Nat)
    /\ \A i \in Indices(a) : Place(b, At(a, i)) \in Indices(b) /\ At(b, Place(b, At(a, i))) = At(a, i)

\* A block of rows that are the same in a and b, within bounds.
Block(a, b, i, j, size, b1, e1, b2, e2) ==
    /\ i \in Nat /\ j \in Nat /\ size \in Nat
    /\ b1 <= i /\ i + size <= e1 /\ b2 <= j /\ j + size <= e2
    /\ \A k \in Nat : k < size => At(a, i + k) = At(b, j + k)

\* What find_longest_match keeps of the best block so far, and of the one that ends here.
MatchState == [i : Int, j : Int, size : Int, len : Int, few : Int]

\* One round of its loop.
MatchOne(s, a, b, i, b2, e2, mod) ==
    LET j == Place(b, At(a, i))
        size == IF s.len > 0 /\ Place(b, At(a, i - 1)) + 1 = j THEN s.len + 1 ELSE 1
        few == IF s.few < 0 THEN CountIn(mod, s.j - size + 1, s.j + 1) ELSE s.few
        count == CountIn(mod, j - size + 1, j + 1)
        best == [i |-> i - size + 1, j |-> j - size + 1, size |-> size, len |-> size, few |-> -1]
    IN  IF ~(j \in b2 .. e2 - 1) THEN [s EXCEPT !.len = 0]
        ELSE IF size > s.size THEN best
        ELSE IF size < s.size THEN [s EXCEPT !.len = size]
        ELSE IF count < few THEN [best EXCEPT !.few = count]
        ELSE [s EXCEPT !.len = size, !.few = few]

\* The parts of a state.
LEMMA MatchParts ==
    ASSUME NEW s \in MatchState, NEW n, NEW f
    PROVE  /\ s.i \in Int /\ s.j \in Int /\ s.size \in Int /\ s.len \in Int /\ s.few \in Int
           /\ [s EXCEPT !.len = n]
                = [i |-> s.i, j |-> s.j, size |-> s.size, len |-> n, few |-> s.few]
           /\ [s EXCEPT !.len = n, !.few = f]
                = [i |-> s.i, j |-> s.j, size |-> s.size, len |-> n, few |-> f]
<1>1. PICK e1 \in Int, e2 \in Int, e3 \in Int, e4 \in Int, e5 \in Int :
         s = [i |-> e1, j |-> e2, size |-> e3, len |-> e4, few |-> e5]
  BY DEF MatchState
<1>2. s.i = e1 /\ s.j = e2 /\ s.size = e3 /\ s.len = e4 /\ s.few = e5
  BY ONLY <1>1
<1> DEFINE t == [s EXCEPT !.len = n]
           u == [t EXCEPT !.few = f]
<1>3. t = [i |-> e1, j |-> e2, size |-> e3, len |-> n, few |-> e5]
  BY ONLY <1>1
<1>4. u = [s EXCEPT !.len = n, !.few = f]
  OBVIOUS
<1> HIDE DEF t
<1>5. u = [i |-> e1, j |-> e2, size |-> e3, len |-> n, few |-> f]
  BY ONLY <1>3
<1> HIDE DEF u
<1> QED
  BY <1>2, <1>3, <1>4, <1>5 DEF t

\* The best block is still the same.
SameBest(t, s) == t.i = s.i /\ t.j = s.j /\ t.size = s.size

\* What a round comes to: either a[i] is not within the window of b, or it ends a
\* block there, which may be the best.
Round(t, s, a, b, i, j, b2, e2) ==
    \/ t.len = 0 /\ SameBest(t, s)
    \/ /\ j \in b2 .. e2 - 1
       /\ \/ t.len = 1
          \/ s.len > 0 /\ Place(b, At(a, i - 1)) + 1 = j /\ t.len = s.len + 1
       /\ \/ SameBest(t, s)
          \/ t.i = i - t.len + 1 /\ t.j = j - t.len + 1 /\ t.size = t.len

\* A round either finds nothing here, or a block that ends here and may be the best.
LEMMA MatchCases ==
    ASSUME NEW s \in MatchState, NEW a, NEW b, NEW i \in Int, NEW b2, NEW e2,
           NEW mod \in IndexSet, NEW j \in Nat, j = Place(b, At(a, i)),
           NEW t, t = MatchOne(s, a, b, i, b2, e2, mod)
    PROVE  t \in MatchState /\ Round(t, s, a, b, i, j, b2, e2)
<1> DEFINE size == IF s.len > 0 /\ Place(b, At(a, i - 1)) + 1 = j THEN s.len + 1 ELSE 1
           few == IF s.few < 0 THEN CountIn(mod, s.j - size + 1, s.j + 1) ELSE s.few
           count == CountIn(mod, j - size + 1, j + 1)
           best == [i |-> i - size + 1, j |-> j - size + 1, size |-> size, len |-> size, few |-> -1]
           In == j \in b2 .. e2 - 1
           New(f) == [i |-> i - size + 1, j |-> j - size + 1, size |-> size, len |-> size, few |-> f]
           Old(n, f) == [i |-> s.i, j |-> s.j, size |-> s.size, len |-> n, few |-> f]
<1>1. t = IF ~In THEN [s EXCEPT !.len = 0]
          ELSE IF size > s.size THEN best
          ELSE IF size < s.size THEN [s EXCEPT !.len = size]
          ELSE IF count < few THEN [best EXCEPT !.few = count]
          ELSE [s EXCEPT !.len = size, !.few = few]
  BY DEF MatchOne
<1>2. s.i \in Int /\ s.j \in Int /\ s.size \in Int /\ s.len \in Int /\ s.few \in Int
  BY MatchParts
<1>3. count \in Int /\ few \in Int
  BY <1>2, CountInIsNat
<1>4. /\ size \in Int
      /\ \/ size = 1
         \/ s.len > 0 /\ Place(b, At(a, i - 1)) + 1 = j /\ size = s.len + 1
  BY <1>2
<1> HIDE DEF size, few, count, In
<1>5. best = New(-1) /\ [best EXCEPT !.few = count] = New(count)
  OBVIOUS
<1>6. /\ [s EXCEPT !.len = 0] = Old(0, s.few) /\ [s EXCEPT !.len = size] = Old(size, s.few)
      /\ [s EXCEPT !.len = size, !.few = few] = Old(size, few)
  BY MatchParts
<1> HIDE DEF best
<1>7. \/ ~In /\ t = Old(0, s.few)
      \/ In /\ \E f \in Int : t = New(f)
      \/ In /\ \E f \in Int : t = Old(size, f)
  <2> HIDE DEF New, Old
  <2> QED
    BY <1>1, <1>2, <1>3, <1>5, <1>6
<1>8. ASSUME NEW f \in Int, NEW n \in Int, t = Old(n, f)
      PROVE  t \in MatchState /\ t.len = n /\ SameBest(t, s)
  BY <1>2, <1>8 DEF MatchState, SameBest
<1>9. ASSUME NEW f \in Int, t = New(f)
      PROVE  /\ t \in MatchState /\ t.len = size /\ t.i = i - t.len + 1 /\ t.j = j - t.len + 1
             /\ t.size = t.len
  BY <1>4, <1>9 DEF MatchState
<1> HIDE DEF New, Old
<1>10. CASE ~In /\ t = Old(0, s.few)
  BY <1>2, <1>8, <1>10 DEF Round
<1>11. CASE In /\ \E f \in Int : t = New(f)
  <2>1. /\ t \in MatchState /\ t.len = size /\ t.i = i - t.len + 1 /\ t.j = j - t.len + 1
        /\ t.size = t.len
    BY <1>9, <1>11
  <2> QED
    BY <1>4, <1>11, <2>1 DEF Round, In
<1>12. CASE In /\ \E f \in Int : t = Old(size, f)
  <2>1. t \in MatchState /\ t.len = size /\ SameBest(t, s)
    BY <1>4, <1>8, <1>12
  <2> QED
    BY <1>4, <1>12, <2>1 DEF Round, In
<1> QED
  BY <1>7, <1>10, <1>11, <1>12

\* What is known of the state after n rounds.
MatchInv(s, n, a, b, b1, b2, e2) ==
    /\ s \in MatchState /\ s.size >= 0 /\ s.len >= 0
    /\ s.size > 0 => Block(a, b, s.i, s.j, s.size, b1, b1 + n, b2, e2)
    /\ s.len > 0 => /\ n > 0
                    /\ Block(a, b, b1 + n - s.len, Place(b, At(a, b1 + n - 1)) + 1 - s.len, s.len,
                             b1, b1 + n, b2, e2)

\* Bounds may be wider.
LEMMA BlockWider ==
    ASSUME NEW a, NEW b, NEW i, NEW j, NEW size, NEW b1, NEW e1 \in Int, NEW b2, NEW e2,
           Block(a, b, i, j, size, b1, e1, b2, e2), NEW f1 \in Int, e1 <= f1
    PROVE  Block(a, b, i, j, size, b1, f1, b2, e2)
BY DEF Block

\* A block of one row.
LEMMA BlockOfOne ==
    ASSUME NEW a, NEW b, NEW i \in Nat, NEW j \in Nat, At(a, i) = At(b, j),
           NEW b1 \in Int, b1 <= i, NEW b2 \in Int, NEW e2 \in Int, j \in b2 .. e2 - 1
    PROVE  Block(a, b, i, j, 1, b1, i + 1, b2, e2)
<1>1. \A k \in Nat : k < 1 => i + k = i /\ j + k = j
  OBVIOUS
<1>2. b2 <= j /\ j + 1 <= e2 /\ 1 \in Nat
  OBVIOUS
<1> QED
  BY <1>1, <1>2 DEF Block

\* A block with a row more.
LEMMA BlockOfOneMore ==
    ASSUME NEW a, NEW b, NEW i, NEW j, NEW size, NEW b1, NEW e1 \in Int, NEW b2, NEW e2 \in Int,
           Block(a, b, i, j, size, b1, e1, b2, e2), i + size = e1, j + size < e2,
           At(a, i + size) = At(b, j + size)
    PROVE  Block(a, b, i, j, size + 1, b1, e1 + 1, b2, e2)
<1>1. /\ i \in Nat /\ j \in Nat /\ size \in Nat /\ b1 <= i /\ b2 <= j
      /\ \A k \in Nat : k < size => At(a, i + k) = At(b, j + k)
  BY DEF Block
<1>2. \A k \in Nat : k < size + 1 => k < size \/ k = size
  BY <1>1
<1>3. size + 1 \in Nat /\ i + (size + 1) <= e1 + 1 /\ j + (size + 1) <= e2
  BY <1>1
<1> QED
  BY <1>1, <1>2, <1>3 DEF Block

\* A round keeps that.
LEMMA MatchKeeps ==
    ASSUME NEW a, NEW b, Comparable(a, b), NEW b1 \in Nat, NEW b2 \in Nat, NEW e2 \in Nat,
           NEW n \in Nat \ {0}, b1 + n <= Len(a), NEW s, MatchInv(s, n - 1, a, b, b1, b2, e2),
           NEW mod \in IndexSet
    PROVE  MatchInv(MatchOne(s, a, b, b1 + n - 1, b2, e2, mod), n, a, b, b1, b2, e2)
<1> DEFINE i == b1 + n - 1
           j == Place(b, At(a, i))
           t == MatchOne(s, a, b, i, b2, e2, mod)
           jj == Place(b, At(a, i - 1))
<1>1. /\ Len(a) \in Nat /\ i \in Indices(a) /\ i \in Nat /\ i \in Int /\ i + 1 = b1 + n
      /\ b1 <= i /\ b1 + (n - 1) = i /\ n - 1 \in Int
  BY DEF Comparable, Indices
<1>2. j \in Nat /\ At(a, i) = At(b, j)
  BY <1>1 DEF Comparable, Indices
<1>3. /\ s \in MatchState /\ s.size >= 0 /\ s.len >= 0
      /\ s.size > 0 => Block(a, b, s.i, s.j, s.size, b1, i, b2, e2)
      /\ s.len > 0 => /\ n - 1 > 0
                      /\ Block(a, b, i - s.len, jj + 1 - s.len, s.len, b1, i, b2, e2)
  <2> DEFINE m == n - 1
  <2>1. MatchInv(s, m, a, b, b1, b2, e2)
    OBVIOUS
  <2>2. b1 + m = i /\ m = n - 1
    BY <1>1
  <2> HIDE DEF m, i
  <2>3. /\ s \in MatchState /\ s.size >= 0 /\ s.len >= 0
        /\ s.size > 0 => Block(a, b, s.i, s.j, s.size, b1, b1 + m, b2, e2)
        /\ s.len > 0 => /\ m > 0
                        /\ Block(a, b, b1 + m - s.len, Place(b, At(a, b1 + m - 1)) + 1 - s.len, s.len,
                                 b1, b1 + m, b2, e2)
    BY ONLY <2>1 DEF MatchInv
  <2>4. s.len \in Int /\ m \in Int
    <3>1. s.len \in Int
      BY <2>3, MatchParts
    <3> QED
      BY <3>1, <2>2
  <2>5. b1 + m - s.len = i - s.len /\ b1 + m - 1 = i - 1
    BY ONLY <2>2, <2>4, b1 \in Nat, i \in Int
  <2>6. jj = Place(b, At(a, i - 1))
    BY DEF jj
  <2> HIDE DEF jj
  <2> QED
    BY ONLY <2>2, <2>3, <2>5, <2>6
<1>4. s.i \in Int /\ s.j \in Int /\ s.size \in Int /\ s.len \in Int
  BY <1>3, MatchParts
<1>5. t \in MatchState /\ Round(t, s, a, b, i, j, b2, e2)
  <2> HIDE DEF i
  <2> QED
    BY <1>1, <1>2, <1>3, MatchCases
<1>6. t.i \in Int /\ t.j \in Int /\ t.size \in Int /\ t.len \in Int
  BY <1>5, MatchParts
<1> HIDE DEF i, j, jj, t
<1>7. s.size > 0 => Block(a, b, s.i, s.j, s.size, b1, i + 1, b2, e2)
  BY <1>1, <1>3, BlockWider
<1>8. ASSUME t.len > 0
      PROVE  Block(a, b, i + 1 - t.len, j + 1 - t.len, t.len, b1, i + 1, b2, e2)
  <2>1. /\ j \in b2 .. e2 - 1
        /\ \/ t.len = 1
           \/ s.len > 0 /\ jj + 1 = j /\ t.len = s.len + 1
    BY <1>5, <1>8 DEF Round, jj
  <2>2. CASE t.len = 1
    <3>1. Block(a, b, i, j, 1, b1, i + 1, b2, e2)
      BY <1>1, <1>2, <2>1, BlockOfOne
    <3>2. i + 1 - t.len = i /\ j + 1 - t.len = j
      BY <1>1, <1>2, <2>2
    <3> QED
      BY <2>2, <3>1, <3>2
  <2>3. CASE s.len > 0 /\ jj + 1 = j /\ t.len = s.len + 1
    <3> DEFINE x == i - s.len
               y == jj + 1 - s.len
    <3>1. Block(a, b, x, y, s.len, b1, i, b2, e2)
      BY <1>3, <2>3
    <3>2. jj \in Nat
      <4>1. n - 1 > 0
        BY <1>3, <2>3
      <4>2. i - 1 \in Indices(a)
        BY <1>1, <4>1 DEF Indices, Comparable
      <4> QED
        BY <4>2 DEF Comparable, Indices, jj
    <3>3. jj \in Int /\ jj + 1 = j /\ s.len \in Int /\ s.len > 0 /\ t.len = s.len + 1
      BY <1>4, <2>3, <3>2
    <3>4. /\ x + s.len = i /\ y + s.len = j /\ j < e2
          /\ x = i + 1 - t.len /\ y = j + 1 - t.len
      <4>1. i \in Int /\ j \in Int /\ j < e2
        BY <1>1, <1>2, <2>1
      <4> QED
        BY ONLY <3>3, <4>1
    <3> HIDE DEF x, y
    <3>5. Block(a, b, x, y, s.len + 1, b1, i + 1, b2, e2)
      BY <1>1, <1>2, <3>1, <3>4, BlockOfOneMore
    <3> QED
      BY <2>3, <3>4, <3>5
  <2> QED
    BY <2>1, <2>2, <2>3
<1>9. t.len >= 0 /\ t.size >= 0
  <2>1. t.len = 0 \/ t.len = 1 \/ t.len = s.len + 1
    BY <1>5 DEF Round
  <2>2. t.size = s.size \/ t.size = t.len
    BY <1>5 DEF Round, SameBest
  <2> QED
    BY <1>3, <1>4, <2>1, <2>2
<1>10. t.size > 0 => Block(a, b, t.i, t.j, t.size, b1, i + 1, b2, e2)
  <2>1. CASE SameBest(t, s)
    BY <1>7, <2>1 DEF SameBest
  <2>2. CASE t.i = i - t.len + 1 /\ t.j = j - t.len + 1 /\ t.size = t.len
    <3>1. t.i = i + 1 - t.len /\ t.j = j + 1 - t.len
      BY SMTT(30), <1>1, <1>2, <1>6, <2>2
    <3> QED
      BY <1>8, <2>2, <3>1
  <2> QED
    BY <1>5, <2>1, <2>2 DEF Round
<1>11. MatchInv(t, n, a, b, b1, b2, e2)
  <2>1. b1 + n = i + 1 /\ b1 + n - 1 = i /\ n > 0
    BY <1>1
  <2>2. j = Place(b, At(a, b1 + n - 1))
    BY <2>1 DEF j
  <2>3. t.len > 0 => Block(a, b, b1 + n - t.len, Place(b, At(a, b1 + n - 1)) + 1 - t.len, t.len,
                           b1, b1 + n, b2, e2)
    <3>1. t.len > 0 => Block(a, b, i + 1 - t.len, j + 1 - t.len, t.len, b1, i + 1, b2, e2)
      BY <1>8
    <3>2. b1 + n - t.len = i + 1 - t.len
      BY ONLY <1>6, <2>1, i \in Int, b1 \in Nat, n \in Nat
    <3>3. Place(b, At(a, b1 + n - 1)) + 1 - t.len = j + 1 - t.len
      BY <2>2
    <3> QED
      BY ONLY <2>1, <3>1, <3>2, <3>3
  <2> QED
    BY <1>5, <1>9, <1>10, <2>1, <2>3 DEF MatchInv
<1> QED
  BY <1>11 DEF t, i

\* The loop of find_longest_match.
MatchRun(f, a, b, b1, e1, b2, e2, mod) ==
    /\ f[0] = [i |-> b1, j |-> b2, size |-> 0, len |-> 0, few |-> 0]
    /\ \A n \in 1 .. e1 - b1 : f[n] = MatchOne(f[n - 1], a, b, b1 + n - 1, b2, e2, mod)
    /\ LongestMatch(a, b, b1, e1, b2, e2, mod) = f[e1 - b1]

\* It is a loop over the window of a.
LEMMA MatchSteps ==
    ASSUME NEW a, NEW b, Comparable(a, b), NEW b1 \in Nat, NEW e1 \in Nat, b1 <= e1, e1 <= Len(a),
           NEW b2 \in Nat, NEW e2 \in Nat, NEW mod \in IndexSet
    PROVE  \E f : MatchRun(f, a, b, b1, e1, b2, e2, mod)
<1> DEFINE N == e1 - b1
           s0 == [i |-> b1, j |-> b2, size |-> 0, len |-> 0, few |-> 0]
           One(s, n) == MatchOne(s, a, b, b1 + n - 1, b2, e2, mod)
           G == [p \in MatchState \X (1 .. N) |-> One(p[1], p[2])]
           Runs(g) == g = [n \in 0 .. N |-> IF n = 0 THEN s0 ELSE One(g[n - 1], n)]
           R == CHOOSE g : Runs(g)
<1>1. N \in Nat /\ s0 \in MatchState
  BY DEF MatchState
<1>2. ASSUME NEW s \in MatchState, NEW n \in 1 .. N PROVE One(s, n) \in MatchState
  <2>1. b1 + n - 1 \in Indices(a) /\ b1 + n - 1 \in Int
    BY DEF Comparable, Indices
  <2>2. Place(b, At(a, b1 + n - 1)) \in Nat
    BY <2>1 DEF Comparable, Indices
  <2> QED
    BY <2>1, <2>2, MatchCases
<1>3. G \in [MatchState \X (1 .. N) -> MatchState]
  <2> HIDE DEF One
  <2> QED
    BY <1>2
<1>4. LongestMatch(a, b, b1, e1, b2, e2, mod) = R[N]
  BY DEF LongestMatch, MatchOne
<1> HIDE DEF One, s0
<1>5. PICK f : RunOf(f, N, MatchState, s0, G)
  <2> HIDE DEF N, G
  <2> QED
    BY <1>1, <1>3, Recursion
<1>6. f \in [0 .. N -> MatchState] /\ f[0] = s0 /\ \A n \in 1 .. N : f[n] = G[<<f[n - 1], n>>]
  BY <1>5 DEF RunOf
<1>7. \A n \in 1 .. N : f[n - 1] \in MatchState /\ f[n] = One(f[n - 1], n)
  <2> SUFFICES ASSUME NEW n \in 1 .. N
               PROVE  f[n - 1] \in MatchState /\ f[n] = One(f[n - 1], n)
    OBVIOUS
  <2>1. n - 1 \in 0 .. N
    BY <1>1
  <2>2. f[n - 1] \in MatchState /\ <<f[n - 1], n>> \in MatchState \X (1 .. N)
    BY <1>6, <2>1
  <2> QED
    BY <1>6, <2>2
<1> HIDE DEF G
<1>8. Runs(f)
  <2>1. f = [n \in 0 .. N |-> f[n]]
    BY <1>6
  <2>2. ASSUME NEW n \in 0 .. N
        PROVE  f[n] = IF n = 0 THEN s0 ELSE One(f[n - 1], n)
    <3>1. n = 0 \/ (n \in 1 .. N /\ n # 0)
      BY <1>1
    <3> QED
      BY <1>6, <1>7, <3>1
  <2> HIDE DEF N
  <2> QED
    BY <2>1, <2>2
<1>9. Runs(R)
  <2> HIDE DEF Runs
  <2> QED
    BY <1>8
<1>10. R[0] = s0 /\ \A n \in 1 .. N : R[n] = One(R[n - 1], n)
  <2> HIDE DEF R
  <2>1. R[0] = s0
    BY <1>1, <1>9
  <2>2. ASSUME NEW n \in 1 .. N PROVE R[n] = One(R[n - 1], n)
    <3>1. n \in 0 .. N /\ n # 0
      BY <1>1
    <3> HIDE DEF N
    <3> QED
      BY <1>9, <3>1
  <2> QED
    BY <2>1, <2>2
<1> HIDE DEF R
<1> QED
  BY <1>4, <1>10 DEF MatchRun, One, s0

\* find_longest_match returns a block of the window, or an empty one.
LEMMA LongestMatchFacts ==
    ASSUME NEW a, NEW b, Comparable(a, b), NEW b1 \in Nat, NEW e1 \in Nat, b1 <= e1, e1 <= Len(a),
           NEW b2 \in Nat, NEW e2 \in Nat, NEW mod \in IndexSet,
           NEW m, m = LongestMatch(a, b, b1, e1, b2, e2, mod)
    PROVE  /\ m \in MatchState /\ m.size >= 0
           /\ m.size > 0 => Block(a, b, m.i, m.j, m.size, b1, e1, b2, e2)
<1> DEFINE N == e1 - b1
<1>1. N \in Nat /\ Len(a) \in Nat
  BY DEF Comparable
<1>2. PICK f : MatchRun(f, a, b, b1, e1, b2, e2, mod)
  BY MatchSteps
<1> DEFINE P == {n \in 0 .. N : MatchInv(f[n], n, a, b, b1, b2, e2)}
<1>3. 0 \in P
  <2>1. f[0] = [i |-> b1, j |-> b2, size |-> 0, len |-> 0, few |-> 0]
    BY <1>2 DEF MatchRun
  <2>2. f[0] \in MatchState /\ f[0].size = 0 /\ f[0].len = 0
    BY <2>1 DEF MatchState
  <2>3. ~(f[0].size > 0) /\ ~(f[0].len > 0) /\ f[0].size >= 0 /\ f[0].len >= 0
    BY <2>2
  <2>4. MatchInv(f[0], 0, a, b, b1, b2, e2)
    BY <2>2, <2>3 DEF MatchInv
  <2> QED
    BY <1>1, <2>4
<1>4. ASSUME NEW n \in 1 .. N, n - 1 \in P PROVE n \in P
  <2>1. n \in Nat \ {0} /\ b1 + n <= Len(a) /\ n \in 0 .. N
    BY <1>1
  <2>2. MatchInv(f[n - 1], n - 1, a, b, b1, b2, e2)
    BY <1>4
  <2>3. f[n] = MatchOne(f[n - 1], a, b, b1 + n - 1, b2, e2, mod)
    BY <1>2 DEF MatchRun
  <2>4. MatchInv(f[n], n, a, b, b1, b2, e2)
    BY <2>1, <2>2, <2>3, MatchKeeps
  <2> QED
    BY <2>1, <2>4
<1>5. N \in P
  <2> HIDE DEF N, P
  <2> QED
    BY <1>1, <1>3, <1>4, UpTo
<1>6. m = f[N] /\ b1 + N = e1
  BY <1>1, <1>2 DEF MatchRun
<1>7. MatchInv(m, N, a, b, b1, b2, e2)
  BY <1>5, <1>6
<1> HIDE DEF N
<1> QED
  BY <1>6, <1>7 DEF MatchInv

\* The recursion G only goes down in size.
Descends(G, W, T, size, N) ==
    /\ size \in [W -> Nat] /\ \A w \in W : size[w] <= N
    /\ G \in [[W -> T] \X W -> T]
    /\ \A f, g \in [W -> T] : \A w \in W :
           (\A v \in W : size[v] < size[w] => f[v] = g[v]) => G[<<f, w>>] = G[<<g, w>>]

\* f is a solution of it.
Solves(f, G, W, T) == f \in [W -> T] /\ \A w \in W : f[w] = G[<<f, w>>]

\* It has one.
LEMMA Fixpoint ==
    ASSUME NEW W, NEW T, NEW none \in T, NEW size, NEW N \in Nat, NEW G, Descends(G, W, T, size, N)
    PROVE  \E f : Solves(f, G, W, T)
<1>d. /\ size \in [W -> Nat] /\ \A w \in W : size[w] <= N
      /\ G \in [[W -> T] \X W -> T]
      /\ \A f, g \in [W -> T] : \A w \in W :
             (\A v \in W : size[v] < size[w] => f[v] = g[v]) => G[<<f, w>>] = G[<<g, w>>]
  BY DEF Descends
<1> DEFINE S == [W -> T]
           M == N + 2
           s0 == [w \in W |-> none]
           H == [p \in S \X (1 .. M) |-> [w \in W |-> G[<<p[1], w>>]]]
<1>1. s0 \in S /\ M \in Nat
  OBVIOUS
<1>2. H \in [S \X (1 .. M) -> S]
  <2> SUFFICES ASSUME NEW p \in S \X (1 .. M) PROVE [w \in W |-> G[<<p[1], w>>]] \in S
    OBVIOUS
  <2>1. p[1] \in S
    OBVIOUS
  <2> HIDE DEF S
  <2>2. \A w \in W : G[<<p[1], w>>] \in T
    BY <1>d, <2>1 DEF S
  <2> QED
    BY <2>2 DEF S
<1>3. PICK h : RunOf(h, M, S, s0, H)
  <2> HIDE DEF S, M, s0, H
  <2> QED
    BY <1>1, <1>2, Recursion
<1>4. h \in [0 .. M -> S] /\ \A n \in 1 .. M : h[n] = H[<<h[n - 1], n>>]
  BY <1>3 DEF RunOf
<1>5. ASSUME NEW n \in 1 .. M, NEW w \in W
      PROVE  h[n - 1] \in S /\ h[n] \in S /\ h[n][w] = G[<<h[n - 1], w>>]
  <2>1. n - 1 \in 0 .. M /\ n \in 0 .. M
    BY <1>1
  <2>2. h[n - 1] \in S /\ h[n] \in S
    BY <1>4, <2>1
  <2>3. h[n] = [v \in W |-> G[<<h[n - 1], v>>]]
    <3> HIDE DEF S, M
    <3> QED
      BY <1>4, <2>2
  <2> HIDE DEF S, M
  <2> QED
    BY <1>d, <2>2, <2>3
<1> HIDE DEF H
<1> DEFINE Fixed(n) == \A w \in W : size[w] < n => h[n + 1][w] = h[n][w]
           P == {n \in 0 .. N + 1 : Fixed(n)}
<1>6. 0 \in P
  <2>1. \A w \in W : ~(size[w] < 0)
    BY <1>d
  <2> QED
    BY <2>1
<1>7. ASSUME NEW n \in 1 .. N + 1, Fixed(n - 1) PROVE Fixed(n)
  <2> SUFFICES ASSUME NEW w \in W, size[w] < n PROVE h[n + 1][w] = h[n][w]
    OBVIOUS
  <2>1. n + 1 \in 1 .. M /\ n \in 1 .. M /\ (n + 1) - 1 = n /\ (n - 1) + 1 = n
    <3>1. n \in Int /\ 1 <= n /\ n <= N + 1 /\ M = N + 2
      OBVIOUS
    <3> HIDE DEF M
    <3> QED
      BY <3>1
  <2>2. h[n + 1][w] = G[<<h[n], w>>] /\ h[n][w] = G[<<h[n - 1], w>>] /\ h[n] \in S /\ h[n - 1] \in S
    <3> HIDE DEF M, S
    <3>1. h[n + 1][w] = G[<<h[(n + 1) - 1], w>>]
      BY <1>5, <2>1
    <3> QED
      BY <1>5, <2>1, <3>1
  <2>3. ASSUME NEW v \in W, size[v] < size[w] PROVE h[n][v] = h[n - 1][v]
    <3>1. size[v] \in Nat /\ size[w] \in Nat
      BY <1>d
    <3>2. size[v] < n - 1
      BY <2>3, <3>1
    <3> QED
      BY <1>7, <2>1, <3>2
  <2> HIDE DEF M
  <2>4. G[<<h[n], w>>] = G[<<h[n - 1], w>>]
    BY <1>d, <2>2, <2>3
  <2> QED
    BY <2>2, <2>4
<1>8. Fixed(N + 1)
  <2>1. \A n \in 1 .. N + 1 : n \in 0 .. N + 1 /\ (n - 1 \in P => Fixed(n - 1))
    OBVIOUS
  <2> HIDE DEF Fixed
  <2>2. \A n \in 1 .. N + 1 : n - 1 \in P => n \in P
    BY <1>7, <2>1
  <2> HIDE DEF P
  <2>3. N + 1 \in P
    BY <1>6, <2>2, N + 1 \in Nat, UpTo
  <2> QED
    BY <2>3 DEF P
<1> DEFINE f == h[N + 1]
<1>9. N + 2 \in 1 .. M /\ (N + 2) - 1 = N + 1 /\ (N + 1) + 1 = N + 2
  OBVIOUS
<1>10. f \in S
  BY <1>1, <1>4
<1>11. ASSUME NEW w \in W PROVE f[w] = G[<<f, w>>]
  <2>1. h[N + 2][w] = G[<<h[(N + 2) - 1], w>>]
    BY <1>5, <1>9
  <2>2. size[w] < N + 1
    BY <1>d
  <2>3. h[(N + 1) + 1][w] = h[N + 1][w]
    BY <1>8, <2>2
  <2> QED
    BY <1>9, <2>1, <2>3
<1> HIDE DEF f
<1>12. Solves(f, G, W, T)
  BY <1>10, <1>11 DEF Solves
<1> QED
  BY <1>12

-----------------------------------------------------------------------------
\* find_longest_matches

\* The windows that find_longest_matches goes into, and the ones on both sides of a match.
WindowsOf(a, b) == {v \in Windows(a, b) : v.b1 <= v.e1}
LeftOf(w, m) == [w EXCEPT !.e1 = m.i, !.e2 = m.j]
RightOf(w, m) == [w EXCEPT !.b1 = m.i + m.size, !.b2 = m.j + m.size]

\* What it finds in a window, when f is what it finds in the smaller ones.
MatchesIn(f, w, a, b, mod) ==
    LET m == LongestMatch(a, b, w.b1, w.e1, w.b2, w.e2, mod)
    IN  IF m.size = 0 THEN {}
        ELSE {m} \cup (IF m.i > w.b1 /\ m.j > w.b2 THEN f[LeftOf(w, m)] ELSE {})
                 \cup (IF m.i + m.size < w.e2 /\ m.j + m.size < w.e2 THEN f[RightOf(w, m)] ELSE {})

\* A window is bounded by the lengths.
LEMMA WindowParts ==
    ASSUME NEW a, NEW b, Comparable(a, b), NEW w \in WindowsOf(a, b)
    PROVE  /\ w.b1 \in Nat /\ w.e1 \in Nat /\ w.b2 \in Nat /\ w.e2 \in Nat
           /\ w.b1 <= w.e1 /\ w.e1 <= Len(a) /\ w.b2 <= Len(b) /\ w.e2 <= Len(b)
<1>1. /\ w.b1 \in 0 .. Len(a) /\ w.e1 \in 0 .. Len(a) /\ w.b2 \in 0 .. Len(b) /\ w.e2 \in 0 .. Len(b)
      /\ w.b1 <= w.e1
  BY DEF WindowsOf, Windows
<1>2. Len(a) \in Nat /\ Len(b) \in Nat
  BY DEF Comparable
<1> QED
  BY <1>1, <1>2

\* What is on both sides of a match are windows, too.
LEMMA Sides ==
    ASSUME NEW a, NEW b, Comparable(a, b), NEW w \in WindowsOf(a, b), NEW m,
           Block(a, b, m.i, m.j, m.size, w.b1, w.e1, w.b2, w.e2)
    PROVE  /\ LeftOf(w, m) \in WindowsOf(a, b) /\ RightOf(w, m) \in WindowsOf(a, b)
           /\ LeftOf(w, m) = [b1 |-> w.b1, e1 |-> m.i, b2 |-> w.b2, e2 |-> m.j]
           /\ RightOf(w, m) = [b1 |-> m.i + m.size, e1 |-> w.e1, b2 |-> m.j + m.size, e2 |-> w.e2]
<1>1. PICK x1, y1, x2, y2 : w = [b1 |-> x1, e1 |-> y1, b2 |-> x2, e2 |-> y2]
  BY DEF WindowsOf, Windows
<1>2. w.b1 = x1 /\ w.e1 = y1 /\ w.b2 = x2 /\ w.e2 = y2
  BY ONLY <1>1
<1>3. /\ x1 \in Nat /\ y1 \in Nat /\ x2 \in Nat /\ y2 \in Nat
      /\ x1 <= y1 /\ y1 <= Len(a) /\ x2 <= Len(b) /\ y2 <= Len(b)
  BY <1>2, WindowParts
<1>4. /\ m.i \in Nat /\ m.j \in Nat /\ m.size \in Nat
      /\ x1 <= m.i /\ m.i + m.size <= y1 /\ x2 <= m.j /\ m.j + m.size <= y2
  BY <1>2 DEF Block
<1> DEFINE l1 == [w EXCEPT !.e1 = m.i]
           l2 == [l1 EXCEPT !.e2 = m.j]
           r1 == [w EXCEPT !.b1 = m.i + m.size]
           r2 == [r1 EXCEPT !.b2 = m.j + m.size]
<1>5. LeftOf(w, m) = l2 /\ RightOf(w, m) = r2
  BY DEF LeftOf, RightOf
<1>6. l1 = [b1 |-> x1, e1 |-> m.i, b2 |-> x2, e2 |-> y2]
  BY ONLY <1>1
<1>7. r1 = [b1 |-> m.i + m.size, e1 |-> y1, b2 |-> x2, e2 |-> y2]
  BY ONLY <1>1
<1> HIDE DEF l1, r1
<1>8. l2 = [b1 |-> x1, e1 |-> m.i, b2 |-> x2, e2 |-> m.j]
  BY ONLY <1>6
<1>9. r2 = [b1 |-> m.i + m.size, e1 |-> y1, b2 |-> m.j + m.size, e2 |-> y2]
  BY ONLY <1>7
<1> HIDE DEF l2, r2
<1>10. Len(a) \in Nat /\ Len(b) \in Nat
  BY DEF Comparable
<1>11. ASSUME NEW p1 \in Nat, NEW q1 \in Nat, NEW p2 \in Nat, NEW q2 \in Nat,
              p1 <= q1, q1 <= Len(a), p2 <= Len(b), q2 <= Len(b)
       PROVE  [b1 |-> p1, e1 |-> q1, b2 |-> p2, e2 |-> q2] \in WindowsOf(a, b)
  <2> DEFINE v == [b1 |-> p1, e1 |-> q1, b2 |-> p2, e2 |-> q2]
  <2>1. p1 \in 0 .. Len(a) /\ q1 \in 0 .. Len(a) /\ p2 \in 0 .. Len(b) /\ q2 \in 0 .. Len(b)
    BY <1>10, <1>11
  <2>2. v \in Windows(a, b)
    BY <2>1 DEF Windows
  <2>3. v.b1 <= v.e1
    BY <1>11
  <2> QED
    BY <2>2, <2>3 DEF WindowsOf
<1>12. l2 \in WindowsOf(a, b)
  <2>1. x1 <= m.i /\ m.i <= Len(a) /\ m.j <= Len(b)
    BY <1>3, <1>4, <1>10
  <2> QED
    BY <1>3, <1>4, <1>8, <1>11, <2>1
<1>13. r2 \in WindowsOf(a, b)
  <2>1. m.i + m.size \in Nat /\ m.j + m.size \in Nat /\ m.i + m.size <= y1 /\ m.j + m.size <= Len(b)
    BY SMTT(30), <1>3, <1>4, <1>10
  <2> QED
    BY <1>3, <1>9, <1>11, <2>1
<1> QED
  BY <1>2, <1>5, <1>8, <1>9, <1>12, <1>13

\* One match comes before another in both lists.
Before(m, n) == m.i + m.size <= n.i /\ m.j + m.size <= n.j

\* Matches of a window: blocks of it, one after the other in both lists.
Matches(F, w, a, b) ==
    /\ \A m \in F : m.size > 0 /\ Block(a, b, m.i, m.j, m.size, w.b1, w.e1, w.b2, w.e2)
    /\ \A m, n \in F : m = n \/ Before(m, n) \/ Before(n, m)

\* f is what find_longest_matches finds in every window.
MatchesRun(f, a, b, mod) ==
    \A w \in WindowsOf(a, b) : f[w] = MatchesIn(f, w, a, b, mod)

\* The recursion has a solution, as the windows become smaller.
LEMMA MatchesSteps ==
    ASSUME NEW a, NEW b, Comparable(a, b), NEW mod \in IndexSet, NEW first
    PROVE  \E f : /\ MatchesRun(f, a, b, mod)
                  /\ LongestMatches(a, b, first, mod)
                       = f[[b1 |-> first, e1 |-> Len(a), b2 |-> first, e2 |-> Len(b)]]
<1> DEFINE W == WindowsOf(a, b)
           T == SUBSET MatchState
           In(f, w) == MatchesIn(f, w, a, b, mod)
           M(w) == LongestMatch(a, b, w.b1, w.e1, w.b2, w.e2, mod)
           size == [w \in W |-> w.e1 - w.b1]
           G == [p \in [W -> T] \X W |-> In(p[1], p[2])]
           Runs(f) == f = [w \in W |-> In(f, w)]
           R == CHOOSE f : Runs(f)
<1>1. LongestMatches(a, b, first, mod) = R[[b1 |-> first, e1 |-> Len(a), b2 |-> first, e2 |-> Len(b)]]
  BY DEF LongestMatches, MatchesIn, WindowsOf, LeftOf, RightOf
<1>2. Len(a) \in Nat /\ Len(b) \in Nat
  BY DEF Comparable
<1>3. ASSUME NEW w \in W
      PROVE  /\ M(w) \in MatchState /\ M(w).size \in Nat
             /\ M(w).size # 0 =>
                    /\ Block(a, b, M(w).i, M(w).j, M(w).size, w.b1, w.e1, w.b2, w.e2)
                    /\ LeftOf(w, M(w)) \in W /\ size[LeftOf(w, M(w))] < size[w]
                    /\ RightOf(w, M(w)) \in W /\ size[RightOf(w, M(w))] < size[w]
  <2> DEFINE m == M(w)
  <2>1. /\ w.b1 \in Nat /\ w.e1 \in Nat /\ w.b2 \in Nat /\ w.e2 \in Nat
        /\ w.b1 <= w.e1 /\ w.e1 <= Len(a)
    BY WindowParts
  <2>2. /\ m \in MatchState /\ m.size >= 0
        /\ m.size > 0 => Block(a, b, m.i, m.j, m.size, w.b1, w.e1, w.b2, w.e2)
    BY <2>1, LongestMatchFacts
  <2> HIDE DEF m, M
  <2>3. m.size \in Nat
    <3>1. m.size \in Int
      BY <2>2, MatchParts
    <3> QED
      BY <2>2, <3>1
  <2>4. ASSUME m.size # 0
        PROVE  /\ Block(a, b, m.i, m.j, m.size, w.b1, w.e1, w.b2, w.e2)
               /\ LeftOf(w, m) \in W /\ size[LeftOf(w, m)] < size[w]
               /\ RightOf(w, m) \in W /\ size[RightOf(w, m)] < size[w]
    <3>1. Block(a, b, m.i, m.j, m.size, w.b1, w.e1, w.b2, w.e2)
      BY <2>2, <2>3, <2>4
    <3>2. /\ LeftOf(w, m) \in W /\ RightOf(w, m) \in W
          /\ LeftOf(w, m) = [b1 |-> w.b1, e1 |-> m.i, b2 |-> w.b2, e2 |-> m.j]
          /\ RightOf(w, m) = [b1 |-> m.i + m.size, e1 |-> w.e1, b2 |-> m.j + m.size, e2 |-> w.e2]
      BY <3>1, Sides
    <3>3. /\ LeftOf(w, m).b1 = w.b1 /\ LeftOf(w, m).e1 = m.i
          /\ RightOf(w, m).b1 = m.i + m.size /\ RightOf(w, m).e1 = w.e1
      BY <3>2
    <3>4. /\ size[w] = w.e1 - w.b1 /\ size[LeftOf(w, m)] = m.i - w.b1
          /\ size[RightOf(w, m)] = w.e1 - (m.i + m.size)
      BY <3>2, <3>3
    <3>5. m.i \in Nat /\ m.i + m.size <= w.e1 /\ w.b1 <= m.i
      BY <3>1 DEF Block
    <3> HIDE DEF size, W
    <3> QED
      BY <2>1, <2>3, <2>4, <3>1, <3>2, <3>4, <3>5
  <2> QED
    BY <2>2, <2>3, <2>4 DEF m, M
<1>4. size \in [W -> Nat] /\ \A w \in W : size[w] <= Len(a)
  <2> SUFFICES ASSUME NEW w \in W PROVE w.e1 - w.b1 \in Nat /\ w.e1 - w.b1 <= Len(a)
    OBVIOUS
  <2> QED
    BY <1>2, WindowParts
<1>5. ASSUME NEW f, NEW w \in W
      PROVE  In(f, w) = IF M(w).size = 0 THEN {}
                        ELSE {M(w)} \cup (IF M(w).i > w.b1 /\ M(w).j > w.b2 THEN f[LeftOf(w, M(w))] ELSE {})
                                    \cup (IF M(w).i + M(w).size < w.e2 /\ M(w).j + M(w).size < w.e2
                                          THEN f[RightOf(w, M(w))] ELSE {})
  BY DEF MatchesIn
<1> HIDE DEF size, W, M, In, T
<1>6. G \in [[W -> T] \X W -> T]
  <2>1. ASSUME NEW f \in [W -> T], NEW w \in W PROVE In(f, w) \in T
    <3>1. M(w).size # 0 => f[LeftOf(w, M(w))] \in T /\ f[RightOf(w, M(w))] \in T
      BY <1>3
    <3> QED
      BY <1>3, <1>5, <3>1 DEF T
  <2> QED
    BY <2>1
<1>7. ASSUME NEW f \in [W -> T], NEW g \in [W -> T], NEW w \in W,
             \A v \in W : size[v] < size[w] => f[v] = g[v]
      PROVE  G[<<f, w>>] = G[<<g, w>>]
  <2>1. G[<<f, w>>] = In(f, w) /\ G[<<g, w>>] = In(g, w)
    OBVIOUS
  <2>2. M(w).size # 0 => f[LeftOf(w, M(w))] = g[LeftOf(w, M(w))] /\ f[RightOf(w, M(w))] = g[RightOf(w, M(w))]
    BY <1>3, <1>7
  <2>3. In(f, w) = In(g, w)
    BY <1>5, <2>2
  <2> QED
    BY <2>1, <2>3
<1>8. PICK f : Solves(f, G, W, T)
  <2>1. {} \in T
    BY DEF T
  <2> HIDE DEF G
  <2>2. Descends(G, W, T, size, Len(a))
    BY <1>4, <1>6, <1>7 DEF Descends
  <2> QED
    BY ONLY <1>2, <2>1, <2>2, Fixpoint
<1>9. Runs(f)
  <2>1. f \in [W -> T] /\ \A w \in W : f[w] = G[<<f, w>>]
    BY <1>8 DEF Solves
  <2>2. (\A w \in W : f[w] = In(f, w)) /\ f = [w \in W |-> f[w]]
    BY <2>1
  <2> QED
    BY <2>1, <2>2
<1>10. Runs(R)
  <2> HIDE DEF Runs
  <2> QED
    BY <1>9
<1> HIDE DEF R
<1>11. MatchesRun(R, a, b, mod)
  <2>1. \A w \in W : R[w] = In(R, w)
    BY <1>10
  <2> QED
    BY <2>1 DEF MatchesRun, W, In
<1> QED
  BY <1>1, <1>11

\* The matches of both sides, and the one between them, are matches of the window.
LEMMA MatchesOfSides ==
    ASSUME NEW a, NEW b, NEW w, w.b1 \in Nat, w.e1 \in Nat, w.b2 \in Nat, w.e2 \in Nat,
           NEW m, m.size > 0, Block(a, b, m.i, m.j, m.size, w.b1, w.e1, w.b2, w.e2),
           NEW l, l.b1 = w.b1, l.e1 = m.i, l.b2 = w.b2, l.e2 = m.j,
           NEW r, r.b1 = m.i + m.size, r.e1 = w.e1, r.b2 = m.j + m.size, r.e2 = w.e2,
           NEW F, NEW L, NEW R, F = {m} \cup L \cup R,
           L = {} \/ Matches(L, l, a, b), R = {} \/ Matches(R, r, a, b)
    PROVE  Matches(F, w, a, b)
<1>1. /\ m.i \in Nat /\ m.j \in Nat /\ m.size \in Nat
      /\ w.b1 <= m.i /\ m.i + m.size <= w.e1 /\ w.b2 <= m.j /\ m.j + m.size <= w.e2
  BY DEF Block
<1>2. ASSUME NEW x \in L
      PROVE  /\ x.size > 0 /\ Block(a, b, x.i, x.j, x.size, w.b1, w.e1, w.b2, w.e2)
             /\ x.i \in Nat /\ x.j \in Nat /\ x.size \in Nat
             /\ x.i + x.size <= m.i /\ x.j + x.size <= m.j
  <2>1. x.size > 0 /\ Block(a, b, x.i, x.j, x.size, w.b1, m.i, w.b2, m.j)
    BY DEF Matches
  <2>2. /\ x.i \in Nat /\ x.j \in Nat /\ x.size \in Nat /\ w.b1 <= x.i /\ w.b2 <= x.j
        /\ x.i + x.size <= m.i /\ x.j + x.size <= m.j
        /\ \A k \in Nat : k < x.size => At(a, x.i + k) = At(b, x.j + k)
    BY <2>1 DEF Block
  <2>3. x.i + x.size <= w.e1 /\ x.j + x.size <= w.e2
    BY <1>1, <2>2
  <2> QED
    BY <2>1, <2>2, <2>3 DEF Block
<1>3. ASSUME NEW x \in R
      PROVE  /\ x.size > 0 /\ Block(a, b, x.i, x.j, x.size, w.b1, w.e1, w.b2, w.e2)
             /\ x.i \in Nat /\ x.j \in Nat /\ x.size \in Nat
             /\ m.i + m.size <= x.i /\ m.j + m.size <= x.j
  <2>1. x.size > 0 /\ Block(a, b, x.i, x.j, x.size, m.i + m.size, w.e1, m.j + m.size, w.e2)
    BY DEF Matches
  <2>2. /\ x.i \in Nat /\ x.j \in Nat /\ x.size \in Nat
        /\ m.i + m.size <= x.i /\ m.j + m.size <= x.j
        /\ x.i + x.size <= w.e1 /\ x.j + x.size <= w.e2
        /\ \A k \in Nat : k < x.size => At(a, x.i + k) = At(b, x.j + k)
    BY <2>1 DEF Block
  <2>3. w.b1 <= x.i /\ w.b2 <= x.j
    BY <1>1, <2>2
  <2> QED
    BY <2>1, <2>2, <2>3 DEF Block
<1>4. \A x \in F : x \in L \/ x = m \/ x \in R
  OBVIOUS
<1>5. \A x \in F : x.size > 0 /\ Block(a, b, x.i, x.j, x.size, w.b1, w.e1, w.b2, w.e2)
  BY <1>2, <1>3, <1>4
<1>6. ASSUME NEW x \in L PROVE Before(x, m)
  BY <1>2 DEF Before
<1>7. ASSUME NEW x \in R PROVE Before(m, x)
  BY <1>3 DEF Before
<1>8. ASSUME NEW x \in L, NEW y \in R PROVE Before(x, y)
  <2>1. x.i + x.size <= y.i
    BY <1>1, <1>2, <1>3
  <2>2. x.j + x.size <= y.j
    BY <1>1, <1>2, <1>3
  <2> QED
    BY <2>1, <2>2 DEF Before
<1>9. \A x, y \in L : x = y \/ Before(x, y) \/ Before(y, x)
  BY DEF Matches
<1>10. \A x, y \in R : x = y \/ Before(x, y) \/ Before(y, x)
  BY DEF Matches
<1>11. \A x, y \in F : x = y \/ Before(x, y) \/ Before(y, x)
  BY <1>4, <1>6, <1>7, <1>8, <1>9, <1>10
<1> QED
  BY <1>5, <1>11 DEF Matches

\* find_longest_matches, in any two orders of the same rows: what it finds are blocks of
\* equal rows inside the window, one after the other in both lists.
THEOREM MatchesFound ==
    ASSUME NEW a, NEW b, Comparable(a, b), NEW mod \in IndexSet,
           NEW first \in Nat, first <= Len(a), first <= Len(b)
    PROVE  Matches(LongestMatches(a, b, first, mod),
                   [b1 |-> first, e1 |-> Len(a), b2 |-> first, e2 |-> Len(b)], a, b)
<1> DEFINE whole == [b1 |-> first, e1 |-> Len(a), b2 |-> first, e2 |-> Len(b)]
           W == WindowsOf(a, b)
<1>1. Len(a) \in Nat /\ Len(b) \in Nat
  BY DEF Comparable
<1>2. PICK f : MatchesRun(f, a, b, mod) /\ LongestMatches(a, b, first, mod) = f[whole]
  BY MatchesSteps
<1>3. whole \in W
  <2>1. first \in 0 .. Len(a) /\ Len(a) \in 0 .. Len(a) /\ first \in 0 .. Len(b) /\ Len(b) \in 0 .. Len(b)
    BY <1>1
  <2>2. whole \in Windows(a, b)
    BY <2>1 DEF Windows
  <2>3. whole.b1 <= whole.e1
    OBVIOUS
  <2> QED
    BY <2>2, <2>3 DEF WindowsOf
<1> DEFINE Below(n) == \A w \in W : w.e1 - w.b1 < n => Matches(f[w], w, a, b)
           P == {n \in 0 .. Len(a) + 1 : Below(n)}
<1> HIDE DEF whole
<1>4. \A w \in W : /\ w.b1 \in Nat /\ w.e1 \in Nat /\ w.b2 \in Nat /\ w.e2 \in Nat
                   /\ w.b1 <= w.e1 /\ w.e1 <= Len(a) /\ w.b2 <= Len(b) /\ w.e2 <= Len(b)
  BY WindowParts
<1> HIDE DEF W
<1>5. 0 \in P
  <2>1. \A w \in W : ~(w.e1 - w.b1 < 0)
    BY <1>4
  <2>2. 0 \in 0 .. Len(a) + 1
    BY <1>1
  <2> QED
    BY <2>1, <2>2
<1>6. ASSUME NEW n \in 1 .. Len(a) + 1, Below(n - 1) PROVE Below(n)
  <2> SUFFICES ASSUME NEW w \in W, w.e1 - w.b1 < n PROVE Matches(f[w], w, a, b)
    OBVIOUS
  <2> DEFINE m == LongestMatch(a, b, w.b1, w.e1, w.b2, w.e2, mod)
             l == LeftOf(w, m)
             r == RightOf(w, m)
             L == IF m.i > w.b1 /\ m.j > w.b2 THEN f[l] ELSE {}
             R == IF m.i + m.size < w.e2 /\ m.j + m.size < w.e2 THEN f[r] ELSE {}
  <2>1. f[w] = IF m.size = 0 THEN {} ELSE {m} \cup L \cup R
    BY <1>2 DEF MatchesRun, MatchesIn, W
  <2>2. /\ w.b1 \in Nat /\ w.e1 \in Nat /\ w.b2 \in Nat /\ w.e2 \in Nat
        /\ w.b1 <= w.e1 /\ w.e1 <= Len(a)
    BY <1>4
  <2>3. /\ m \in MatchState /\ m.size >= 0
        /\ m.size > 0 => Block(a, b, m.i, m.j, m.size, w.b1, w.e1, w.b2, w.e2)
    BY <2>2, LongestMatchFacts
  <2> HIDE DEF m
  <2>4. m.size \in Int
    BY <2>3, MatchParts
  <2>5. CASE m.size = 0
    BY <2>1, <2>5 DEF Matches
  <2>6. CASE m.size > 0
    <3>1. Block(a, b, m.i, m.j, m.size, w.b1, w.e1, w.b2, w.e2)
      BY <2>3, <2>6
    <3>2. /\ l \in W /\ r \in W
          /\ l = [b1 |-> w.b1, e1 |-> m.i, b2 |-> w.b2, e2 |-> m.j]
          /\ r = [b1 |-> m.i + m.size, e1 |-> w.e1, b2 |-> m.j + m.size, e2 |-> w.e2]
      BY <3>1, Sides DEF W
    <3> HIDE DEF l, r
    <3>3. /\ l.b1 = w.b1 /\ l.e1 = m.i /\ l.b2 = w.b2 /\ l.e2 = m.j
          /\ r.b1 = m.i + m.size /\ r.e1 = w.e1 /\ r.b2 = m.j + m.size /\ r.e2 = w.e2
      BY <3>2
    <3>4. m.i \in Nat /\ m.size \in Nat /\ m.i + m.size <= w.e1 /\ w.b1 <= m.i
      BY <3>1 DEF Block
    <3>5. l.e1 - l.b1 < n - 1 /\ r.e1 - r.b1 < n - 1
      <4>1. m.i - w.b1 < n - 1 /\ w.e1 - (m.i + m.size) < n - 1
        BY SMTT(30), <2>2, <2>6, <3>4
      <4> QED
        BY <3>3, <4>1
    <3>6. Matches(f[l], l, a, b) /\ Matches(f[r], r, a, b)
      BY <1>6, <3>2, <3>5
    <3>7. (L = {} \/ Matches(L, l, a, b)) /\ (R = {} \/ Matches(R, r, a, b))
      BY <3>6
    <3>8. f[w] = {m} \cup L \cup R
      BY <2>1, <2>6
    <3> HIDE DEF L, R
    <3> QED
      BY <2>2, <2>6, <3>1, <3>3, <3>7, <3>8, MatchesOfSides
  <2> QED
    BY <2>3, <2>4, <2>5, <2>6
<1>7. Below(Len(a) + 1)
  <2>1. \A n \in 1 .. Len(a) + 1 : n \in 0 .. Len(a) + 1
    BY <1>1
  <2> HIDE DEF Below
  <2>2. \A n \in 1 .. Len(a) + 1 : n - 1 \in P => n \in P
    BY <1>6, <2>1
  <2>3. Len(a) + 1 \in Nat
    BY <1>1
  <2> HIDE DEF P
  <2>4. Len(a) + 1 \in P
    BY <1>5, <2>2, <2>3, UpTo
  <2> QED
    BY <2>4 DEF P
<1>8. whole.e1 - whole.b1 < Len(a) + 1
  BY <1>1, <1>3, <1>4
<1>9. Matches(f[whole], whole, a, b)
  BY <1>3, <1>7, <1>8
<1> QED
  BY <1>2, <1>9 DEF whole

-----------------------------------------------------------------------------
\* calculate_moves_sorted

\* A row of a and one of b that calculate_moves_sorted takes for the same, and leaves:
\* before the first difference, or at the same place of a match.
IsKept(p, q, first, F) ==
    \/ p < first /\ q = p
    \/ \E m \in F : \E k \in Nat : k < m.size /\ p = m.i + k /\ q = m.j + k
KeptPairs(first, F) == {z \in Nat \X Nat : IsKept(z[1], z[2], first, F)}

\* The others.
LeftOutOfA(a, first, F) ==
    {n \in Indices(a) : n >= first /\ \A m \in F : n \notin m.i .. m.i + m.size - 1}
LeftOutOfB(b, first, F) ==
    {n \in Indices(b) : n >= first /\ \A m \in F : n \notin m.j .. m.j + m.size - 1}

\* The elements of a block are between its ends.
LEMMA WithinBlock ==
    ASSUME NEW i \in Nat, NEW n \in Nat, NEW k \in Nat, k < n, NEW l \in Nat, i + n <= l
    PROVE  i <= i + k /\ i + k < i + n /\ i + k < l
  OBVIOUS

\* What is known of matches behind the first difference.
Behind(first, F, a, b) ==
    Matches(F, [b1 |-> first, e1 |-> Len(a), b2 |-> first, e2 |-> Len(b)], a, b)

\* What that says, match by match.
LEMMA BehindFacts ==
    ASSUME NEW a, NEW b, NEW first, NEW F, Behind(first, F, a, b)
    PROVE  /\ \A m \in F : /\ m.i \in Nat /\ m.j \in Nat /\ m.size \in Nat
                           /\ first <= m.i /\ m.i + m.size <= Len(a)
                           /\ first <= m.j /\ m.j + m.size <= Len(b)
                           /\ \A k \in Nat : k < m.size => At(a, m.i + k) = At(b, m.j + k)
           /\ \A m, n \in F : \/ m = n
                              \/ m.i + m.size <= n.i /\ m.j + m.size <= n.j
                              \/ n.i + n.size <= m.i /\ n.j + n.size <= m.j
<1> DEFINE w == [b1 |-> first, e1 |-> Len(a), b2 |-> first, e2 |-> Len(b)]
<1>1. Matches(F, w, a, b) /\ w.b1 = first /\ w.e1 = Len(a) /\ w.b2 = first /\ w.e2 = Len(b)
  BY DEF Behind
<1> HIDE DEF w
<1>2. \A m \in F : Block(a, b, m.i, m.j, m.size, first, Len(a), first, Len(b))
  BY <1>1 DEF Matches
<1>3. \A m, n \in F : m = n \/ Before(m, n) \/ Before(n, m)
  BY <1>1 DEF Matches
<1> QED
  BY <1>2, <1>3 DEF Block, Before

\* Two rows that are kept are in the same order in both.
LEMMA KeptInOrder ==
    ASSUME NEW a, NEW b, NEW first \in Nat, NEW F, Behind(first, F, a, b),
           NEW p \in Nat, NEW q \in Nat, IsKept(p, q, first, F),
           NEW u \in Nat, NEW v \in Nat, IsKept(u, v, first, F)
    PROVE  p < u <=> q < v
<1>1. /\ \A m \in F : /\ m.i \in Nat /\ m.j \in Nat /\ m.size \in Nat
                      /\ first <= m.i /\ first <= m.j
      /\ \A m, n \in F : \/ m = n
                         \/ m.i + m.size <= n.i /\ m.j + m.size <= n.j
                         \/ n.i + n.size <= m.i /\ n.j + n.size <= m.j
  BY BehindFacts
<1>2. CASE p < first /\ q = p /\ u < first /\ v = u
  BY <1>2
<1>3. ASSUME p < first /\ q = p, NEW m \in F, NEW k \in Nat, k < m.size, u = m.i + k, v = m.j + k
      PROVE  p < u /\ q < v
  BY <1>1, <1>3
<1>4. ASSUME u < first /\ v = u, NEW m \in F, NEW k \in Nat, k < m.size, p = m.i + k, q = m.j + k
      PROVE  ~(p < u) /\ ~(q < v)
  BY <1>1, <1>4
<1>5. ASSUME NEW m \in F, NEW k \in Nat, k < m.size, p = m.i + k, q = m.j + k,
             NEW n \in F, NEW l \in Nat, l < n.size, u = n.i + l, v = n.j + l
      PROVE  p < u <=> q < v
  <2>1. CASE m = n
    BY <1>1, <1>5, <2>1
  <2>2. CASE m.i + m.size <= n.i /\ m.j + m.size <= n.j
    BY <1>1, <1>5, <2>2
  <2>3. CASE n.i + n.size <= m.i /\ n.j + n.size <= m.j
    BY <1>1, <1>5, <2>3
  <2> QED
    BY <1>1, <2>1, <2>2, <2>3
<1>6. \/ p < first /\ q = p
      \/ \E m \in F : \E k \in Nat : k < m.size /\ p = m.i + k /\ q = m.j + k
  BY DEF IsKept
<1>7. \/ u < first /\ v = u
      \/ \E m \in F : \E k \in Nat : k < m.size /\ u = m.i + k /\ v = m.j + k
  BY DEF IsKept
<1> QED
  BY <1>2, <1>3, <1>4, <1>5, <1>6, <1>7

\* The rows that are kept are all but those that are left out, and the same.
LEMMA KeptPairing ==
    ASSUME NEW a, NEW b, Len(a) \in Nat, Len(b) = Len(a), NEW first \in Nat, first <= Len(a),
           \A i \in Nat : i < first => At(a, i) = At(b, i), NEW F, Behind(first, F, a, b)
    PROVE  /\ Pairing(KeptPairs(first, F), Len(a), LeftOutOfA(a, first, F),
                      Len(b), LeftOutOfB(b, first, F))
           /\ SameRows(KeptPairs(first, F), a, b)
<1> DEFINE K == KeptPairs(first, F)
           A == LeftOutOfA(a, first, F)
           B == LeftOutOfB(b, first, F)
<1>1. \A m \in F : /\ m.i \in Nat /\ m.j \in Nat /\ m.size \in Nat
                   /\ first <= m.i /\ m.i + m.size <= Len(a)
                   /\ first <= m.j /\ m.j + m.size <= Len(b)
                   /\ \A k \in Nat : k < m.size => At(a, m.i + k) = At(b, m.j + k)
  BY BehindFacts
<1>2. \A x, y : <<x, y>> \in K <=> x \in Nat /\ y \in Nat /\ IsKept(x, y, first, F)
  BY DEF KeptPairs
<1>3. /\ \A x : x \in A <=> /\ x \in Nat /\ x < Len(a) /\ x >= first
                            /\ \A m \in F : ~(m.i <= x /\ x < m.i + m.size)
      /\ \A x : x \in B <=> /\ x \in Nat /\ x < Len(a) /\ x >= first
                            /\ \A m \in F : ~(m.j <= x /\ x < m.j + m.size)
  <2>1. ASSUME NEW x \in Nat, NEW i \in Nat, NEW n \in Nat
        PROVE  x \in i .. i + n - 1 <=> i <= x /\ x < i + n
    OBVIOUS
  <2>2. \A x : x \in Indices(a) <=> x \in Nat /\ x < Len(a)
    BY DEF Indices
  <2>3. \A x : x \in Indices(b) <=> x \in Nat /\ x < Len(a)
    BY DEF Indices
  <2>4. \A x : x \in A <=> /\ x \in Nat /\ x < Len(a) /\ x >= first
                           /\ \A m \in F : ~(m.i <= x /\ x < m.i + m.size)
    BY <1>1, <2>1, <2>2 DEF LeftOutOfA
  <2>5. \A x : x \in B <=> /\ x \in Nat /\ x < Len(a) /\ x >= first
                           /\ \A m \in F : ~(m.j <= x /\ x < m.j + m.size)
    BY <1>1, <2>1, <2>3 DEF LeftOutOfB
  <2> QED
    BY <2>4, <2>5
<1> HIDE DEF K, A, B
<1>4. ASSUME NEW x \in Nat, NEW y \in Nat, IsKept(x, y, first, F)
      PROVE  x < Len(a) /\ x \notin A /\ y < Len(b) /\ y \notin B /\ At(a, x) = At(b, y)
  <2>1. CASE x < first /\ y = x
    BY <1>3, <2>1
  <2>2. CASE \E m \in F : \E k \in Nat : k < m.size /\ x = m.i + k /\ y = m.j + k
    <3>1. PICK m \in F, k \in Nat : k < m.size /\ x = m.i + k /\ y = m.j + k
      BY <2>2
    <3>2. /\ m.i <= x /\ x < m.i + m.size /\ m.j <= y /\ y < m.j + m.size
          /\ x < Len(a) /\ y < Len(b)
      <4>1. /\ m.i \in Nat /\ m.size \in Nat /\ m.i + m.size <= Len(a)
            /\ m.j \in Nat /\ m.j + m.size <= Len(b)
        BY <1>1
      <4>2. x = m.i + k /\ y = m.j + k /\ k < m.size
        BY <3>1
      <4>3. m.i <= x /\ x < m.i + m.size /\ x < Len(a)
        BY <4>1, <4>2, WithinBlock
      <4>4. m.j <= y /\ y < m.j + m.size /\ y < Len(b)
        BY <4>1, <4>2, WithinBlock
      <4> QED
        BY <4>3, <4>4
    <3>3. At(a, x) = At(b, y)
      BY <1>1, <3>1
    <3>4. x \notin A /\ y \notin B
      BY <1>3, <3>2
    <3> QED
      BY <3>2, <3>3, <3>4
  <2> QED
    BY <1>4, <2>1, <2>2 DEF IsKept
<1>5. ASSUME NEW x \in Nat, x < Len(a), x \notin A PROVE \E y : <<x, y>> \in K
  <2>1. CASE x < first
    <3>1. IsKept(x, x, first, F)
      BY <2>1 DEF IsKept
    <3> QED
      BY <1>2, <3>1
  <2>2. CASE ~(x < first)
    <3>1. PICK m \in F : m.i <= x /\ x < m.i + m.size
      BY <1>3, <1>5, <2>2
    <3> DEFINE k == x - m.i
    <3>2. k \in Nat /\ k < m.size /\ x = m.i + k /\ m.j + k \in Nat
      BY SMTT(30), <1>1, <3>1
    <3>3. IsKept(x, m.j + k, first, F)
      BY <3>2 DEF IsKept
    <3> QED
      BY <1>2, <3>2, <3>3
  <2> QED
    BY <2>1, <2>2
<1>6. ASSUME NEW y \in Nat, y < Len(b), y \notin B PROVE \E x : <<x, y>> \in K
  <2>1. CASE y < first
    <3>1. IsKept(y, y, first, F)
      BY <2>1 DEF IsKept
    <3> QED
      BY <1>2, <3>1
  <2>2. CASE ~(y < first)
    <3>1. PICK m \in F : m.j <= y /\ y < m.j + m.size
      BY <1>3, <1>6, <2>2
    <3> DEFINE k == y - m.j
    <3>2. k \in Nat /\ k < m.size /\ y = m.j + k /\ m.i + k \in Nat
      BY <1>1, <3>1
    <3>3. IsKept(m.i + k, y, first, F)
      BY <3>2 DEF IsKept
    <3> QED
      BY <1>2, <3>2, <3>3
  <2> QED
    BY <2>1, <2>2
<1>7. \A x, y, u, v : <<x, y>> \in K /\ <<u, v>> \in K => (x < u <=> y < v)
  BY <1>2, KeptInOrder
<1>8. Pairing(K, Len(a), A, Len(b), B)
  BY ZenonT(60), <1>2, <1>4, <1>5, <1>6, <1>7 DEF Pairing
<1>9. SameRows(K, a, b)
  BY <1>2, <1>4 DEF SameRows
<1> QED
  BY <1>8, <1>9 DEF K, A, B

\* del are the indices of old whose row is not in new, and those from leads A to.
LeavesOut(del, old, new, from, A) ==
    del = {i \in Indices(old) : At(old, i) \notin ToSet(new)} \cup {from[i + 1] : i \in A}

\* The rows of old and new that are not left out can be paired.
CanPair(old, del, new, ins) ==
    \E M : Pairing(M, Len(old), del, Len(new), ins) /\ SameRows(M, old, new)

\* Rows of old and new, of which those in a and b are in both, are paired when the rows
\* of a and b are.
LEMMA SelectedPairing ==
    ASSUME NEW old, NEW new, Len(old) \in Nat, Len(new) \in Nat,
           NEW a, Len(a) \in Nat, NEW from, Selected(a, old, new, from),
           NEW b, Len(b) \in Nat, NEW to, Selected(b, new, old, to),
           NEW K, NEW A, NEW B, Pairing(K, Len(a), A, Len(b), B), SameRows(K, a, b),
           A \subseteq Indices(a), B \subseteq Indices(b),
           NEW del, LeavesOut(del, old, new, from, A), NEW ins, LeavesOut(ins, new, old, to, B)
    PROVE  CanPair(old, del, new, ins)
<1> DEFINE M == {z \in Indices(old) \X Indices(new) :
                     \E p, q : <<p, q>> \in K /\ z = <<from[p + 1], to[q + 1]>>}
<1>1. /\ \A x, y : <<x, y>> \in K => /\ x \in Nat /\ x < Len(a) /\ x \notin A
                                     /\ y \in Nat /\ y < Len(b) /\ y \notin B
      /\ \A x \in Nat : x < Len(a) /\ x \notin A => \E y : <<x, y>> \in K
      /\ \A y \in Nat : y < Len(b) /\ y \notin B => \E x : <<x, y>> \in K
      /\ \A x, y, u, v : <<x, y>> \in K /\ <<u, v>> \in K => (x < u <=> y < v)
  BY DEF Pairing
<1>2. /\ from \in [1 .. Len(a) -> Indices(old)]
      /\ \A p \in 1 .. Len(a) : a[p] = At(old, from[p]) /\ a[p] \in ToSet(new)
      /\ \A p, q \in 1 .. Len(a) : p < q => from[p] < from[q]
      /\ \A k \in Indices(old) : At(old, k) \in ToSet(new) => \E p \in 1 .. Len(a) : from[p] = k
  BY DEF Selected
<1>3. /\ to \in [1 .. Len(b) -> Indices(new)]
      /\ \A p \in 1 .. Len(b) : b[p] = At(new, to[p]) /\ b[p] \in ToSet(old)
      /\ \A p, q \in 1 .. Len(b) : p < q => to[p] < to[q]
      /\ \A k \in Indices(new) : At(new, k) \in ToSet(old) => \E p \in 1 .. Len(b) : to[p] = k
  BY DEF Selected
<1>4. /\ \A x : x \in Indices(old) <=> x \in Nat /\ x < Len(old)
      /\ \A y : y \in Indices(new) <=> y \in Nat /\ y < Len(new)
      /\ \A x : x \in Indices(a) <=> x \in Nat /\ x < Len(a)
      /\ \A y : y \in Indices(b) <=> y \in Nat /\ y < Len(b)
  BY DEF Indices
<1>d. /\ del = {i \in Indices(old) : At(old, i) \notin ToSet(new)} \cup {from[i + 1] : i \in A}
      /\ ins = {i \in Indices(new) : At(new, i) \notin ToSet(old)} \cup {to[i + 1] : i \in B}
  BY DEF LeavesOut
<1> DEFINE Fr(p) == from[p + 1]
           To(q) == to[q + 1]
<1>5. ASSUME NEW p \in Nat, p < Len(a)
      PROVE  /\ p + 1 \in 1 .. Len(a) /\ Fr(p) \in Indices(old) /\ At(old, Fr(p)) = At(a, p)
             /\ At(old, Fr(p)) \in ToSet(new)
  <2>1. p + 1 \in 1 .. Len(a)
    BY <1>5
  <2> QED
    BY <1>2, <2>1 DEF At
<1>6. ASSUME NEW q \in Nat, q < Len(b)
      PROVE  /\ q + 1 \in 1 .. Len(b) /\ To(q) \in Indices(new) /\ At(new, To(q)) = At(b, q)
             /\ At(new, To(q)) \in ToSet(old)
  <2>1. q + 1 \in 1 .. Len(b)
    BY <1>6
  <2> QED
    BY <1>3, <2>1 DEF At
<1>7. ASSUME NEW p \in Nat, p < Len(a), NEW u \in Nat, u < Len(a) PROVE p < u <=> Fr(p) < Fr(u)
  <2>1. p + 1 \in 1 .. Len(a) /\ u + 1 \in 1 .. Len(a) /\ Fr(p) \in Nat /\ Fr(u) \in Nat
    BY <1>4, <1>5, <1>7
  <2>2. (p < u => from[p + 1] < from[u + 1]) /\ (u < p => from[u + 1] < from[p + 1])
    BY <1>2, <2>1
  <2>3. p = u => Fr(p) = Fr(u)
    OBVIOUS
  <2> HIDE DEF Fr
  <2>4. (p < u => Fr(p) < Fr(u)) /\ (u < p => Fr(u) < Fr(p))
    BY <2>2 DEF Fr
  <2> QED
    BY <2>1, <2>3, <2>4
<1>8. ASSUME NEW p \in Nat, p < Len(b), NEW u \in Nat, u < Len(b) PROVE p < u <=> To(p) < To(u)
  <2>1. p + 1 \in 1 .. Len(b) /\ u + 1 \in 1 .. Len(b) /\ To(p) \in Nat /\ To(u) \in Nat
    BY <1>4, <1>6, <1>8
  <2>2. (p < u => to[p + 1] < to[u + 1]) /\ (u < p => to[u + 1] < to[p + 1])
    BY <1>3, <2>1
  <2>3. p = u => To(p) = To(u)
    OBVIOUS
  <2> HIDE DEF To
  <2>4. (p < u => To(p) < To(u)) /\ (u < p => To(u) < To(p))
    BY <2>2 DEF To
  <2> QED
    BY <2>1, <2>3, <2>4
<1> DEFINE Come(x, y) == \E p, q : <<p, q>> \in K /\ x = Fr(p) /\ y = To(q)
<1>9. \A x, y : <<x, y>> \in M <=> Come(x, y)
  <2>1. \A p, q : <<p, q>> \in K => Fr(p) \in Indices(old) /\ To(q) \in Indices(new)
    BY <1>1, <1>5, <1>6
  <2> QED
    BY <2>1
<1>10. \A p \in Nat : p < Len(a) => (Fr(p) \in del <=> p \in A)
  <2> SUFFICES ASSUME NEW p \in Nat, p < Len(a) PROVE Fr(p) \in del <=> p \in A
    OBVIOUS
  <2>1. Fr(p) \in del <=> \E i \in A : Fr(p) = Fr(i)
    BY <1>d, <1>5
  <2>2. ASSUME NEW i \in A, Fr(p) = Fr(i) PROVE i = p
    <3>1. i \in Nat /\ i < Len(a) /\ Fr(p) \in Nat
      BY <1>4, <1>5
    <3>2. ~(p < i) /\ ~(i < p)
      BY <1>7, <2>2, <3>1
    <3> QED
      BY <3>1, <3>2
  <2> HIDE DEF Fr
  <2> QED
    BY <2>1, <2>2
<1>11. \A q \in Nat : q < Len(b) => (To(q) \in ins <=> q \in B)
  <2> SUFFICES ASSUME NEW q \in Nat, q < Len(b) PROVE To(q) \in ins <=> q \in B
    OBVIOUS
  <2>1. To(q) \in ins <=> \E i \in B : To(q) = To(i)
    BY <1>d, <1>6
  <2>2. ASSUME NEW i \in B, To(q) = To(i) PROVE i = q
    <3>1. i \in Nat /\ i < Len(b) /\ To(q) \in Nat
      BY <1>4, <1>6
    <3>2. ~(q < i) /\ ~(i < q)
      BY <1>8, <2>2, <3>1
    <3> QED
      BY <3>1, <3>2
  <2> HIDE DEF To
  <2> QED
    BY <2>1, <2>2
<1>12. \A x \in Nat : x < Len(old) /\ x \notin del => \E p \in Nat : p < Len(a) /\ x = Fr(p)
  <2> SUFFICES ASSUME NEW x \in Nat, x < Len(old), x \notin del
               PROVE  \E p \in Nat : p < Len(a) /\ x = Fr(p)
    OBVIOUS
  <2>1. PICK n \in 1 .. Len(a) : from[n] = x
    BY <1>d, <1>2, <1>4
  <2>2. n - 1 \in Nat /\ n - 1 < Len(a) /\ (n - 1) + 1 = n
    OBVIOUS
  <2>3. x = Fr(n - 1)
    BY <2>1, <2>2
  <2> QED
    BY <2>2, <2>3
<1>13. \A y \in Nat : y < Len(new) /\ y \notin ins => \E q \in Nat : q < Len(b) /\ y = To(q)
  <2> SUFFICES ASSUME NEW y \in Nat, y < Len(new), y \notin ins
               PROVE  \E q \in Nat : q < Len(b) /\ y = To(q)
    OBVIOUS
  <2>1. PICK n \in 1 .. Len(b) : to[n] = y
    BY <1>d, <1>3, <1>4
  <2>2. n - 1 \in Nat /\ n - 1 < Len(b) /\ (n - 1) + 1 = n
    OBVIOUS
  <2>3. y = To(n - 1)
    BY <2>1, <2>2
  <2> QED
    BY <2>2, <2>3
<1> HIDE DEF M, Fr, To, Come
<1>14. ASSUME NEW x, NEW y, <<x, y>> \in M
       PROVE  Come(x, y)
  BY <1>9, <1>14
<1>15. ASSUME NEW p, NEW q, <<p, q>> \in K PROVE <<Fr(p), To(q)>> \in M
  <2>1. Come(Fr(p), To(q))
    BY <1>15 DEF Come
  <2> QED
    BY <1>9, <2>1
<1>16. \A x, y : <<x, y>> \in M => /\ x \in Nat /\ x < Len(old) /\ x \notin del
                                   /\ y \in Nat /\ y < Len(new) /\ y \notin ins
                                   /\ At(old, x) = At(new, y)
  <2> SUFFICES ASSUME NEW x, NEW y, <<x, y>> \in M
               PROVE  /\ x \in Nat /\ x < Len(old) /\ x \notin del
                      /\ y \in Nat /\ y < Len(new) /\ y \notin ins
                      /\ At(old, x) = At(new, y)
    OBVIOUS
  <2>1. PICK p \in Nat, q \in Nat : <<p, q>> \in K /\ x = Fr(p) /\ y = To(q)
    <3>1. Come(x, y)
      BY <1>14
    <3> QED
      BY <1>1, <3>1 DEF Come
  <2>2. p \in Nat /\ p < Len(a) /\ p \notin A /\ q \in Nat /\ q < Len(b) /\ q \notin B
    BY <1>1, <2>1
  <2>3. At(a, p) = At(b, q)
    BY <2>1 DEF SameRows
  <2> QED
    BY <1>4, <1>5, <1>6, <1>10, <1>11, <2>1, <2>2, <2>3
<1>17. \A x \in Nat : x < Len(old) /\ x \notin del => \E y : <<x, y>> \in M
  <2> SUFFICES ASSUME NEW x \in Nat, x < Len(old), x \notin del PROVE \E y : <<x, y>> \in M
    OBVIOUS
  <2>1. PICK p \in Nat : p < Len(a) /\ x = Fr(p)
    BY <1>12
  <2>2. p \notin A
    BY <1>10, <2>1
  <2>3. PICK q : <<p, q>> \in K
    BY <1>1, <2>1, <2>2
  <2> QED
    BY <1>15, <2>1, <2>3
<1>18. \A y \in Nat : y < Len(new) /\ y \notin ins => \E x : <<x, y>> \in M
  <2> SUFFICES ASSUME NEW y \in Nat, y < Len(new), y \notin ins PROVE \E x : <<x, y>> \in M
    OBVIOUS
  <2>1. PICK q \in Nat : q < Len(b) /\ y = To(q)
    BY <1>13
  <2>2. q \notin B
    BY <1>11, <2>1
  <2>3. PICK p : <<p, q>> \in K
    BY <1>1, <2>1, <2>2
  <2> QED
    BY <1>15, <2>1, <2>3
<1>19. ASSUME NEW p, NEW q, NEW u, NEW v, <<p, q>> \in K, <<u, v>> \in K
       PROVE  Fr(p) < Fr(u) <=> To(q) < To(v)
  <2>1. /\ p \in Nat /\ p < Len(a) /\ q \in Nat /\ q < Len(b)
        /\ u \in Nat /\ u < Len(a) /\ v \in Nat /\ v < Len(b)
    BY <1>1, <1>19
  <2>2. p < u <=> q < v
    BY <1>1, <1>19
  <2> QED
    BY <1>7, <1>8, <2>1, <2>2
<1>20. \A x, y, u, v : <<x, y>> \in M /\ <<u, v>> \in M => (x < u <=> y < v)
  <2> SUFFICES ASSUME NEW x, NEW y, NEW u, NEW v, <<x, y>> \in M, <<u, v>> \in M
               PROVE  x < u <=> y < v
    OBVIOUS
  <2>1. PICK p \in Nat, q \in Nat : <<p, q>> \in K /\ x = Fr(p) /\ y = To(q)
    <3>1. Come(x, y)
      BY <1>14
    <3> QED
      BY <1>1, <3>1 DEF Come
  <2>2. PICK m \in Nat, n \in Nat : <<m, n>> \in K /\ u = Fr(m) /\ v = To(n)
    <3>1. Come(u, v)
      BY <1>14
    <3> QED
      BY <1>1, <3>1 DEF Come
  <2> QED
    BY <1>19, <2>1, <2>2
<1>21. Pairing(M, Len(old), del, Len(new), ins)
  BY <1>16, <1>17, <1>18, <1>20 DEF Pairing
<1>22. SameRows(M, old, new)
  BY <1>16 DEF SameRows
<1> QED
  BY <1>21, <1>22 DEF CanPair

\* The rows that are in both, in the order of the old and of the new ones, and where
\* they are there.
SortedRows(old, new, a, b, from, to) ==
    /\ a \in Seq(Nat) /\ b \in Seq(Nat) /\ Len(a) \in Nat /\ Len(b) = Len(a)
    /\ Selected(a, old, new, from) /\ Selected(b, new, old, to) /\ Comparable(a, b)

\* Both lists have the same rows.
LEMMA SortedRowsExist ==
    ASSUME NEW old, NEW new, RowLists(old, new)
    PROVE  \E from, to : SortedRows(old, new, Both(new, old), Both(old, new), from, to)
<1> DEFINE a == Both(new, old)
           b == Both(old, new)
           X == {x \in Indices(old) : At(old, x) \in ToSet(new)}
<1>1. /\ old \in Seq(Nat \cup {Gone}) /\ new \in Seq(Nat)
      /\ \A j, k \in Indices(new) : At(new, j) = At(new, k) => j = k
      /\ \A j, k \in Indices(old) : At(old, j) = At(old, k) /\ At(old, j) # Gone => j = k
  BY DEF RowLists, Distinct
<1>2. \A e \in ToSet(new) : e \in Nat /\ e # Gone
  <2>1. \A e \in ToSet(new) : e \in Nat
    BY <1>1, InSequence
  <2> QED
    BY <2>1 DEF Gone
<1>3. \A j, k \in Indices(old) : At(old, j) = At(old, k) /\ At(old, j) \in ToSet(new) => j = k
  BY <1>1, <1>2
<1>4. a \in Seq(Nat \cup {Gone}) /\ \E h : Selected(a, old, new, h)
  BY <1>1, <1>3, BothFacts
<1>5. b \in Seq(Nat) /\ \E h : Selected(b, new, old, h)
  BY <1>1, BothFacts
<1>6. PICK f, t : Common(old, new, b, f, t)
  BY CommonRows
<1> HIDE DEF a, b
<1>7. PICK from : Selected(a, old, new, from)
  BY <1>4
<1>8. PICK to : Selected(b, new, old, to)
  BY <1>5
<1>9. /\ from \in [1 .. Len(a) -> Indices(old)]
      /\ \A p \in 1 .. Len(a) : a[p] = At(old, from[p]) /\ a[p] \in ToSet(new)
      /\ \A p, q \in 1 .. Len(a) : p < q => from[p] < from[q]
      /\ \A k \in Indices(old) : At(old, k) \in ToSet(new) => \E p \in 1 .. Len(a) : from[p] = k
  BY <1>7 DEF Selected
<1>10. /\ f \in [1 .. Len(b) -> Indices(old)]
       /\ \A n \in 1 .. Len(b) : At(old, f[n]) = b[n]
       /\ \A m, n \in 1 .. Len(b) : m # n => f[m] # f[n]
       /\ \A x \in Indices(old) : At(old, x) \in ToSet(new) => \E n \in 1 .. Len(b) : f[n] = x
       /\ t \in [1 .. Len(b) -> Indices(new)]
       /\ \A n \in 1 .. Len(b) : At(new, t[n]) = b[n]
       /\ \A m, n \in 1 .. Len(b) : m # n => t[m] # t[n]
  BY <1>6 DEF Common
<1>11. Len(a) \in Nat /\ Len(b) \in Nat
  BY <1>4, <1>5
<1>12. a \in Seq(Nat)
  <2>1. a \in [1 .. Len(a) -> Nat]
    <3>1. \A p \in 1 .. Len(a) : a[p] \in Nat
      BY <1>2, <1>9
    <3>2. DOMAIN a = 1 .. Len(a) /\ a = [p \in 1 .. Len(a) |-> a[p]]
      BY <1>4
    <3> QED
      BY <3>1, <3>2
  <2> QED
    BY <1>11, <2>1
<1>13. \A n \in 1 .. Len(b) : b[n] \in ToSet(new)
  <2> SUFFICES ASSUME NEW n \in 1 .. Len(b) PROVE b[n] \in ToSet(new)
    OBVIOUS
  <2>1. t[n] \in Indices(new) /\ At(new, t[n]) = b[n]
    BY <1>10
  <2> QED
    BY <1>1, <2>1, InSequence
<1>14. Len(b) = Len(a)
  <2>1. X = Places(from, 1 .. Len(a))
    BY <1>9 DEF Places
  <2>2. X = Places(f, 1 .. Len(b))
    BY <1>10, <1>13 DEF Places
  <2>3. \A p, q \in 1 .. Len(a) : p # q => from[p] # from[q]
    <3> SUFFICES ASSUME NEW p \in 1 .. Len(a), NEW q \in 1 .. Len(a), p # q PROVE from[p] # from[q]
      OBVIOUS
    <3>1. from[p] \in Nat /\ from[q] \in Nat
      BY SMTT(30), <1>1, <1>9 DEF Indices
    <3>2. p < q \/ q < p
      BY <1>11
    <3> QED
      BY <1>9, <3>1, <3>2
  <2>4. ASSUME NEW n \in Nat, NEW h, \A p, q \in 1 .. n : p # q => h[p] # h[q]
        PROVE  Cardinality(Places(h, 1 .. n)) = n
    <3>1. IsFiniteSet(1 .. n) /\ Cardinality(1 .. n) = n
      BY FS_Interval
    <3>2. Cardinality({h[p] : p \in 1 .. n}) = n
      BY <2>4, <3>1, ImageCount
    <3> QED
      BY <3>2 DEF Places
  <2>5. Cardinality(Places(from, 1 .. Len(a))) = Len(a)
    BY <1>11, <2>3, <2>4
  <2>6. Cardinality(Places(f, 1 .. Len(b))) = Len(b)
    BY <1>10, <1>11, <2>4
  <2> QED
    BY <2>1, <2>2, <2>5, <2>6
<1>15. ASSUME NEW i \in Indices(a)
       PROVE  Place(b, At(a, i)) \in Indices(b) /\ At(b, Place(b, At(a, i))) = At(a, i)
  <2>1. i + 1 \in 1 .. Len(a) /\ At(a, i) = a[i + 1]
    BY <1>11 DEF Indices, At
  <2>2. PICK n \in 1 .. Len(b) : f[n] = from[i + 1]
    BY <1>9, <1>10, <2>1
  <2>3. b[n] = At(a, i)
    BY <1>9, <1>10, <2>1, <2>2
  <2>4. n - 1 \in Indices(b) /\ At(b, n - 1) = b[n]
    <3>1. n - 1 \in 0 .. Len(b) - 1 /\ (n - 1) + 1 = n
      BY <1>11
    <3> QED
      BY <3>1 DEF Indices, At
  <2>5. ASSUME NEW k \in Indices(b), At(b, k) = At(b, n - 1) PROVE k = n - 1
    <3>1. k + 1 \in 1 .. Len(b) /\ b[k + 1] = b[n] /\ k \in Int
      BY <1>11, <2>4, <2>5 DEF Indices, At
    <3>2. t[k + 1] = t[n]
      <4>1. At(new, t[k + 1]) = At(new, t[n]) /\ t[k + 1] \in Indices(new) /\ t[n] \in Indices(new)
        BY <1>10, <3>1
      <4> QED
        BY <1>1, <4>1
    <3>3. k + 1 = n
      BY <1>10, <3>1, <3>2
    <3> QED
      BY <3>1, <3>3
  <2>6. Place(b, At(b, n - 1)) = n - 1
    BY <1>5, <2>4, <2>5, PlaceIs
  <2> QED
    BY <2>3, <2>4, <2>6
<1>16. Comparable(a, b)
  BY <1>5, <1>12, <1>15 DEF Comparable
<1>17. SortedRows(old, new, a, b, from, to)
  BY <1>5, <1>7, <1>8, <1>11, <1>12, <1>14, <1>16 DEF SortedRows
<1> QED
  BY <1>17 DEF a, b

\* What calculate_moves_sorted makes of c: what is in no match behind the first difference
\* is deleted and inserted as well.
SortedTo(d, c, a, b, from, to, first, F) ==
    /\ first \in Nat /\ first <= Len(a) /\ \A i \in Nat : i < first => At(a, i) = At(b, i)
    /\ Behind(first, F, a, b)
    /\ d = [del |-> c.del \cup {from[i + 1] : i \in LeftOutOfA(a, first, F)},
            ins |-> c.ins \cup {to[i + 1] : i \in LeftOutOfB(b, first, F)},
            mod |-> c.mod, moves |-> c.moves, mapping |-> c.mapping]

\* It finds the first difference and the matches behind it.
LEMMA SortedMoves ==
    ASSUME NEW old, NEW new, NEW c \in ChangeSet, NEW a, a = Both(new, old),
           NEW b, b = Both(old, new), NEW from, NEW to, SortedRows(old, new, a, b, from, to)
    PROVE  \E first, F : SortedTo(MovesSorted(old, new, c), c, a, b, from, to, first, F)
<1> DEFINE differ == {k \in Indices(a) : At(a, k) # At(b, k)}
           least == CHOOSE i \in differ : \A n \in differ : i <= n
           found == LongestMatches(a, b, least, c.mod)
<1>p. MovesSorted(old, new, c)
        = IF differ = {} THEN c
          ELSE [c EXCEPT !.del = @ \cup {Place(old, At(a, i)) : i \in LeftOutOfA(a, least, found)},
                         !.ins = @ \cup {Place(new, At(b, i)) : i \in LeftOutOfB(b, least, found)}]
  BY DEF MovesSorted, LeftOutOfA, LeftOutOfB
<1>1. Len(a) \in Nat /\ Len(b) = Len(a) /\ Comparable(a, b)
  BY DEF SortedRows
<1>2. /\ \A p \in 1 .. Len(a) : Place(old, a[p]) = from[p]
      /\ \A p \in 1 .. Len(b) : Place(new, b[p]) = to[p]
  BY DEF SortedRows, Selected
<1>3. \A i : i \in Indices(a) <=> i \in Nat /\ i < Len(a)
  BY <1>1 DEF Indices
<1>4. Indices(b) = Indices(a)
  BY <1>1 DEF Indices
<1>5. c = [del |-> c.del, ins |-> c.ins, mod |-> c.mod, moves |-> c.moves, mapping |-> c.mapping]
      /\ c.mod \in IndexSet
  BY ChangeSetParts
<1>6. CASE differ = {}
  <2>1. MovesSorted(old, new, c) = c
    <3> HIDE DEF least, found
    <3> QED
      BY <1>p, <1>6
  <2>2. \A i \in Nat : i < Len(a) => At(a, i) = At(b, i)
    BY <1>3, <1>6
  <2>3. Behind(Len(a), {}, a, b)
    BY DEF Behind, Matches
  <2>4. LeftOutOfA(a, Len(a), {}) = {} /\ LeftOutOfB(b, Len(a), {}) = {}
    BY <1>1, <1>3, <1>4 DEF LeftOutOfA, LeftOutOfB
  <2>5. /\ c.del = c.del \cup {from[i + 1] : i \in LeftOutOfA(a, Len(a), {})}
        /\ c.ins = c.ins \cup {to[i + 1] : i \in LeftOutOfB(b, Len(a), {})}
    BY <2>4
  <2>6. SortedTo(c, c, a, b, from, to, Len(a), {})
    BY <1>1, <1>5, <2>2, <2>3, <2>5 DEF SortedTo
  <2> QED
    BY <2>1, <2>6
<1>7. CASE differ # {}
  <2> DEFINE A == LeftOutOfA(a, least, found)
             B == LeftOutOfB(b, least, found)
  <2>1. least \in differ /\ \A n \in differ : least <= n
    <3>1. differ \subseteq Nat
      BY <1>3
    <3>2. \E i \in differ : \A n \in differ : i <= n
      BY <1>7, <3>1, LeastIndex
    <3> QED
      BY <3>2
  <2>2. MovesSorted(old, new, c)
          = [c EXCEPT !.del = @ \cup {Place(old, At(a, i)) : i \in A},
                      !.ins = @ \cup {Place(new, At(b, i)) : i \in B}]
    <3> HIDE DEF least, found, differ
    <3> QED
      BY <1>p, <1>7
  <2> HIDE DEF least, found
  <2>3. least \in Nat /\ least < Len(a)
    BY <1>3, <2>1
  <2>4. \A i \in Nat : i < least => At(a, i) = At(b, i)
    <3> SUFFICES ASSUME NEW i \in Nat, i < least PROVE At(a, i) = At(b, i)
      OBVIOUS
    <3>1. i \in Indices(a) /\ ~(least <= i)
      BY <1>1, <1>3, <2>3
    <3> QED
      BY <2>1, <3>1
  <2>5. Behind(least, found, a, b)
    <3>1. least <= Len(a) /\ least <= Len(b)
      BY <1>1, <2>3
    <3>2. Matches(found, [b1 |-> least, e1 |-> Len(a), b2 |-> least, e2 |-> Len(b)], a, b)
      BY <1>1, <1>5, <2>3, <3>1, MatchesFound DEF found
    <3> QED
      BY <3>2 DEF Behind
  <2>6. /\ \A i \in A : Place(old, At(a, i)) = from[i + 1]
        /\ \A i \in B : Place(new, At(b, i)) = to[i + 1]
    <3>1. \A i \in Indices(a) : i + 1 \in 1 .. Len(a) /\ At(a, i) = a[i + 1] /\ At(b, i) = b[i + 1]
      BY <1>1, <1>3 DEF At
    <3>2. A \subseteq Indices(a) /\ B \subseteq Indices(a)
      BY <1>4 DEF LeftOutOfA, LeftOutOfB
    <3> QED
      BY <1>1, <1>2, <3>1, <3>2
  <2> DEFINE D == {from[i + 1] : i \in A}
             E == {to[i + 1] : i \in B}
             half == [c EXCEPT !.del = @ \cup D]
             whole == [half EXCEPT !.ins = @ \cup E]
  <2>7. MovesSorted(old, new, c) = whole
    <3>1. {Place(old, At(a, i)) : i \in A} = D /\ {Place(new, At(b, i)) : i \in B} = E
      BY <2>6
    <3> HIDE DEF A, B, D, E
    <3> QED
      BY <2>2, <3>1
  <2> HIDE DEF D, E
  <2>8. half = [del |-> c.del \cup D, ins |-> c.ins, mod |-> c.mod, moves |-> c.moves,
                mapping |-> c.mapping]
    <3>1. PICK e1, e2, e3, e4, e5 :
             /\ c = [del |-> e1, ins |-> e2, mod |-> e3, moves |-> e4, mapping |-> e5]
             /\ e1 = c.del /\ e2 = c.ins /\ e3 = c.mod /\ e4 = c.moves /\ e5 = c.mapping
      BY <1>5
    <3>2. [c EXCEPT !.del = @ \cup D]
            = [del |-> e1 \cup D, ins |-> e2, mod |-> e3, moves |-> e4, mapping |-> e5]
      BY ONLY SMTT(30), <3>1
    <3> QED
      BY <3>1, <3>2 DEF half
  <2> HIDE DEF half
  <2>9. whole = [del |-> c.del \cup D, ins |-> c.ins \cup E, mod |-> c.mod, moves |-> c.moves,
                 mapping |-> c.mapping]
    <3>1. PICK e1, e2, e3, e4, e5 :
             /\ half = [del |-> e1, ins |-> e2, mod |-> e3, moves |-> e4, mapping |-> e5]
             /\ e1 = c.del \cup D /\ e2 = c.ins /\ e3 = c.mod /\ e4 = c.moves /\ e5 = c.mapping
      BY <2>8
    <3>2. [half EXCEPT !.ins = @ \cup E]
            = [del |-> e1, ins |-> e2 \cup E, mod |-> e3, moves |-> e4, mapping |-> e5]
      BY ONLY <3>1
    <3> QED
      BY <3>1, <3>2 DEF whole
  <2> HIDE DEF whole
  <2>10. SortedTo(whole, c, a, b, from, to, least, found)
    BY <1>1, <2>3, <2>4, <2>5, <2>9 DEF SortedTo, D, E
  <2> QED
    BY <2>7, <2>10
<1> QED
  BY <1>6, <1>7

\* calculate_moves_sorted, of any two lists of rows, in whatever order: the result leads
\* each row that is in both and not reported as deleted and inserted to its place in the
\* new list, and marks the changed ones.
THEOREM SortedCalculated ==
    ASSUME NEW old, NEW new, RowLists(old, new), NEW changed
    PROVE  Calculated(MovesSorted(old, new, Begun(old, new, changed)), old, new, changed)
<1> DEFINE a == Both(new, old)
           b == Both(old, new)
           c == Begun(old, new, changed)
           d == MovesSorted(old, new, c)
<1>1. PICK from, to : SortedRows(old, new, a, b, from, to)
  BY SortedRowsExist
<1>2. Len(old) \in Nat /\ Len(new) \in Nat
  BY DEF RowLists
<1>3. /\ c \in ChangeSet /\ c.moves = <<>>
      /\ c.del = {i \in Indices(old) : At(old, i) \notin ToSet(new)}
      /\ c.ins = {i \in Indices(new) : At(new, i) \notin ToSet(old)}
      /\ c.mod = {i \in Indices(new) : At(new, i) \in ToSet(old) \cap changed}
  BY <1>2, BegunFacts DEF NewOf
<1> HIDE DEF c
<1>4. PICK first, F : SortedTo(d, c, a, b, from, to, first, F)
  BY <1>1, <1>3, SortedMoves
<1> HIDE DEF a, b, d
<1> DEFINE A == LeftOutOfA(a, first, F)
           B == LeftOutOfB(b, first, F)
<1>5. /\ first \in Nat /\ first <= Len(a) /\ \A i \in Nat : i < first => At(a, i) = At(b, i)
      /\ Behind(first, F, a, b)
      /\ d.del = c.del \cup {from[i + 1] : i \in A} /\ d.ins = c.ins \cup {to[i + 1] : i \in B}
      /\ d.mod = c.mod /\ d.moves = c.moves /\ d.mapping = c.mapping
      /\ d = [del |-> d.del, ins |-> d.ins, mod |-> d.mod, moves |-> d.moves, mapping |-> d.mapping]
  BY <1>4 DEF SortedTo
<1>6. /\ Len(a) \in Nat /\ Len(b) = Len(a) /\ Selected(a, old, new, from) /\ Selected(b, new, old, to)
      /\ from \in [1 .. Len(a) -> Indices(old)] /\ to \in [1 .. Len(b) -> Indices(new)]
  BY <1>1 DEF SortedRows, Selected
<1>7. A \subseteq Indices(a) /\ B \subseteq Indices(b)
  BY DEF LeftOutOfA, LeftOutOfB
<1>8. Pairing(KeptPairs(first, F), Len(a), A, Len(b), B) /\ SameRows(KeptPairs(first, F), a, b)
  BY <1>5, <1>6, KeptPairing
<1> HIDE DEF A, B
<1>9. CanPair(old, d.del, new, d.ins)
  <2>1. LeavesOut(d.del, old, new, from, A) /\ LeavesOut(d.ins, new, old, to, B)
    BY <1>3, <1>5 DEF LeavesOut
  <2> QED
    BY <1>2, <1>6, <1>7, <1>8, <2>1, SelectedPairing
<1>m. PICK M : Pairing(M, Len(old), d.del, Len(new), d.ins) /\ SameRows(M, old, new)
  BY <1>9 DEF CanPair
<1>10. d.del \subseteq Indices(old) /\ d.ins \subseteq Indices(new)
  <2>1. /\ \A i \in A : i + 1 \in 1 .. Len(a)
        /\ \A i \in B : i + 1 \in 1 .. Len(b)
    BY <1>6, <1>7 DEF Indices
  <2>2. /\ \A i \in A : from[i + 1] \in Indices(old)
        /\ \A i \in B : to[i + 1] \in Indices(new)
    BY <1>6, <2>1
  <2> QED
    BY <1>3, <1>5, <2>2
<1>11. d \in ChangeSet
  <2>1. Indices(old) \in IndexSet /\ Indices(new) \in IndexSet
    BY <1>2, UpToIsIndexSet DEF Indices
  <2>2. d.del \in IndexSet /\ d.ins \in IndexSet
    BY <1>10, <2>1, FS_Subset DEF IndexSet
  <2>3. d.mod \in IndexSet /\ d.moves \in Seq(Move)
        /\ d.mapping \in UNION {[s -> Nat] : s \in IndexSet}
    BY <1>3, <1>5, ChangeSetParts
  <2> QED
    BY <1>5, <2>2, <2>3 DEF ChangeSet
<1>12. TrueMoves(d, old, new)
  <2>1. d.moves = <<>>
    BY <1>3, <1>5
  <2>2. Len(d.moves) = 0
    BY <2>1
  <2> QED
    BY <2>2 DEF TrueMoves, MovesMatch
<1>13. Calculated(d, old, new, changed)
  BY <1>2, <1>3, <1>5, <1>m, <1>10, <1>11, <1>12, PairedCalculated
<1> QED
  BY <1>13 DEF d, c

-----------------------------------------------------------------------------
\* Tables: the inductive invariant, and the instructions

\* The rows of a table are of distinct elements, of those made so far.
RowsOf(t, m) ==
    /\ t \in Seq(Nat) /\ Distinct(t) /\ Len(t) <= m
    /\ \A k \in Indices(t) : 1 <= At(t, k) /\ At(t, k) <= m

\* The pieces of the log lead the table of the last run to mid, with the elements of T
\* modified, whatever comes next.
LeadOn(mid, T) ==
    \A c, t, V : Pieces(mid, c, t, V) =>
                     Pieces(then, MergedFromLast(Append(pieces, c)), t, T \cup V)

\* ... and the log leads mid to the table there is now, with those of U modified.  There
\* were N elements when mid was read.
TableReadAs(mid, T, U, N) ==
    /\ mid \in Seq(Nat) /\ Len(mid) <= MaxElements /\ N \in Nat /\ N <= made
    /\ T \subseteq 1 .. N /\ U \subseteq 1 .. made /\ touched = T \cup U
    /\ TableLog(log, mid, now, U, N, {}) /\ LeadOn(mid, T)
TableRead == \E mid, T, U, N : TableReadAs(mid, T, U, N)

\* The rows of s are rows of t ...
PartOf(s, t) ==
    /\ s \in Seq(Nat) /\ Distinct(s)
    /\ \A j \in Indices(s) : \E x \in Indices(t) : At(t, x) = At(s, j)

\* ... in the order of t.
InOrder(s, t) ==
    \A j, k \in Indices(s), x, y \in Indices(t) :
        j < k /\ At(t, x) = At(s, j) /\ At(t, y) = At(s, k) => x < y

\* The inductive invariant for the rows of a table.
TableInv ==
    /\ ~gone /\ made \in Nat /\ made <= MaxElements
    /\ RowsOf(now, made) /\ then \in Seq(Nat) /\ Distinct(then)
    /\ PartOf(prev, then)
    /\ kind = "unsorted" => InOrder(prev, then)
    /\ base \in Seq(Nat) /\ pieces \in Seq(Changes)
    /\ TableRead
    /\ ~excused => Accumulated

\* What an instruction does to what has been read, it does to the invariant.
LEMMA TableInstructionKeeps ==
    ASSUME TableInv, NEW contents, NEW change, Instruction(contents, change),
           made' \in Nat, made <= made', made' <= MaxElements, RowsOf(contents, made'),
           UNCHANGED excused, NEW D, D \subseteq 1 .. made', touched' = touched \cup D,
           \A mid, T, U, N : TableReadAs(mid, T, U, N) =>
               TableLog(change, mid, contents, U \cup D, N, {})
    PROVE  TableInv'
<1>1. /\ now' = contents /\ log' = change
      /\ UNCHANGED <<kind, gone, then, prev, base, acc, dirty, pieces>>
  BY DEF Instruction, runs
<1>2. PICK mid, T, U, N : TableReadAs(mid, T, U, N)
  BY DEF TableInv, TableRead
<1>3. /\ mid \in Seq(Nat) /\ Len(mid) <= MaxElements /\ N \in Nat /\ N <= made
      /\ T \subseteq 1 .. N /\ U \subseteq 1 .. made /\ touched = T \cup U /\ LeadOn(mid, T)
  BY <1>2 DEF TableReadAs
<1>4. TableLog(log', mid, now', U \cup D, N, {})
  BY <1>1, <1>2
<1>5. LeadOn(mid, T)'
  BY <1>1, <1>3 DEF LeadOn
<1>6. N <= made' /\ U \cup D \subseteq 1 .. made' /\ touched' = T \cup (U \cup D)
  <2>1. made \in Nat
    BY DEF TableInv
  <2> QED
    BY <1>3, <2>1
<1>7. TableReadAs(mid, T, U \cup D, N)'
  BY <1>3, <1>4, <1>5, <1>6 DEF TableReadAs
<1>8. TableRead'
  BY <1>7 DEF TableRead
<1>9. Accumulated => Accumulated'
  BY <1>1 DEF Accumulated
<1> QED
  BY <1>1, <1>8, <1>9 DEF TableInv

\* What is known of a table's log is known with a gap, too.
LEMMA WithGap ==
    ASSUME NEW c, NEW s, NEW t, NEW T, NEW N, TableLog(c, s, t, T, N, {}), NEW row
    PROVE  TableLog(c, s, t, T, N, {row})
<1>1. /\ Placed(c.del, c.ins, s, t) /\ Mapped(c.mapping, c.ins, c.del \cup {}, s, t)
      /\ Marked(c.mod, t, T, {}) /\ Fresh(c.ins, c.mapping, t, N, {})
      /\ c \in ChangeSet /\ c.moves = <<>>
  BY DEF TableLog
<1>2. Mapped(c.mapping, c.ins, c.del \cup {row}, s, t)
  BY <1>1 DEF Mapped
<1>3. Marked(c.mod, t, T, {row}) /\ Fresh(c.ins, c.mapping, t, N, {row})
  BY <1>1 DEF Marked, Fresh
<1> QED
  BY <1>1, <1>2, <1>3 DEF TableLog

\* The last row moves over the one at i.
LEMMA LastRowMovesOver ==
    ASSUME NEW t \in Seq(Nat), NEW i \in Indices(t)
    PROVE  /\ Front([t EXCEPT ![i + 1] = Last(t)]) \in Seq(Nat)
           /\ TakesPlace(t, i, Front([t EXCEPT ![i + 1] = Last(t)]))
<1> DEFINE e == [t EXCEPT ![i + 1] = Last(t)]
           u == Front(e)
           N == Len(t)
<1>1. N \in Nat /\ i \in Nat /\ i < N /\ i + 1 \in 1 .. N /\ DOMAIN t = 1 .. N
  BY IndicesAre
<1>2. Last(t) = t[N] /\ t[N] \in Nat /\ At(t, N - 1) = t[N]
  <2>1. N \in 1 .. N /\ (N - 1) + 1 = N
    BY <1>1
  <2> QED
    BY <2>1 DEF Last, At
<1>3. e \in Seq(Nat) /\ Len(e) = N /\ \A n \in 1 .. N : e[n] = IF n = i + 1 THEN t[N] ELSE t[n]
  BY <1>1, <1>2
<1> HIDE DEF e
<1>4. u = SubSeq(e, 1, N - 1)
  BY <1>3 DEF Front
<1>5. /\ u \in Seq(Nat) /\ Len(u) = N - 1
      /\ \A n \in 1 .. N - 1 : u[n] = e[n]
  <2>1. e \in Seq(Nat) /\ N = Len(e) /\ N \in Nat /\ 1 <= N
    BY <1>1, <1>3
  <2> HIDE DEF N
  <2> QED
    BY ONLY <1>4, <2>1
<1> HIDE DEF u
<1>6. \A k \in Indices(u) : At(u, k) = IF k = i THEN At(t, N - 1) ELSE At(t, k)
  <2> SUFFICES ASSUME NEW k \in Indices(u)
               PROVE  At(u, k) = IF k = i THEN At(t, N - 1) ELSE At(t, k)
    OBVIOUS
  <2>1. k \in Nat /\ k < N - 1
    BY <1>1, <1>5 DEF Indices
  <2>2. k + 1 \in 1 .. N - 1 /\ k + 1 \in 1 .. N /\ (k + 1 = i + 1 <=> k = i)
    BY <1>1, <2>1
  <2> QED
    BY <1>2, <1>3, <1>5, <2>2 DEF At
<1> QED
  BY <1>5, <1>6 DEF TakesPlace, u, e

\* insert_empty_rows
LEMMA InsertRowKeepsInv ==
    ASSUME TableInv, InsertRow
    PROVE  TableInv'
<1>1. /\ made < MaxElements /\ made' = made + 1 /\ UNCHANGED <<touched, excused>>
      /\ Instruction(Append(now, made'), Insert(log, Len(now)))
  BY DEF InsertRow
<1>2. /\ made \in Nat /\ MaxElements \in Nat /\ now \in Seq(Nat) /\ Len(now) \in Nat /\ Len(now) <= made
      /\ Distinct(now) /\ \A k \in Indices(now) : 1 <= At(now, k) /\ At(now, k) <= made
  BY BoundsAssumption DEF TableInv, RowsOf
<1> DEFINE e == made'
           u == Append(now, e)
<1>3. e \in Nat /\ e = made + 1 /\ made <= e /\ e <= MaxElements
  BY <1>1, <1>2
<1> HIDE DEF e
<1>4. u \in Seq(Nat) /\ Len(u) = Len(now) + 1
  BY <1>2, <1>3
<1>5. /\ \A k : k \in Indices(u) <=> k \in Indices(now) \/ k = Len(now)
      /\ \A k \in Indices(now) : At(u, k) = At(now, k) /\ k # Len(now) /\ At(now, k) \in Nat
      /\ At(u, Len(now)) = e
  <2>1. \A k \in Indices(now) : k \in Nat /\ k < Len(now) /\ k + 1 \in 1 .. Len(now)
    BY IndicesAre, <1>2
  <2>2. \A k \in Indices(now) : At(u, k) = At(now, k)
    BY <1>2, <1>3, <2>1 DEF At
  <2>3. At(u, Len(now)) = e
    BY <1>2, <1>3 DEF At
  <2>4. \A k : k \in Indices(u) <=> k \in Indices(now) \/ k = Len(now)
    BY <1>2, <1>4 DEF Indices
  <2>5. \A k \in Indices(now) : At(now, k) \in Nat
    BY <1>2, IndicesAre
  <2> QED
    BY <1>2, <2>1, <2>2, <2>3, <2>4, <2>5
<1>6. RowsOf(u, e)
  <2>1. \A k \in Indices(u) : 1 <= At(u, k) /\ At(u, k) <= e
    BY <1>2, <1>3, <1>5
  <2>2. Distinct(u)
    <3>1. \A k \in Indices(now) : At(u, k) # e
      BY <1>2, <1>3, <1>5
    <3> HIDE DEF u
    <3> QED
      BY <1>2, <1>5, <3>1 DEF Distinct
  <2>3. Len(u) <= e
    BY <1>2, <1>3, <1>4
  <2> QED
    BY <1>4, <2>1, <2>2, <2>3 DEF RowsOf
<1>7. \A mid, T, U, N : TableReadAs(mid, T, U, N) =>
          TableLog(Insert(log, Len(now)), mid, u, U \cup {}, N, {})
  <2> SUFFICES ASSUME NEW mid, NEW T, NEW U, NEW N, TableReadAs(mid, T, U, N)
               PROVE  TableLog(Insert(log, Len(now)), mid, u, U, N, {})
    OBVIOUS
  <2>1. /\ mid \in Seq(Nat) /\ N \in Nat /\ N <= made /\ U \subseteq 1 .. made
        /\ TableLog(log, mid, now, U, N, {})
    BY DEF TableReadAs
  <2>2. e > N /\ e \notin U
    BY <1>2, <1>3, <2>1
  <2> QED
    BY <1>2, <1>3, <2>1, <2>2, InsertRowKeeps
<1>8. touched' = touched \cup {} /\ {} \subseteq 1 .. e
  BY <1>1
<1>9. Instruction(u, Insert(log, Len(now)))
  BY <1>1 DEF e
<1> HIDE DEF u
<1> QED
  BY <1>1, <1>3, <1>6, <1>7, <1>8, <1>9, TableInstructionKeeps DEF e

\* erase_rows
LEMMA EraseRowKeepsInv ==
    ASSUME TableInv, NEW i, EraseRow(i)
    PROVE  TableInv'
<1> DEFINE u == Front([now EXCEPT ![i + 1] = Last(now)])
           c == MoveOver(log, i, Len(now) - 1)
<1>1. i \in Indices(now) /\ UNCHANGED <<made, touched, excused>> /\ Instruction(u, c)
  BY DEF EraseRow
<1>2. /\ made \in Nat /\ made <= MaxElements /\ now \in Seq(Nat) /\ Len(now) \in Nat /\ Len(now) <= made
      /\ Distinct(now) /\ \A k \in Indices(now) : 1 <= At(now, k) /\ At(now, k) <= made
  BY DEF TableInv, RowsOf
<1>3. u \in Seq(Nat) /\ TakesPlace(now, i, u)
  BY <1>1, <1>2, LastRowMovesOver
<1> HIDE DEF u
<1>4. /\ Len(u) = Len(now) - 1 /\ Len(now) - 1 \in Indices(now)
      /\ \A k \in Indices(u) : k \in Indices(now) /\ k # Len(now) - 1
      /\ \A k \in Indices(u) : At(u, k) = IF k = i THEN At(now, Len(now) - 1) ELSE At(now, k)
  <2>1. i \in Nat /\ i < Len(now)
    BY <1>1, <1>2, IndicesAre
  <2>2. Len(u) = Len(now) - 1
    BY <1>3 DEF TakesPlace
  <2>3. /\ \A k \in Indices(u) : k \in Indices(now) /\ k # Len(now) - 1
        /\ Len(now) - 1 \in Indices(now)
    BY <1>2, <2>1, <2>2 DEF Indices
  <2> QED
    BY <1>3, <2>2, <2>3 DEF TakesPlace
<1>5. RowsOf(u, made)
  <2>1. Distinct(u)
    BY <1>1, <1>2, <1>4 DEF Distinct
  <2>2. \A k \in Indices(u) : 1 <= At(u, k) /\ At(u, k) <= made
    BY <1>2, <1>4
  <2>3. Len(u) <= made
    BY <1>2, <1>4
  <2> QED
    BY <1>3, <2>1, <2>2, <2>3 DEF RowsOf
<1>6. \A mid, T, U, N : TableReadAs(mid, T, U, N) => TableLog(c, mid, u, U \cup {}, N, {})
  <2> SUFFICES ASSUME NEW mid, NEW T, NEW U, NEW N, TableReadAs(mid, T, U, N)
               PROVE  TableLog(c, mid, u, U, N, {})
    OBVIOUS
  <2>1. mid \in Seq(Nat) /\ TableLog(log, mid, now, U, N, {i})
    BY WithGap DEF TableReadAs
  <2> QED
    BY <1>1, <1>2, <1>3, <2>1, MoveOverKeeps
<1> HIDE DEF c
<1>7. touched' = touched \cup {} /\ {} \subseteq 1 .. made' /\ made' = made /\ UNCHANGED excused
      /\ made <= made
  BY <1>1, <1>2
<1> QED
  BY <1>1, <1>2, <1>5, <1>6, <1>7, TableInstructionKeeps

\* What the invariant says of the table there is now.
LEMMA NowFacts ==
    ASSUME TableInv
    PROVE  /\ made \in Nat /\ made <= MaxElements /\ now \in Seq(Nat) /\ Len(now) \in Nat
           /\ Len(now) <= made /\ Distinct(now)
           /\ \A k \in Indices(now) : 1 <= At(now, k) /\ At(now, k) <= made /\ At(now, k) \in Nat
           /\ \A k : k \in Indices(now) <=> k \in Nat /\ k < Len(now)
<1>1. now \in Seq(Nat)
  BY DEF TableInv, RowsOf
<1> QED
  BY <1>1, IndicesAre DEF TableInv, RowsOf

\* swap_rows
LEMMA SwapTableRowsKeepsInv ==
    ASSUME TableInv, NEW i, NEW j, SwapTableRows(i, j)
    PROVE  TableInv'
<1> DEFINE u == Swapped(i, j)
           c == SwapRows(log, i, j)
<1>1. /\ i \in Indices(now) /\ j \in Indices(now) /\ i < j /\ UNCHANGED <<made, touched, excused>>
      /\ Instruction(u, c)
  BY DEF SwapTableRows
<1>2. /\ made \in Nat /\ made <= MaxElements /\ now \in Seq(Nat) /\ Len(now) \in Nat
      /\ Len(now) <= made /\ Distinct(now)
      /\ \A k \in Indices(now) : 1 <= At(now, k) /\ At(now, k) <= made /\ At(now, k) \in Nat
      /\ \A k : k \in Indices(now) <=> k \in Nat /\ k < Len(now)
  BY NowFacts
<1>3. u \in Seq(Nat) /\ Exchange(now, u, i, j)
  <2>1. i + 1 \in 1 .. Len(now) /\ j + 1 \in 1 .. Len(now) /\ i \in Nat /\ j \in Nat
    BY <1>1, <1>2
  <2>2. u = [now EXCEPT ![i + 1] = At(now, j), ![j + 1] = At(now, i)]
    BY DEF Swapped
  <2>3. At(now, i) \in Nat /\ At(now, j) \in Nat
    BY <1>1, <1>2
  <2> HIDE DEF u
  <2>4. /\ u \in Seq(Nat) /\ Len(u) = Len(now)
        /\ \A n \in 1 .. Len(now) : u[n] = IF n = j + 1 THEN At(now, i)
                                           ELSE IF n = i + 1 THEN At(now, j) ELSE now[n]
    BY SMTT(30), <1>2, <2>1, <2>2, <2>3
  <2>5. \A k \in Indices(now) : At(u, k) = At(now, IF k = i THEN j ELSE IF k = j THEN i ELSE k)
    <3> SUFFICES ASSUME NEW k \in Indices(now)
                 PROVE  At(u, k) = At(now, IF k = i THEN j ELSE IF k = j THEN i ELSE k)
      OBVIOUS
    <3>1. k + 1 \in 1 .. Len(now) /\ (k + 1 = i + 1 <=> k = i) /\ (k + 1 = j + 1 <=> k = j)
      BY SMTT(30), <1>2, <2>1
    <3>2. At(u, k) = u[k + 1] /\ At(now, k) = now[k + 1]
      BY DEF At
    <3>3. CASE k = i
      BY <1>1, <2>1, <2>4, <3>1, <3>2, <3>3
    <3>4. CASE k = j
      BY <1>1, <2>1, <2>4, <3>1, <3>2, <3>4
    <3>5. CASE k # i /\ k # j
      BY <2>4, <3>1, <3>2, <3>5
    <3> QED
      BY <3>3, <3>4, <3>5
  <2> QED
    BY <2>4, <2>5 DEF Exchange
<1> HIDE DEF u
<1>4. Len(u) = Len(now) /\ Indices(u) = Indices(now)
  BY <1>3 DEF Exchange, Indices
<1>5. \A k \in Indices(now) : At(u, k) = At(now, IF k = i THEN j ELSE IF k = j THEN i ELSE k)
  BY <1>3 DEF Exchange
<1>6. RowsOf(u, made)
  <2>1. Distinct(u)
    BY <1>1, <1>2, <1>4, <1>5 DEF Distinct
  <2>2. \A k \in Indices(u) : 1 <= At(u, k) /\ At(u, k) <= made
    BY <1>1, <1>2, <1>4, <1>5
  <2> QED
    BY <1>2, <1>3, <1>4, <2>1, <2>2 DEF RowsOf
<1>7. \A mid, T, U, N : TableReadAs(mid, T, U, N) => TableLog(c, mid, u, U \cup {}, N, {})
  <2> SUFFICES ASSUME NEW mid, NEW T, NEW U, NEW N, TableReadAs(mid, T, U, N)
               PROVE  TableLog(c, mid, u, U, N, {})
    OBVIOUS
  <2>1. mid \in Seq(Nat) /\ TableLog(log, mid, now, U, N, {})
    BY DEF TableReadAs
  <2> QED
    BY <1>1, <1>2, <1>3, <2>1, SwapKeeps
<1> HIDE DEF c
<1>8. touched' = touched \cup {} /\ {} \subseteq 1 .. made' /\ made' = made /\ UNCHANGED excused
      /\ made <= made
  BY <1>1, <1>2
<1> QED
  BY <1>1, <1>2, <1>6, <1>7, <1>8, TableInstructionKeeps

\* The row at i takes the place of the one at j, and the last row that of the one at i:
\* the rows are still distinct.
LEMMA MergedRows ==
    ASSUME NEW t \in Seq(Nat), NEW m, RowsOf(t, m), m \in Nat,
           NEW i \in Indices(t), NEW j \in Indices(t), i # j,
           NEW v \in Seq(Nat), Doubled(t, v, i, j), NEW u \in Seq(Nat), TakesPlace(v, i, u)
    PROVE  RowsOf(u, m)
<1> DEFINE N == Len(t)
           Of(k) == IF k = i THEN IF N - 1 = j THEN i ELSE N - 1
                    ELSE IF k = j THEN i ELSE k
<1>1. /\ N \in Nat /\ i \in Nat /\ j \in Nat /\ i < N /\ j < N /\ N <= m
      /\ \A k : k \in Indices(t) <=> k \in Nat /\ k < N
  BY IndicesAre DEF RowsOf
<1>2. /\ Distinct(t) /\ \A k \in Indices(t) : 1 <= At(t, k) /\ At(t, k) <= m
  BY DEF RowsOf
<1>3. Len(v) = N /\ \A k \in Indices(t) : At(v, k) = At(t, IF k = j THEN i ELSE k)
  BY DEF Doubled
<1>4. Len(u) = N - 1 /\ \A k \in Indices(u) : At(u, k) = IF k = i THEN At(v, N - 1) ELSE At(v, k)
  BY <1>3 DEF TakesPlace
<1>5. \A k : k \in Indices(u) <=> k \in Nat /\ k < N - 1
  <2>1. Indices(u) = 0 .. (N - 1) - 1 /\ N \in Nat
    BY <1>1, <1>4 DEF Indices
  <2> HIDE DEF N
  <2> QED
    BY ONLY <2>1
<1>6. \A k \in Indices(u) : Of(k) \in Indices(t) /\ At(u, k) = At(t, Of(k))
  <2> SUFFICES ASSUME NEW k \in Indices(u) PROVE Of(k) \in Indices(t) /\ At(u, k) = At(t, Of(k))
    OBVIOUS
  <2>1. k \in Indices(t) /\ k \in Nat /\ k < N - 1 /\ N - 1 \in Indices(t)
    <3>1. k \in Nat /\ k < N - 1
      BY <1>5
    <3>2. k < N /\ N - 1 \in Nat /\ N - 1 < N
      BY <1>1, <3>1
    <3> QED
      BY <1>1, <3>1, <3>2
  <2>2. CASE k = i
    <3>1. At(u, k) = At(v, N - 1)
      BY <1>4, <2>2
    <3>2. At(v, N - 1) = At(t, IF N - 1 = j THEN i ELSE N - 1)
      BY <1>3, <2>1
    <3> QED
      BY <2>1, <2>2, <3>1, <3>2
  <2>3. CASE k # i
    <3>1. At(u, k) = At(v, k)
      BY <1>4, <2>3
    <3> QED
      BY <1>3, <2>1, <2>3, <3>1
  <2> QED
    BY <2>2, <2>3
<1>7. \A k, l \in Indices(u) : Of(k) = Of(l) => k = l
  <2>1. \A k \in Indices(u) : k # N - 1
    BY <1>1, <1>5
  <2> QED
    BY <2>1
<1> HIDE DEF Of
<1>8. Distinct(u)
  BY <1>2, <1>6, <1>7 DEF Distinct
<1> QED
  BY <1>1, <1>2, <1>4, <1>6, <1>8 DEF RowsOf

\* merge_rows
LEMMA MergeRowsKeepsInv ==
    ASSUME TableInv, NEW i, NEW j, MergeRows(i, j)
    PROVE  TableInv'
<1> DEFINE v == [now EXCEPT ![j + 1] = At(now, i)]
           u == Front([v EXCEPT ![i + 1] = Last(v)])
           d == Subsume(log, i, j)
           c == MoveOver(d, i, Len(now) - 1)
           D == IF At(now, j) \in touched THEN {At(now, i)} ELSE {}
<1>1. /\ i \in Indices(now) /\ j \in Indices(now) /\ i # j
      /\ j \in log.ins /\ j \notin DOMAIN log.mapping
      /\ touched' = IF At(now, j) \in touched THEN touched \cup {At(now, i)} ELSE touched
      /\ UNCHANGED <<made, excused>> /\ Instruction(u, c)
  BY DEF MergeRows
<1>2. /\ made \in Nat /\ made <= MaxElements /\ now \in Seq(Nat) /\ Len(now) \in Nat
      /\ Len(now) <= made /\ Distinct(now)
      /\ \A k \in Indices(now) : 1 <= At(now, k) /\ At(now, k) <= made /\ At(now, k) \in Nat
      /\ \A k : k \in Indices(now) <=> k \in Nat /\ k < Len(now)
  BY NowFacts
<1>3. v \in Seq(Nat) /\ Doubled(now, v, i, j)
  <2>1. i \in Nat /\ j \in Nat /\ j + 1 \in 1 .. Len(now) /\ At(now, i) \in Nat
    BY <1>1, <1>2
  <2>2. /\ v \in Seq(Nat) /\ Len(v) = Len(now)
        /\ \A n \in 1 .. Len(now) : v[n] = IF n = j + 1 THEN At(now, i) ELSE now[n]
    BY <1>2, <2>1
  <2> HIDE DEF v
  <2>3. ASSUME NEW k \in Indices(now) PROVE At(v, k) = At(now, IF k = j THEN i ELSE k)
    <3>1. k + 1 \in 1 .. Len(now) /\ (k + 1 = j + 1 <=> k = j)
      BY SMTT(30), <1>2, <2>1
    <3> QED
      BY <2>2, <3>1 DEF At
  <2> QED
    BY <2>2, <2>3 DEF Doubled
<1> HIDE DEF v
<1>4. Len(v) = Len(now) /\ Indices(v) = Indices(now)
  BY <1>3 DEF Doubled, Indices
<1>5. u \in Seq(Nat) /\ TakesPlace(v, i, u)
  BY <1>1, <1>3, <1>4, LastRowMovesOver
<1> HIDE DEF u
<1>6. RowsOf(u, made)
  <2>1. RowsOf(now, made)
    BY DEF TableInv
  <2> QED
    BY <1>1, <1>2, <1>3, <1>5, <2>1, MergedRows
<1>7. \A mid, T, U, N : TableReadAs(mid, T, U, N) => TableLog(c, mid, u, U \cup D, N, {})
  <2> SUFFICES ASSUME NEW mid, NEW T, NEW U, NEW N, TableReadAs(mid, T, U, N)
               PROVE  TableLog(c, mid, u, U \cup D, N, {})
    OBVIOUS
  <2>1. /\ mid \in Seq(Nat) /\ N \in Nat /\ T \subseteq 1 .. N /\ touched = T \cup U
        /\ TableLog(log, mid, now, U, N, {})
    BY DEF TableReadAs
  <2>2. At(now, j) > N
    BY <1>1, <2>1 DEF TableLog, Fresh
  <2>3. At(now, j) \in touched <=> At(now, j) \in U
    <3>1. At(now, j) \in Nat
      BY <1>1, <1>2
    <3>2. At(now, j) \notin T
      BY <2>1, <2>2, <3>1
    <3> QED
      BY <2>1, <3>2
  <2>4. U \cup D = IF At(now, j) \in U THEN U \cup {At(now, i)} ELSE U
    BY <2>3
  <2> HIDE DEF D
  <2>5. \A k \in Indices(now) : k # i => At(now, k) # At(now, i)
    BY <1>1, <1>2 DEF Distinct
  <2>6. TableLog(d, mid, v, U \cup D, N, {i})
    <3>1. TableLog(d, mid, v, IF At(now, j) \in U THEN U \cup {At(now, i)} ELSE U, N, {i})
      BY <1>1, <1>2, <1>3, <2>1, <2>5, SubsumeKeeps
    <3> QED
      BY <2>4, <3>1
  <2> HIDE DEF d
  <2>7. TableLog(MoveOver(d, i, Len(v) - 1), mid, u, U \cup D, N, {})
    BY <1>1, <1>3, <1>4, <1>5, <2>1, <2>6, MoveOverKeeps
  <2> QED
    BY <1>4, <2>7
<1> HIDE DEF c
<1>8. touched' = touched \cup D /\ D \subseteq 1 .. made' /\ made' = made /\ UNCHANGED excused
      /\ made <= made
  BY <1>1, <1>2
<1> HIDE DEF D
<1> QED
  BY <1>1, <1>2, <1>6, <1>7, <1>8, TableInstructionKeeps

\* The columns of a row are set.
LEMMA ModifyRowKeepsInv ==
    ASSUME TableInv, NEW i, ModifyRow(i)
    PROVE  TableInv'
<1> DEFINE c == [log EXCEPT !.mod = @ \cup {i}]
           D == {At(now, i)}
<1>1. /\ i \in Indices(now) /\ touched' = touched \cup D /\ UNCHANGED <<made, excused>>
      /\ Instruction(now, c)
  BY DEF ModifyRow
<1>2. /\ made \in Nat /\ made <= MaxElements /\ now \in Seq(Nat) /\ Len(now) \in Nat
      /\ Len(now) <= made /\ Distinct(now)
      /\ \A k \in Indices(now) : 1 <= At(now, k) /\ At(now, k) <= made /\ At(now, k) \in Nat
      /\ \A k : k \in Indices(now) <=> k \in Nat /\ k < Len(now)
  BY NowFacts
<1>3. \A mid, T, U, N : TableReadAs(mid, T, U, N) => TableLog(c, mid, now, U \cup D, N, {})
  <2> SUFFICES ASSUME NEW mid, NEW T, NEW U, NEW N, TableReadAs(mid, T, U, N)
               PROVE  TableLog(c, mid, now, U \cup D, N, {})
    OBVIOUS
  <2>1. mid \in Seq(Nat) /\ TableLog(log, mid, now, U, N, {})
    BY DEF TableReadAs
  <2>2. \A k \in Indices(now) : k # i => At(now, k) # At(now, i)
    BY <1>1, <1>2 DEF Distinct
  <2> QED
    BY <1>1, <1>2, <2>1, <2>2, ModifyRowKeeps
<1> HIDE DEF c
<1>4. D \subseteq 1 .. made' /\ made' = made /\ UNCHANGED excused /\ made <= made
  BY <1>1, <1>2
<1>5. RowsOf(now, made)
  BY DEF TableInv
<1> HIDE DEF D
<1> QED
  BY <1>1, <1>2, <1>3, <1>4, <1>5, TableInstructionKeeps

\* clear_table
LEMMA ClearTableKeepsInv ==
    ASSUME TableInv, ClearTable
    PROVE  TableInv'
<1>1. UNCHANGED <<made, touched, excused>> /\ Instruction(<<>>, ClearAll)
  BY DEF ClearTable
<1>2. made \in Nat /\ made <= MaxElements /\ MaxElements \in Nat /\ MaxElements < NoRow /\ NoRow \in Nat
  BY NowFacts, BoundsAssumption, NoRowAssumption
<1>3. \A mid, T, U, N : TableReadAs(mid, T, U, N) => TableLog(ClearAll, mid, <<>>, U \cup {}, N, {})
  <2> SUFFICES ASSUME NEW mid, NEW T, NEW U, NEW N, TableReadAs(mid, T, U, N)
               PROVE  TableLog(ClearAll, mid, <<>>, U, N, {})
    OBVIOUS
  <2>1. mid \in Seq(Nat) /\ Len(mid) \in Nat /\ Len(mid) <= MaxElements
    BY DEF TableReadAs
  <2>2. Len(mid) <= NoRow
    BY <1>2, <2>1
  <2> QED
    BY <2>1, <2>2, ClearTableKeeps
<1>4. RowsOf(<<>>, made)
  <2>1. Indices(<<>>) = {}
    BY DEF Indices
  <2> QED
    BY <1>2, <2>1 DEF RowsOf, Distinct
<1>5. touched' = touched \cup {} /\ {} \subseteq 1 .. made' /\ made' = made /\ UNCHANGED excused
      /\ made <= made
  BY <1>1, <1>2
<1> QED
  BY <1>1, <1>2, <1>3, <1>4, <1>5, TableInstructionKeeps

\* advance_incremental: what was read is one piece more.
LEMMA AdvanceKeepsInv ==
    ASSUME TableInv, Table, AdvanceIncremental
    PROVE  TableInv'
<1> DEFINE p == ParseComplete(log)
<1>1. /\ pieces' = Append(pieces, p) /\ log' = Empty
      /\ UNCHANGED <<kind, gone, now, made, touched, then, prev, base, acc, dirty, excused>>
  BY DEF AdvanceIncremental, Complete, content, runs
<1>2. PICK mid, T, U, N : TableReadAs(mid, T, U, N)
  BY DEF TableInv, TableRead
<1>3. /\ mid \in Seq(Nat) /\ Len(mid) \in Nat /\ Len(mid) <= MaxElements /\ N \in Nat /\ N <= made
      /\ T \subseteq 1 .. N /\ U \subseteq 1 .. made /\ touched = T \cup U
      /\ TableLog(log, mid, now, U, N, {}) /\ LeadOn(mid, T)
  BY <1>2 DEF TableReadAs
<1>4. /\ made \in Nat /\ made <= MaxElements /\ now \in Seq(Nat) /\ Len(now) \in Nat
      /\ Len(now) <= made /\ Distinct(now)
  BY NowFacts
<1>5. Len(mid) <= NoRow /\ Len(now) <= MaxElements
  BY <1>3, <1>4, BoundsAssumption, NoRowAssumption
<1>6. Pieces(mid, p, now, U)
  BY <1>3, <1>4, <1>5, CompleteLeads DEF Pieces
<1>7. p \in Changes /\ pieces \in Seq(Changes)
  BY <1>6 DEF Pieces, Leads, IsChange, Changes, TableInv
<1> HIDE DEF p
<1>8. ASSUME NEW c, NEW t, NEW V, Pieces(now, c, t, V)
      PROVE  Pieces(then, MergedFromLast(Append(pieces', c)), t, (T \cup U) \cup V)
  <2>1. c \in Changes
    BY <1>8 DEF Pieces, Leads, IsChange, Changes
  <2>2. MergedFromLast(Append(pieces', c)) = MergedFromLast(Append(pieces, Merge(p, c)))
    BY <1>1, <1>7, <2>1, FromLastOfTwo
  <2>3. Pieces(mid, Merge(p, c), t, U \cup V)
    BY <1>6, <1>8, MergedPieces
  <2>4. Pieces(then, MergedFromLast(Append(pieces, Merge(p, c))), t, T \cup (U \cup V))
    BY <1>3, <2>3 DEF LeadOn
  <2>5. T \cup (U \cup V) = (T \cup U) \cup V
    OBVIOUS
  <2> QED
    BY <2>2, <2>4, <2>5
<1>9. LeadOn(now, T \cup U)'
  BY <1>1, <1>8 DEF LeadOn
<1>10. TableLog(Empty, now, now, {}, made, {})
  BY <1>4, EmptyLog
<1>11. T \cup U \subseteq 1 .. made
  BY <1>3, <1>4
<1>12. TableReadAs(now, T \cup U, {}, made)'
  BY <1>1, <1>3, <1>4, <1>5, <1>9, <1>10, <1>11 DEF TableReadAs
<1>13. TableRead'
  BY <1>12 DEF TableRead
<1>14. pieces' \in Seq(Changes)
  BY <1>1, <1>7
<1>15. Accumulated => Accumulated'
  BY <1>1 DEF Accumulated
<1> QED
  BY <1>1, <1>13, <1>14, <1>15 DEF TableInv

\* package_for_delivery
LEMMA DeliverKeepsInv ==
    ASSUME TableInv, Deliver
    PROVE  TableInv'
<1>1. /\ acc' = Empty /\ base' = prev /\ dirty' = {}
      /\ UNCHANGED <<kind, gone, now, made, touched, then, prev, log, pieces, excused>>
  BY DEF Deliver, content
<1>2. prev \in Seq(Nat)
  BY DEF TableInv, PartOf
<1>3. Accumulated'
  BY <1>1, <1>2, EmptyShows DEF Accumulated, Shows
<1>4. TableRead => TableRead'
  BY <1>1 DEF TableRead, TableReadAs, LeadOn
<1> QED
  BY <1>1, <1>2, <1>3, <1>4 DEF TableInv

-----------------------------------------------------------------------------
\* Results: runs of the notifier

\* What is left of a table are rows of it, in its order.
LEMMA RestIsPart ==
    ASSUME NEW t \in Seq(Nat), Distinct(t), NEW out \in SUBSET Indices(t)
    PROVE  PartOf(Rest(t, out), t) /\ InOrder(Rest(t, out), t)
<1> DEFINE r == Rest(t, out)
           h(j) == Shift(out, j)
<1>1. Len(t) \in Nat /\ \A i : i \in Indices(t) <=> i \in Nat /\ i < Len(t)
  BY IndicesAre
<1>2. out \in IndexSet
  <2>1. Indices(t) \in IndexSet
    BY <1>1, UpToIsIndexSet DEF Indices
  <2> QED
    BY <2>1, FS_Subset DEF IndexSet
<1>3. /\ r \in Seq(Nat) /\ Len(r) = Unshift(out, Len(t)) /\ Len(r) \in Nat
      /\ \A k \in 0 .. Len(t) - 1 : k \notin out => r[Unshift(out, k) + 1] = t[k + 1]
  <2>1. RestOf(Nat, r, t, out, Len(t))
    BY <1>2, RestFacts
  <2> QED
    BY <2>1 DEF RestOf
<1> HIDE DEF r
<1>4. ASSUME NEW j \in Indices(r)
      PROVE  /\ j \in Nat /\ h(j) \in Nat /\ h(j) \in Indices(t) /\ h(j) \notin out
             /\ Unshift(out, h(j)) = j /\ At(r, j) = At(t, h(j))
  <2>1. j \in Nat /\ j < Len(r)
    BY <1>3, IndicesAre
  <2>2. h(j) \in Nat /\ h(j) \notin out /\ Unshift(out, h(j)) = j
    BY <1>2, <2>1, ShiftFacts
  <2> HIDE DEF h
  <2>3. Len(t) <= h(j) => Len(r) <= j
    BY <1>1, <1>2, <1>3, <2>2, UnshiftOrder
  <2>4. h(j) < Len(t)
    BY <1>1, <1>3, <2>1, <2>2, <2>3
  <2>5. h(j) \in 0 .. Len(t) - 1
    BY <1>1, <2>2, <2>4
  <2>6. r[j + 1] = t[h(j) + 1]
    BY <1>3, <2>2, <2>5
  <2> QED
    BY <1>1, <2>1, <2>2, <2>4, <2>6 DEF At
<1> HIDE DEF h
<1>5. \A j, k \in Indices(r) : At(r, j) = At(r, k) => j = k
  <2> SUFFICES ASSUME NEW j \in Indices(r), NEW k \in Indices(r), At(r, j) = At(r, k) PROVE j = k
    OBVIOUS
  <2>1. h(j) = h(k)
    BY <1>4 DEF Distinct
  <2> QED
    BY <1>4, <2>1
<1>6. InOrder(r, t)
  <2> SUFFICES ASSUME NEW j \in Indices(r), NEW k \in Indices(r),
                      NEW x \in Indices(t), NEW y \in Indices(t),
                      j < k, At(t, x) = At(r, j), At(t, y) = At(r, k)
               PROVE  x < y
    BY DEF InOrder
  <2>1. x = h(j) /\ y = h(k)
    BY <1>4 DEF Distinct
  <2>2. h(k) <= h(j) => Unshift(out, h(k)) <= Unshift(out, h(j))
    BY <1>2, <1>4, UnshiftOrder
  <2>3. j \in Nat /\ k \in Nat /\ h(j) \in Nat /\ h(k) \in Nat
        /\ Unshift(out, h(j)) = j /\ Unshift(out, h(k)) = k
    BY <1>4
  <2> QED
    BY <2>1, <2>2, <2>3
<1>7. \A j \in Indices(r) : \E x \in Indices(t) : At(t, x) = At(r, j)
  BY <1>4
<1>8. PartOf(r, t)
  BY <1>3, <1>5, <1>7 DEF PartOf, Distinct
<1> QED
  BY <1>6, <1>8 DEF r

\* Rows of a table in any order.
LEMMA OrderedIsPart ==
    ASSUME NEW t \in Seq(Nat), NEW s \in SUBSET ToSet(t), NEW r \in SetToSeqs(s)
    PROVE  PartOf(r, t)
<1> DEFINE n == Cardinality(s)
<1>1. /\ \A e : e \in ToSet(t) <=> \E i \in Indices(t) : At(t, i) = e
      /\ \A e \in ToSet(t) : e \in Nat
  BY InSequence
<1>2. IsFiniteSet(s)
  <2>1. IsFiniteSet(ToSet(t))
    <3>1. t \in [1 .. Len(t) -> ToSet(t)] /\ IsFiniteSet(1 .. Len(t)) /\ Len(t) \in Nat
      BY SMTT(30), FS_Interval DEF ToSet
    <3>2. \A e \in ToSet(t) : \E i \in 1 .. Len(t) : t[i] = e
      BY DEF ToSet
    <3>3. t \in Surjection(1 .. Len(t), ToSet(t))
      BY <3>1, <3>2 DEF Surjection
    <3> QED
      BY <3>1, <3>3, FS_Surjection
  <2> QED
    BY <2>1, FS_Subset
<1>3. n \in Nat
  BY <1>2, FS_CardinalityType
<1>4. r \in [1 .. n -> s] /\ \A i, j \in 1 .. n : i # j => r[i] # r[j]
  BY DEF SetToSeqs
<1> HIDE DEF n
<1>5. \A i \in 1 .. n : r[i] \in Nat /\ r[i] \in ToSet(t)
  BY <1>1, <1>4
<1>6. r \in Seq(Nat) /\ Len(r) = n
  <2>1. r \in [1 .. n -> Nat]
    BY <1>4, <1>5
  <2> QED
    BY <1>3, <2>1
<1>7. \A j \in Indices(r) : j + 1 \in 1 .. n /\ At(r, j) = r[j + 1] /\ j \in Nat
  BY <1>6, IndicesAre
<1>8. Distinct(r)
  <2> SUFFICES ASSUME NEW j \in Indices(r), NEW k \in Indices(r), At(r, j) = At(r, k) PROVE j = k
    BY DEF Distinct
  <2>1. j + 1 = k + 1
    BY <1>4, <1>7
  <2> QED
    BY <1>7, <2>1
<1>9. \A j \in Indices(r) : \E x \in Indices(t) : At(t, x) = At(r, j)
  BY <1>1, <1>5, <1>7
<1> QED
  BY <1>6, <1>8, <1>9 DEF PartOf

\* What a query can find are rows of the table, and in its order unless they are sorted.
LEMMA SelectionIsPart ==
    ASSUME NEW k \in {"unsorted", "sorted"}, NEW t \in Seq(Nat), Distinct(t),
           NEW r \in Selections(k, t)
    PROVE  PartOf(r, t) /\ (k = "unsorted" => InOrder(r, t))
<1>1. \/ r \in {Rest(t, out) : out \in SUBSET Indices(t)}
      \/ k = "sorted" /\ r \in UNION {SetToSeqs(s) : s \in SUBSET ToSet(t)}
  BY DEF Selections, Matching
<1>2. CASE r \in {Rest(t, out) : out \in SUBSET Indices(t)}
  <2>1. PICK out \in SUBSET Indices(t) : r = Rest(t, out)
    BY <1>2
  <2> QED
    BY <2>1, RestIsPart
<1>3. CASE k = "sorted" /\ r \in UNION {SetToSeqs(s) : s \in SUBSET ToSet(t)}
  <2>1. PICK s \in SUBSET ToSet(t) : r \in SetToSeqs(s)
    BY <1>3
  <2> QED
    BY <1>3, <2>1, OrderedIsPart
<1> QED
  BY <1>1, <1>2, <1>3

\* The rows that calculate compares are those of the results p and r of the tables s and
\* t: where changes leads the ones, or gone, and where the others are.
LookedUp(old, new, changes, s, p, t, r) ==
    /\ RowLists(old, new) /\ Len(old) = Len(p) /\ Len(new) = Len(r)
    /\ \A x \in Indices(p) :
           At(old, x) = Gone \/ \E w \in Indices(s) : /\ At(s, w) = At(p, x)
                                                      /\ <<w, At(old, x)>> \in Tracks(changes)
                                                      /\ At(old, x) \in Indices(t)
                                                      /\ At(t, At(old, x)) = At(p, x)
    /\ \A y \in Indices(r) : At(new, y) \in Indices(t) /\ At(t, At(new, y)) = At(r, y)

\* ResultsNotifier looks them up like that.
LEMMA LookUp ==
    ASSUME NEW s \in Seq(Nat), Distinct(s), NEW t \in Seq(Nat), Distinct(t),
           NEW p, PartOf(p, s), NEW r, PartOf(r, t), NEW changes, Leads(s, changes, t),
           NEW old, old = [i \in DOMAIN p |-> Follow(changes, Place(s, p[i]))],
           NEW new, new = [i \in DOMAIN r |-> Place(t, r[i])]
    PROVE  LookedUp(old, new, changes, s, p, t, r)
<1>1. /\ p \in Seq(Nat) /\ Len(p) \in Nat /\ Distinct(p)
      /\ r \in Seq(Nat) /\ Len(r) \in Nat /\ Distinct(r)
      /\ \A j \in Indices(p) : \E x \in Indices(s) : At(s, x) = At(p, j)
      /\ \A j \in Indices(r) : \E x \in Indices(t) : At(t, x) = At(r, j)
  BY DEF PartOf
<1>2. /\ \A x : x \in Indices(p) <=> x \in Nat /\ x < Len(p)
      /\ \A x : x \in Indices(r) <=> x \in Nat /\ x < Len(r)
      /\ \A x \in Indices(s) : x \in Nat
      /\ \A x \in Indices(t) : x \in Nat
  BY <1>1, IndicesAre
<1>3. ASSUME NEW x \in Indices(p)
      PROVE  LET w == Place(s, At(p, x)) IN w \in Indices(s) /\ At(s, w) = At(p, x)
  <2>1. PICK w \in Indices(s) : At(s, w) = At(p, x)
    BY <1>1
  <2>2. \A k \in Indices(s) : At(s, k) = At(s, w) => k = w
    BY DEF Distinct
  <2>3. Place(s, At(s, w)) = w
    BY <2>2, PlaceIs
  <2> QED
    BY <2>1, <2>3
<1>4. ASSUME NEW y \in Indices(r)
      PROVE  LET w == Place(t, At(r, y)) IN w \in Indices(t) /\ At(t, w) = At(r, y)
  <2>1. PICK w \in Indices(t) : At(t, w) = At(r, y)
    BY <1>1
  <2>2. \A k \in Indices(t) : At(t, k) = At(t, w) => k = w
    BY DEF Distinct
  <2>3. Place(t, At(t, w)) = w
    BY <2>2, PlaceIs
  <2> QED
    BY <2>1, <2>3
<1>5. /\ \A x \in Indices(p) : x + 1 \in 1 .. Len(p) /\ At(p, x) = p[x + 1]
      /\ \A y \in Indices(r) : y + 1 \in 1 .. Len(r) /\ At(r, y) = r[y + 1]
  BY <1>1, IndicesAre
<1>6. DOMAIN p = 1 .. Len(p) /\ DOMAIN r = 1 .. Len(r)
  BY <1>1
<1>7. /\ \A x \in Indices(p) : At(old, x) = Follow(changes, Place(s, At(p, x)))
      /\ \A y \in Indices(r) : At(new, y) = Place(t, At(r, y))
  BY <1>5, <1>6 DEF At
<1>8. ASSUME NEW x \in Indices(p)
      PROVE  At(old, x) = Gone \/ \E w \in Indices(s) : /\ At(s, w) = At(p, x)
                                                        /\ <<w, At(old, x)>> \in Tracks(changes)
                                                        /\ At(old, x) \in Indices(t)
                                                        /\ At(t, At(old, x)) = At(p, x)
  <2> DEFINE w == Place(s, At(p, x))
  <2>1. w \in Indices(s) /\ At(s, w) = At(p, x)
    BY <1>3
  <2> HIDE DEF w
  <2>2. At(old, x) = Follow(changes, w)
    BY <1>7 DEF w
  <2>3. Follow(changes, w) = Gone \/ <<w, Follow(changes, w)>> \in Tracks(changes)
    BY <1>2, <2>1, FollowIsTracked DEF Leads
  <2>4. CASE <<w, Follow(changes, w)>> \in Tracks(changes)
    <3>1. Follow(changes, w) \in Indices(t) /\ At(s, w) = At(t, Follow(changes, w))
      BY <2>1, <2>4 DEF Leads
    <3> QED
      BY <2>1, <2>2, <2>4, <3>1
  <2> QED
    BY <2>2, <2>3, <2>4
<1>9. \A y \in Indices(r) : At(new, y) \in Indices(t) /\ At(t, At(new, y)) = At(r, y)
  BY <1>4, <1>7
<1>10. /\ old \in Seq(Nat \cup {Gone}) /\ Len(old) = Len(p)
       /\ new \in Seq(Nat) /\ Len(new) = Len(r)
  <2>1. ASSUME NEW i \in 1 .. Len(p) PROVE old[i] \in Nat \cup {Gone}
    <3>0. i - 1 \in Nat /\ i - 1 < Len(p) /\ (i - 1) + 1 = i
      <4>1. Len(p) \in Nat
        BY <1>1
      <4> QED
        BY ONLY <4>1, i \in 1 .. Len(p)
    <3>1. i - 1 \in Indices(p) /\ (i - 1) + 1 = i
      BY <1>2, <3>0
    <3>2. At(old, i - 1) \in Nat \cup {Gone}
      BY <1>2, <1>8, <3>1
    <3> QED
      BY <3>1, <3>2 DEF At
  <2>2. ASSUME NEW i \in 1 .. Len(r) PROVE new[i] \in Nat
    <3>0. i - 1 \in Nat /\ i - 1 < Len(r) /\ (i - 1) + 1 = i
      <4>1. Len(r) \in Nat
        BY <1>1
      <4> QED
        BY ONLY <4>1, i \in 1 .. Len(r)
    <3>1. i - 1 \in Indices(r) /\ (i - 1) + 1 = i
      BY <1>2, <3>0
    <3>2. At(new, i - 1) \in Nat
      BY <1>2, <1>9, <3>1
    <3> QED
      BY <3>1, <3>2 DEF At
  <2>3. old \in [1 .. Len(p) -> Nat \cup {Gone}]
    BY <1>6, <2>1
  <2>4. new \in [1 .. Len(r) -> Nat]
    BY <1>6, <2>2
  <2> QED
    BY <1>1, <2>3, <2>4
<1>11. Indices(old) = Indices(p) /\ Indices(new) = Indices(r)
  BY <1>10 DEF Indices
<1>12. \A j, k \in Indices(old) : At(old, j) = At(old, k) /\ At(old, j) # Gone => j = k
  <2> SUFFICES ASSUME NEW j \in Indices(p), NEW k \in Indices(p),
                      At(old, j) = At(old, k), At(old, j) # Gone
               PROVE  j = k
    BY <1>11
  <2>1. At(t, At(old, j)) = At(p, j) /\ At(t, At(old, k)) = At(p, k)
    BY <1>8
  <2>2. At(p, j) = At(p, k)
    BY <2>1
  <2>3. \A m, n \in Indices(p) : At(p, m) = At(p, n) => m = n
    BY <1>1 DEF Distinct
  <2> QED
    BY ONLY <2>2, <2>3, j \in Indices(p), k \in Indices(p)
<1>13. Distinct(new)
  <2> SUFFICES ASSUME NEW j \in Indices(r), NEW k \in Indices(r), At(new, j) = At(new, k) PROVE j = k
    BY <1>11 DEF Distinct
  <2>1. At(r, j) = At(r, k)
    BY <1>9
  <2>2. \A m, n \in Indices(r) : At(r, m) = At(r, n) => m = n
    BY <1>1 DEF Distinct
  <2> QED
    BY ONLY <2>1, <2>2, j \in Indices(r), k \in Indices(r)
<1>14. RowLists(old, new)
  BY <1>10, <1>12, <1>13 DEF RowLists
<1> QED
  BY <1>8, <1>9, <1>10, <1>14 DEF LookedUp

\* What calculate finds of the rows is a change of the results, and marks the modified ones.
LEMMA CalculatedFollows ==
    ASSUME NEW s, NEW t, NEW p, NEW r, NEW T, NEW changes, Pieces(s, changes, t, T),
           NEW old, NEW new, LookedUp(old, new, changes, s, p, t, r),
           NEW c, Calculated(c, old, new, changes.mod)
    PROVE  Follows(p, c, r) /\ MarksAll(c, r, T)
<1>1. /\ RowLists(old, new) /\ Len(old) = Len(p) /\ Len(new) = Len(r)
      /\ \A x \in Indices(p) :
             At(old, x) = Gone \/ \E w \in Indices(s) : /\ At(s, w) = At(p, x)
                                                        /\ <<w, At(old, x)>> \in Tracks(changes)
                                                        /\ At(old, x) \in Indices(t)
                                                        /\ At(t, At(old, x)) = At(p, x)
      /\ \A y \in Indices(r) : At(new, y) \in Indices(t) /\ At(t, At(new, y)) = At(r, y)
  BY DEF LookedUp
<1>2. Indices(old) = Indices(p) /\ Indices(new) = Indices(r)
  BY <1>1 DEF Indices
<1>3. /\ IsChange(c) /\ c.del \subseteq Indices(p) /\ c.ins \subseteq Indices(r)
      /\ \A x, y : <<x, y>> \in Tracks(c) =>
             /\ x \in Indices(p) <=> y \in Indices(r)
             /\ x \in Indices(p) => At(old, x) = At(new, y)
      /\ \A i : i \in c.mod <=> /\ i \in Indices(r) /\ At(new, i) \in ToSet(old)
                                /\ At(new, i) \in changes.mod
  BY <1>2 DEF Calculated
<1>4. /\ old \in Seq(Nat \cup {Gone}) /\ new \in Seq(Nat)
      /\ \A y \in Indices(new) : At(new, y) \in Nat
  <2>1. old \in Seq(Nat \cup {Gone}) /\ new \in Seq(Nat)
    BY <1>1 DEF RowLists
  <2> QED
    BY <2>1, IndicesAre
<1>5. ASSUME NEW x, NEW y, <<x, y>> \in Tracks(c), x \in Indices(p)
      PROVE  /\ y \in Indices(r) /\ At(p, x) = At(r, y)
             /\ y \in c.mod <=> At(r, y) \in T
  <2>1. y \in Indices(r) /\ At(old, x) = At(new, y) /\ At(new, y) \in Nat
    BY <1>2, <1>3, <1>4, <1>5
  <2>2. At(old, x) # Gone
    BY <2>1 DEF Gone
  <2>3. PICK w \in Indices(s) : /\ <<w, At(old, x)>> \in Tracks(changes)
                                /\ At(old, x) \in Indices(t)
                                /\ At(t, At(old, x)) = At(p, x)
    BY <1>1, <1>5, <2>2
  <2>4. At(p, x) = At(r, y)
    BY <1>1, <2>1, <2>3
  <2>5. At(old, x) \in changes.mod <=> At(t, At(old, x)) \in T
    BY <2>3 DEF Pieces, MarksJust
  <2>6. At(new, y) \in ToSet(old)
    BY <1>2, <1>4, <1>5, <2>1, InSequence
  <2> QED
    BY <1>3, <2>1, <2>3, <2>4, <2>5, <2>6
<1>6. Follows(p, c, r)
  BY <1>3, <1>5 DEF Follows
<1>7. MarksAll(c, r, T)
  <2> SUFFICES ASSUME NEW x, NEW y, <<x, y>> \in Tracks(c)
               PROVE  y \in c.mod <=> y \in Indices(r) /\ At(r, y) \in T
    BY DEF MarksAll
  <2> QED
    BY <1>3, <1>5
<1> QED
  BY <1>6, <1>7

\* Rows that were not moved in the table are in the same order as before, in results
\* that are in the order of the table.
LEMMA OthersInOrder ==
    ASSUME NEW s, NEW t, NEW p, NEW r, NEW changes, IsChange(changes),
           NEW old, NEW new, LookedUp(old, new, changes, s, p, t, r),
           InOrder(p, s), InOrder(r, t), \A x \in Indices(s) : x \in Nat,
           NEW rows, NEW from, NEW to, Common(old, new, rows, from, to),
           NEW m \in 1 .. Len(rows), NEW n \in 1 .. Len(rows), m < n,
           rows[m] \notin changes.ins, rows[n] \notin changes.ins
    PROVE  from[m] < from[n]
<1>1. /\ RowLists(old, new) /\ Len(old) = Len(p) /\ Len(new) = Len(r)
      /\ \A x \in Indices(p) :
             At(old, x) = Gone \/ \E w \in Indices(s) : /\ At(s, w) = At(p, x)
                                                        /\ <<w, At(old, x)>> \in Tracks(changes)
                                                        /\ At(old, x) \in Indices(t)
                                                        /\ At(t, At(old, x)) = At(p, x)
      /\ \A y \in Indices(r) : At(new, y) \in Indices(t) /\ At(t, At(new, y)) = At(r, y)
  BY DEF LookedUp
<1>2. Indices(old) = Indices(p) /\ Indices(new) = Indices(r)
  BY <1>1 DEF Indices
<1>3. /\ rows \in Seq(Nat) /\ from \in [1 .. Len(rows) -> Indices(p)]
      /\ to \in [1 .. Len(rows) -> Indices(r)]
      /\ \A k \in 1 .. Len(rows) : At(old, from[k]) = rows[k] /\ At(new, to[k]) = rows[k]
      /\ \A k, l \in 1 .. Len(rows) : k < l => to[k] < to[l]
      /\ \A k, l \in 1 .. Len(rows) : k # l => from[k] # from[l]
  BY <1>2 DEF Common
<1>4. \A k \in 1 .. Len(rows) : /\ rows[k] \in Nat /\ rows[k] # Gone
                                /\ from[k] \in Indices(p) /\ to[k] \in Indices(r)
                                /\ rows[k] \in Indices(t) /\ At(t, rows[k]) = At(r, to[k])
  <2> SUFFICES ASSUME NEW k \in 1 .. Len(rows)
               PROVE  /\ rows[k] \in Nat /\ rows[k] # Gone
                      /\ from[k] \in Indices(p) /\ to[k] \in Indices(r)
                      /\ rows[k] \in Indices(t) /\ At(t, rows[k]) = At(r, to[k])
    OBVIOUS
  <2>1. rows[k] \in Nat /\ from[k] \in Indices(p) /\ to[k] \in Indices(r)
    BY <1>3
  <2>2. At(new, to[k]) \in Indices(t) /\ At(t, At(new, to[k])) = At(r, to[k])
    BY <1>1, <2>1
  <2>3. At(new, to[k]) = rows[k]
    BY <1>3
  <2>4. rows[k] # Gone
    BY <2>1 DEF Gone
  <2> QED
    BY <2>1, <2>2, <2>3, <2>4
<1>5. rows[m] < rows[n]
  <2>1. to[m] < to[n]
    BY <1>3
  <2> QED
    BY <1>4, <2>1 DEF InOrder
<1>6. PICK v \in Indices(s) : At(s, v) = At(p, from[m]) /\ <<v, rows[m]>> \in Tracks(changes)
  BY <1>1, <1>3, <1>4
<1>7. PICK w \in Indices(s) : At(s, w) = At(p, from[n]) /\ <<w, rows[n]>> \in Tracks(changes)
  BY <1>1, <1>3, <1>4
<1> DEFINE Wh(x) == Where(changes.del, changes.ins, x)
<1>8. /\ \A k \in 1 .. Len(changes.moves) : changes.moves[k].to \in changes.ins
      /\ changes.del \in IndexSet /\ changes.ins \in IndexSet
  BY ChangeFacts
<1>9. /\ v \in Nat /\ v \notin changes.del /\ rows[m] = Wh(v)
      /\ w \in Nat /\ w \notin changes.del /\ rows[n] = Wh(w)
  <2>1. \A x, y : <<x, y>> \in Tracks(changes)
                 => \/ x \in Nat /\ x \notin changes.del /\ y = Wh(x)
                    \/ \E k \in 1 .. Len(changes.moves) : x = changes.moves[k].from
                                                          /\ y = changes.moves[k].to
    BY TracksFacts
  <2> HIDE DEF Wh
  <2> QED
    BY SMTT(30), <1>6, <1>7, <1>8, <2>1
<1>10. ~(w < v) /\ w # v
  <2>1. w < v => Wh(w) < Wh(v)
    BY <1>8, <1>9, WhereOrder
  <2> HIDE DEF Wh
  <2> QED
    BY <1>4, <1>5, <1>9, <2>1
<1>11. ~(from[n] < from[m])
  BY <1>4, <1>6, <1>7, <1>10 DEF InOrder
<1>12. from[m] # from[n] /\ from[m] \in Nat /\ from[n] \in Nat
  <2>1. m # n
    BY <1>3
  <2> QED
    BY <1>1, <1>3, <1>4, <2>1 DEF Indices
<1> QED
  BY <1>11, <1>12

\* What AllPieces says of the table.
LEMMA AllPiecesRead ==
    ASSUME TableInv, Table
    PROVE  Pieces(then, AllPieces, now, touched)
<1>1. AllPieces = MergedFromLast(Append(pieces, ParseComplete(log)))
  BY DEF AllPieces, Complete
<1>2. PICK mid, T, U, N : TableReadAs(mid, T, U, N)
  BY DEF TableInv, TableRead
<1>3. /\ mid \in Seq(Nat) /\ Len(mid) \in Nat /\ Len(mid) <= MaxElements
      /\ touched = T \cup U /\ TableLog(log, mid, now, U, N, {}) /\ LeadOn(mid, T)
  BY <1>2 DEF TableReadAs
<1>4. now \in Seq(Nat) /\ Distinct(now) /\ Len(mid) <= NoRow
  BY <1>3, NowFacts, BoundsAssumption, NoRowAssumption
<1>5. Pieces(mid, ParseComplete(log), now, U)
  BY <1>3, <1>4, CompleteLeads DEF Pieces
<1>6. Pieces(then, MergedFromLast(Append(pieces, ParseComplete(log))), now, T \cup U)
  BY <1>3, <1>5 DEF LeadOn
<1> QED
  BY <1>1, <1>3, <1>6

\* What a run adds to the accumulated changes, and that it begins to read anew.
LEMMA TableAddChangesKeeps ==
    ASSUME TableInv, NEW change, NEW results, AddChanges(change, results),
           PartOf(results, now), kind = "unsorted" => InOrder(results, now),
           excused => excused',
           ~excused' => Follows(prev, change, results) /\ MarksAll(change, results, touched)
    PROVE  TableInv'
<1>1. /\ acc' = Merge(acc, change) /\ prev' = results /\ then' = now
      /\ dirty' = dirty \cup touched /\ touched' = {} /\ log' = Empty /\ pieces' = <<>>
      /\ UNCHANGED <<kind, gone, now, made, base>>
  BY DEF AddChanges
<1>2. /\ made \in Nat /\ made <= MaxElements /\ now \in Seq(Nat) /\ Len(now) \in Nat
      /\ Len(now) <= made /\ Distinct(now)
  BY NowFacts
<1>3. prev \in Seq(Nat) /\ base \in Seq(Nat) /\ results \in Seq(Nat)
  BY DEF TableInv, PartOf
<1>4. ASSUME ~excused' PROVE Accumulated'
  <2>1. ~excused
    BY <1>4
  <2>2. Follows(base, acc, prev) /\ MarksAll(acc, prev, dirty)
    BY <2>1 DEF TableInv, Accumulated
  <2>3. IsChange(acc) /\ IsChange(change)
    BY <1>4, <2>2 DEF Follows
  <2>4. Continues(Merge(acc, change), acc, change) /\ KeepsModifications(Merge(acc, change), acc, change)
    BY <2>3, MergeComposes, MergeKeepsModifications
  <2>5. Follows(base, acc', prev')
    BY <1>1, <1>3, <1>4, <2>2, <2>4, ContinuedFollows
  <2>6. MarksAll(acc', prev', dirty')
    BY <1>1, <1>4, <2>2, <2>4, ContinuedMarksAll
  <2> QED
    BY <1>1, <2>5, <2>6 DEF Accumulated
<1>5. ASSUME NEW c, NEW t, NEW V, Pieces(now, c, t, V)
      PROVE  Pieces(now, MergedFromLast(Append(<<>>, c)), t, {} \cup V)
  <2>1. c \in Changes
    BY <1>5 DEF Pieces, Leads, IsChange, Changes
  <2>2. Append(<<>>, c) = <<c>>
    BY <2>1
  <2> QED
    BY <1>5, <2>1, <2>2, FromLastOfOne
<1>6. LeadOn(now, {})'
  BY <1>1, <1>5 DEF LeadOn
<1>7. TableLog(Empty, now, now, {}, made, {})
  BY <1>2, EmptyLog
<1>8. Len(now) <= MaxElements
  BY <1>2, BoundsAssumption
<1>9. TableReadAs(now, {}, {}, made)'
  BY <1>1, <1>2, <1>6, <1>7, <1>8 DEF TableReadAs
<1>10. TableRead'
  BY <1>9 DEF TableRead
<1>11. pieces' \in Seq(Changes)
  BY <1>1
<1> QED
  BY <1>1, <1>2, <1>3, <1>4, <1>10, <1>11 DEF TableInv

\* ResultsNotifier::run, of results in the order of the table
LEMMA RunUnsortedKeepsInv ==
    ASSUME TableInv, kind = "unsorted", NEW results \in Selections(kind, now), RunResults(results)
    PROVE  TableInv'
<1> DEFINE changes == AllPieces
           old == [i \in DOMAIN prev |-> Follow(changes, Place(then, prev[i]))]
           new == [i \in DOMAIN results |-> Place(now, results[i])]
           change == Calculate(old, new, changes.mod, changes.ins)
<1>1. /\ Table /\ AddChanges(change, results)
      /\ excused' = (excused \/ Unexpected(old, new, changes.ins))
  BY DEF RunResults
<1>2. /\ now \in Seq(Nat) /\ Distinct(now) /\ then \in Seq(Nat) /\ Distinct(then)
      /\ PartOf(prev, then) /\ InOrder(prev, then)
  BY DEF TableInv, RowsOf
<1>3. PartOf(results, now) /\ InOrder(results, now)
  BY <1>2, SelectionIsPart
<1>4. Pieces(then, changes, now, touched)
  BY <1>1, AllPiecesRead
<1> HIDE DEF changes
<1>5. LookedUp(old, new, changes, then, prev, now, results)
  BY <1>2, <1>3, <1>4, LookUp DEF Pieces
<1> HIDE DEF old, new
<1>6. ASSUME ~excused' PROVE Follows(prev, change, results) /\ MarksAll(change, results, touched)
  <2>1. RowLists(old, new)
    BY <1>5 DEF LookedUp
  <2>2. PICK from, to : Common(old, new, Both(old, new), from, to)
    BY <2>1, CommonRows
  <2>3. ~(Cardinality(MovedFromBefore(old, new, changes.ins)) > 1)
    BY <1>1, <1>6 DEF Unexpected
  <2>4. ASSUME NEW m \in 1 .. Len(Both(old, new)), NEW n \in 1 .. Len(Both(old, new)), m < n,
               Both(old, new)[m] \notin changes.ins, Both(old, new)[n] \notin changes.ins
        PROVE  from[m] < from[n]
    <3>1. IsChange(changes) /\ \A x \in Indices(then) : x \in Nat
      BY <1>2, <1>4, IndicesAre DEF Pieces, Leads
    <3> HIDE DEF change
    <3> QED
      BY <1>2, <1>3, <1>5, <2>2, <2>4, <3>1, OthersInOrder
  <2>5. AsExpected(Both(old, new), from, changes.ins)
    BY <2>2, <2>3, <2>4, ExpectedRows
  <2>6. change = MovesUnsorted(old, new, changes.ins, Begun(old, new, changes.mod))
    BY DEF Calculate, Begun, NewOf
  <2>7. Calculated(change, old, new, changes.mod)
    <3> HIDE DEF change
    <3> QED
      BY <2>1, <2>2, <2>5, <2>6, UnsortedCalculated
  <2> HIDE DEF change
  <2> QED
    BY <1>4, <1>5, <2>7, CalculatedFollows
<1>7. excused => excused'
  BY <1>1
<1> HIDE DEF change
<1> QED
  BY <1>1, <1>3, <1>6, <1>7, TableAddChangesKeeps

\* ResultsNotifier::run, of sorted results
LEMMA RunSortedKeepsInv ==
    ASSUME TableInv, kind = "sorted", NEW results \in Selections(kind, now), RunResults(results)
    PROVE  TableInv'
<1> DEFINE changes == AllPieces
           old == [i \in DOMAIN prev |-> Follow(changes, Place(then, prev[i]))]
           new == [i \in DOMAIN results |-> Place(now, results[i])]
           change == Calculate(old, new, changes.mod, changes.ins)
<1>1. /\ Table /\ AddChanges(change, results)
      /\ excused' = (excused \/ Unexpected(old, new, changes.ins))
  BY DEF RunResults
<1>2. /\ now \in Seq(Nat) /\ Distinct(now) /\ then \in Seq(Nat) /\ Distinct(then)
      /\ PartOf(prev, then)
  BY DEF TableInv, RowsOf
<1>3. PartOf(results, now)
  BY <1>2, SelectionIsPart
<1>4. Pieces(then, changes, now, touched)
  BY <1>1, AllPiecesRead
<1> HIDE DEF changes
<1>5. LookedUp(old, new, changes, then, prev, now, results)
  BY <1>2, <1>3, <1>4, LookUp DEF Pieces
<1> HIDE DEF old, new
<1>6. change = MovesSorted(old, new, Begun(old, new, changes.mod))
  BY DEF Calculate, Begun, NewOf
<1>7. RowLists(old, new)
  BY <1>5 DEF LookedUp
<1> HIDE DEF change
<1>8. Calculated(change, old, new, changes.mod)
  BY <1>6, <1>7, SortedCalculated
<1>9. Follows(prev, change, results) /\ MarksAll(change, results, touched)
  BY <1>4, <1>5, <1>8, CalculatedFollows
<1>10. excused => excused'
  BY <1>1
<1> QED
  BY <1>1, <1>3, <1>9, <1>10, TableAddChangesKeeps

-----------------------------------------------------------------------------
\* Tables: every step

\* The invariant holds at first.
LEMMA TableInit ==
    ASSUME Init, Table
    PROVE  TableInv
<1> DEFINE N == InitialSize[kind]
<1>1. /\ kind \in {"unsorted", "sorted"} /\ N \in Nat /\ N <= MaxElements
  BY BoundsAssumption DEF Init, Table
<1>2. /\ now = [i \in 1 .. N |-> i] /\ made = N /\ then = now /\ base = prev /\ ~gone
      /\ log = Empty /\ pieces = <<>> /\ acc = Empty /\ touched = {} /\ dirty = {} /\ ~excused
      /\ prev \in Selections(kind, now)
  BY DEF Init
<1> HIDE DEF N
<1>3. now \in Seq(Nat) /\ Len(now) = N /\ \A n \in 1 .. N : now[n] = n
  <2>1. now \in [1 .. N -> Nat] /\ DOMAIN now = 1 .. N
    BY <1>2
  <2> QED
    BY <1>1, <1>2, <2>1
<1>4. \A k \in Indices(now) : k \in Nat /\ At(now, k) = k + 1 /\ 1 <= At(now, k) /\ At(now, k) <= N
  <2> SUFFICES ASSUME NEW k \in Indices(now)
               PROVE  k \in Nat /\ At(now, k) = k + 1 /\ 1 <= At(now, k) /\ At(now, k) <= N
    OBVIOUS
  <2>1. k \in Nat /\ k < N
    BY <1>1, <1>3 DEF Indices
  <2>2. k + 1 \in 1 .. N
    BY <1>1, <2>1
  <2> QED
    BY <1>1, <1>3, <2>1, <2>2 DEF At
<1>5. Distinct(now)
  BY <1>4 DEF Distinct
<1>6. RowsOf(now, made)
  BY <1>1, <1>2, <1>3, <1>4, <1>5 DEF RowsOf
<1>7. PartOf(prev, then) /\ (kind = "unsorted" => InOrder(prev, then))
  BY <1>1, <1>2, <1>3, <1>5, SelectionIsPart
<1>8. prev \in Seq(Nat)
  BY <1>7 DEF PartOf
<1>9. ASSUME NEW c, NEW t, NEW V, Pieces(now, c, t, V)
      PROVE  Pieces(now, MergedFromLast(Append(<<>>, c)), t, {} \cup V)
  <2>1. c \in Changes
    BY <1>9 DEF Pieces, Leads, IsChange, Changes
  <2>2. Append(<<>>, c) = <<c>>
    BY <2>1
  <2> QED
    BY <1>9, <2>1, <2>2, FromLastOfOne
<1>10. LeadOn(now, {})
  BY <1>2, <1>9 DEF LeadOn
<1>11. TableLog(log, now, now, {}, made, {})
  BY <1>1, <1>2, <1>3, <1>5, EmptyLog
<1>12. TableReadAs(now, {}, {}, made)
  BY <1>1, <1>2, <1>3, <1>10, <1>11 DEF TableReadAs
<1>13. Accumulated
  BY <1>2, <1>8, EmptyShows DEF Accumulated, Shows
<1>14. pieces \in Seq(Changes) /\ TableRead
  BY <1>2, <1>12 DEF TableRead
<1> QED
  BY <1>1, <1>2, <1>3, <1>5, <1>6, <1>7, <1>8, <1>13, <1>14 DEF TableInv

\* Every step keeps the invariant, the instructions on lists and the runs of list
\* notifiers included, which never happen to a table.
LEMMA TableStep ==
    ASSUME Table, TableInv, [Next]_vars
    PROVE  TableInv'
<1>t. Table /\ ~gone /\ kind # "list"
  BY DEF Table, TableInv
<1>1. ASSUME NEW i \in 0 .. MaxElements - 1, EraseRow(i) \/ ModifyRow(i) PROVE TableInv'
  BY <1>1, EraseRowKeepsInv, ModifyRowKeepsInv
<1>2. ASSUME NEW i \in 0 .. MaxElements - 1, NEW j \in 0 .. MaxElements - 1,
             SwapTableRows(i, j) \/ MergeRows(i, j)
      PROVE  TableInv'
  BY <1>2, SwapTableRowsKeepsInv, MergeRowsKeepsInv
<1>3. InsertRow \/ ClearTable => TableInv'
  BY InsertRowKeepsInv, ClearTableKeepsInv
<1>4. AdvanceIncremental \/ Deliver => TableInv'
  BY <1>t, AdvanceKeepsInv, DeliverKeepsInv
<1>5. ASSUME NEW results \in Selections(kind, now), RunResults(results) PROVE TableInv'
  BY <1>t, <1>5, RunUnsortedKeepsInv, RunSortedKeepsInv DEF Table
<1>6. CASE UNCHANGED vars
  <2>1. UNCHANGED <<kind, gone, now, made, touched, then, prev, base, acc, dirty, log, pieces, excused>>
    BY <1>6 DEF vars, content, runs
  <2>2. TableRead => TableRead'
    BY <2>1 DEF TableRead, TableReadAs, LeadOn
  <2>3. Accumulated => Accumulated'
    BY <2>1 DEF Accumulated
  <2> QED
    BY <2>1, <2>2, <2>3 DEF TableInv
<1>7. ASSUME NEW i \in 0 .. MaxElements - 1, LinkListInsert(i) \/ LinkListErase(i) PROVE FALSE
  BY <1>t, <1>7 DEF LinkListInsert, LinkListErase
<1>8. ASSUME NEW i \in 0 .. MaxElements - 1, NEW j \in 0 .. MaxElements - 1,
             LinkListMove(i, j) \/ LinkListSet(i, j)
      PROVE  FALSE
  BY <1>t, <1>8 DEF LinkListMove, LinkListSet
<1>9. ASSUME NEW e \in Elements, ModifyObject(e) PROVE FALSE
  BY <1>t, <1>9 DEF ModifyObject
<1>10. ~LinkListClear /\ ~DeleteOwner /\ ~RunList /\ ~RunGone
  BY <1>t DEF LinkListClear, DeleteOwner, RunList, RunGone
<1> QED
  BY <1>1, <1>2, <1>3, <1>4, <1>5, <1>6, <1>7, <1>8, <1>9, <1>10 DEF Next

-----------------------------------------------------------------------------
\* Lists and tables: what a callback is told

\* The inductive invariant of whatever collection it is.
CollectionInv == (kind = "list" => ListInv) /\ (Table => TableInv) /\ (kind = "list" \/ Table)

\* The collection is always as its invariant says.
LEMMA CollectionInvCorrect ==
    Spec => []CollectionInv
<1>1. Init => CollectionInv
  <2>1. Init => kind = "list" \/ Table
    BY KindsAssumption DEF Init, Table
  <2> QED
    BY <2>1, ListInit, TableInit DEF CollectionInv
<1>2. CollectionInv /\ [Next]_vars => CollectionInv'
  <2> SUFFICES ASSUME CollectionInv, [Next]_vars PROVE CollectionInv'
    OBVIOUS
  <2>1. kind' = kind
    BY ZenonT(60) DEF Next, vars, content, runs, LinkListInsert, LinkListErase, LinkListMove, LinkListSet,
           LinkListClear, ModifyObject, DeleteOwner, InsertRow, EraseRow, SwapTableRows, MergeRows,
           ModifyRow, ClearTable, AdvanceIncremental, RunList, RunGone, RunResults, AddChanges,
           Deliver, Instruction
  <2>2. kind' = "list" => ListInv'
    BY <2>1, ListStep DEF CollectionInv
  <2>3. Table' => TableInv'
    BY <2>1, TableStep DEF CollectionInv, Table
  <2>4. (kind = "list" \/ Table)'
    BY <2>1 DEF CollectionInv, Table
  <2> QED
    BY <2>2, <2>3, <2>4 DEF CollectionInv
<1> QED
  BY <1>1, <1>2, PTL DEF Spec

\* Unless the behaviour is excused, the accumulated changes are those of the collection
\* the callback knows.
LEMMA AccumulatedHolds ==
    ASSUME CollectionInv, ~excused
    PROVE  Accumulated /\ base \in Seq(Nat) /\ prev \in Seq(Nat)
BY DEF CollectionInv, ListInv, TableInv, PartOf

\* Applies, for lists and tables of any size, any number of instructions, of pieces of the
\* log and of runs: the deletions and insertions that are delivered to the callback make
\* the collection it knows to the one of the last run.
THEOREM AppliesCorrect ==
    Spec => []Applies
<1>1. CollectionInv => Applies
  <2> SUFFICES ASSUME CollectionInv, ~excused
               PROVE  /\ acc.del \subseteq Indices(base) /\ acc.ins \subseteq Indices(prev)
                      /\ Rest(base, acc.del) = Rest(prev, acc.ins)
    BY DEF Applies
  <2>1. Follows(base, acc, prev) /\ base \in Seq(Nat) /\ prev \in Seq(Nat)
    BY AccumulatedHolds DEF Accumulated
  <2>2. Rest(base, acc.del) = Rest(prev, acc.ins)
    BY <2>1, FollowsLeavesTheSame
  <2> QED
    BY <2>1, <2>2 DEF Follows
<1> QED
  BY <1>1, CollectionInvCorrect, PTL

\* MovesAreTrue, for lists and tables of any size and any log: a move that is delivered
\* is one of a single element, and is among the deletions and insertions.
THEOREM MovesAreTrueCorrect ==
    Spec => []MovesAreTrue
<1>1. CollectionInv => MovesAreTrue
  <2> SUFFICES ASSUME CollectionInv, ~excused, NEW k \in DOMAIN acc.moves
               PROVE  /\ acc.moves[k].from \in acc.del /\ acc.moves[k].to \in acc.ins
                      /\ At(base, acc.moves[k].from) = At(prev, acc.moves[k].to)
    BY DEF MovesAreTrue
  <2>1. Follows(base, acc, prev)
    BY AccumulatedHolds DEF Accumulated
  <2>2. IsChange(acc) /\ acc.moves \in Seq(Move)
    BY <2>1, ChangeFacts DEF Follows
  <2>3. k \in 1 .. Len(acc.moves)
    BY <2>2
  <2>4. acc.moves[k].from \in acc.del /\ acc.moves[k].to \in acc.ins
    BY <2>2, <2>3, ChangeFacts
  <2>5. <<acc.moves[k].from, acc.moves[k].to>> \in Tracks(acc)
    BY <2>2, <2>3, TracksFacts
  <2>6. acc.moves[k].from \in Indices(base)
    BY <2>1, <2>4 DEF Follows
  <2> QED
    BY <2>1, <2>4, <2>5, <2>6 DEF Follows
<1> QED
  BY <1>1, CollectionInvCorrect, PTL

\* ModificationsAreTrue, for lists and tables of any size and any log: what is delivered as
\* modified is, in old and new indices, exactly what was modified and is not delivered
\* as inserted.
THEOREM ModificationsAreTrueCorrect ==
    Spec => []ModificationsAreTrue
<1>1. CollectionInv => ModificationsAreTrue
  <2> DEFINE kept == {At(prev, i) : i \in Indices(prev) \ acc.ins}
             newOnes == {At(prev, i) : i \in ModificationsNew(acc)}
             oldOnes == {At(base, i) : i \in ModificationsOld(acc)}
  <2> SUFFICES ASSUME CollectionInv, ~excused
               PROVE  newOnes = kept \cap dirty /\ oldOnes = kept \cap dirty
    BY DEF ModificationsAreTrue
  <2>1. Follows(base, acc, prev) /\ MarksAll(acc, prev, dirty)
    BY AccumulatedHolds DEF Accumulated
  <2>2. /\ IsChange(acc) /\ acc.del \in IndexSet /\ acc.ins \in IndexSet /\ acc.mod \in IndexSet
        /\ acc.mod \subseteq Nat /\ acc.del \subseteq Indices(base)
    BY <2>1, ChangeFacts DEF Follows, IndexSet
  <2>3. \A i \in Nat \ acc.ins : i \in acc.mod <=> i \in Indices(prev) /\ At(prev, i) \in dirty
    <3> SUFFICES ASSUME NEW i \in Nat, i \notin acc.ins
                 PROVE  i \in acc.mod <=> i \in Indices(prev) /\ At(prev, i) \in dirty
      OBVIOUS
    <3> DEFINE x == Where(acc.ins, acc.del, i)
    <3>1. x \in Nat /\ x \notin acc.del /\ Where(acc.del, acc.ins, x) = i
      BY <2>2, WhereFacts
    <3>2. <<x, i>> \in Tracks(acc)
      BY <2>2, <3>1, TracksStays
    <3> QED
      BY <2>1, <3>2 DEF MarksAll
  <2>4. Indices(prev) \subseteq Nat
    BY DEF Indices
  <2>5. newOnes = kept \cap dirty
    <3>1. \A i : i \in ModificationsNew(acc) <=> i \in Indices(prev) \ acc.ins /\ At(prev, i) \in dirty
      BY <2>2, <2>3, <2>4 DEF ModificationsNew
    <3> QED
      BY <3>1
  <2>6. ASSUME NEW x \in ModificationsOld(acc) PROVE At(base, x) \in kept \cap dirty
    <3> DEFINE y == Where(acc.del, acc.ins, x)
    <3>1. x \in Nat /\ x \notin acc.del /\ y \in acc.mod
      BY <2>2, OldModifications
    <3>2. y \in Nat /\ y \notin acc.ins
      BY <2>2, <3>1, WhereFacts
    <3>3. <<x, y>> \in Tracks(acc)
      BY <2>2, <3>1, TracksStays
    <3> HIDE DEF y
    <3>4. y \in Indices(prev) /\ At(prev, y) \in dirty
      BY <2>3, <3>1, <3>2
    <3>5. At(base, x) = At(prev, y)
      BY <2>1, <3>3, <3>4 DEF Follows
    <3> QED
      BY <3>2, <3>4, <3>5
  <2>7. ASSUME NEW y \in Indices(prev) \ acc.ins, At(prev, y) \in dirty PROVE At(prev, y) \in oldOnes
    <3> DEFINE x == Where(acc.ins, acc.del, y)
    <3>1. x \in Nat /\ x \notin acc.del /\ Where(acc.del, acc.ins, x) = y
      BY <2>2, <2>4, WhereFacts
    <3>2. <<x, y>> \in Tracks(acc)
      BY <2>2, <3>1, TracksStays
    <3>3. y \in acc.mod
      BY <2>3, <2>4, <2>7
    <3> HIDE DEF x
    <3>4. x \in ModificationsOld(acc)
      BY <2>2, <3>1, <3>3, OldModifications
    <3>5. At(base, x) = At(prev, y)
      BY <2>1, <3>2 DEF Follows
    <3> QED
      BY <3>4, <3>5
  <2>8. oldOnes = kept \cap dirty
    BY <2>6, <2>7
  <2> QED
    BY <2>5, <2>8
<1> QED
  BY <1>1, CollectionInvCorrect, PTL

===============================================================================
