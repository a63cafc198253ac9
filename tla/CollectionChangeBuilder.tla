------------------------ MODULE CollectionChangeBuilder ------------------------
(***************************************************************************)
(* realm::_impl::CollectionChangeBuilder: how a collection changed between *)
(* two versions, built from the instructions of a transaction log or from  *)
(* two lists of rows, and merged with later changes.                       *)
(*                                                                         *)
(* Deletions and the sources of moves are indices in the old collection,   *)
(* insertions, modifications and destinations are indices in the new one;  *)
(* a move is a deletion and an insertion as well.  The sets of each column *)
(* are treated like modifications, and left out.                           *)
(***************************************************************************)
EXTENDS IndexSets, SequencesExt

CONSTANT NoRow    \* bound: stands for the largest index there is

ASSUME NoRowAssumption == NoRow \in Nat

\* mapping is m_move_mapping: from the new index of a row to its old one
Empty == [del |-> {}, ins |-> {}, mod |-> {}, moves |-> <<>>, mapping |-> <<>>]
IsEmpty(c) == c.del = {} /\ c.ins = {} /\ c.mod = {} /\ c.moves = <<>>

Retarget(moves, NewPlace(_)) == [k \in DOMAIN moves |-> [moves[k] EXCEPT !.to = NewPlace(@)]]
Without(mapping, k) == [n \in DOMAIN mapping \ {k} |-> mapping[n]]
With(mapping, k, old) == [n \in DOMAIN mapping \cup {k} |-> IF n = k THEN old ELSE mapping[n]]
\* the moves with an end, "from" or "to", that is not in s
Excluding(moves, end, s) ==
    LET kept[n \in 0 .. Len(moves)] ==
          IF n = 0 THEN <<>>
          ELSE IF moves[n][end] \in s THEN kept[n - 1] ELSE Append(kept[n - 1], moves[n])
    IN  kept[Len(moves)]

-----------------------------------------------------------------------------
\* insert, of one row
Insert(c, i) ==
    LET Up(k) == IF k >= i THEN k + 1 ELSE k
        Back(k) == IF k > i THEN k - 1 ELSE k
    IN  [c EXCEPT !.mod = ShiftForInsert(@, i), !.ins = InsertIndex(@, i),
                  !.moves = Retarget(@, Up),
                  !.mapping = [k \in {Up(n) : n \in DOMAIN @} |-> c.mapping[Back(k)]]]

\* the index in the old collection of a row that is deleted now
OldIndex(c, i) == Shift(c.del, Unshift(c.ins, i))

\* erase
Erase(c, i) ==
    LET Down(k) == IF k > i THEN k - 1 ELSE k
    IN  [c EXCEPT !.mod = EraseIndex(@, i), !.ins = EraseIndex(@, i),
                  !.del = IF i \in c.ins THEN @ ELSE @ \cup {OldIndex(c, i)},
                  !.moves = Retarget(Excluding(@, "to", {i}), Down)]

\* clear; a table does not say how many rows it had
ClearOf(c, size) ==
    [Empty EXCEPT !.del = 0 .. size + Cardinality(c.del) - Cardinality(c.ins) - 1]
ClearAll == [Empty EXCEPT !.del = 0 .. NoRow - 1]

\* move: of A to B and of B to C make one of A to C, and those in between shift
Passed_NotTheLast(k, from, to) ==
    CASE k = from -> to [] k \in to .. from - 1 -> k + 1 [] k \in from + 1 .. to - 1 -> k - 1
      [] OTHER -> k
Passed(k, from, to) ==
    CASE k = from -> to [] k \in to .. from - 1 -> k + 1 [] k \in from + 1 .. to -> k - 1
      [] OTHER -> k
MoveRow(c, from, to) ==
    LET new  == from \notin c.ins
        mod  == EraseIndex(c.mod, from)
        kept == Retarget(c.moves, LAMBDA k : Passed(k, from, to))
    IN  [c EXCEPT !.mod = IF from \in @ THEN InsertIndex(mod, to) ELSE ShiftForInsert(mod, to),
                  !.ins = InsertIndex(EraseIndex(@, from), to),
                  !.del = IF new THEN @ \cup {OldIndex(c, from)} ELSE @,
                  !.moves = IF new THEN Append(kept, [from |-> OldIndex(c, from), to |-> to])
                            ELSE kept]

\* clean_up_stale_moves: a move that other insertions and deletions made void goes,
\* with its insertion and its deletion
Sift(d, move) ==
    IF Unshift(d.del, move.from) = Unshift(d.ins, move.to)
    THEN [d EXCEPT !.del = @ \ {move.from}, !.ins = @ \ {move.to}]
    ELSE [d EXCEPT !.moves = Append(@, move)]
CleanUp(c) ==
    LET sifted[n \in 0 .. Len(c.moves)] ==
          IF n = 0 THEN [c EXCEPT !.moves = <<>>] ELSE Sift(sifted[n - 1], c.moves[n])
    IN  sifted[Len(c.moves)]

-----------------------------------------------------------------------------
\* move_over: the last row of a table takes the place of the deleted one
MoveOver(c, row, last) ==
    IF row = last
    THEN [c EXCEPT !.mod = @ \ {row}, !.ins = @ \ {row}, !.mapping = Without(@, row),
                   !.del = IF row \in c.ins THEN @ ELSE @ \cup {OldIndex(c, row)}]
    ELSE LET lastNew == last \in c.ins
             moved   == lastNew /\ last \in DOMAIN c.mapping
             source  == OldIndex(c, last)
             del1    == IF lastNew THEN c.del ELSE c.del \cup {source}
         IN  [c EXCEPT !.mod = (@ \ {row, last}) \cup (IF last \in @ THEN {row} ELSE {}),
                       !.ins = (@ \ {last}) \cup {row},
                       !.del = IF row \in c.ins THEN del1
                               ELSE del1 \cup {Shift(del1, Unshift(c.ins, row))},
                       !.mapping = IF moved THEN With(Without(@, last), row, @[last])
                                   ELSE IF lastNew THEN Without(@, row)
                                   ELSE With(@, row, source)]

\* a row that was not inserted is moved to k by a swap
MovedTo(c, k, i) ==
    IF i \in c.ins THEN c
    ELSE [c EXCEPT !.mapping = With(@, k, OldIndex(c, i)),
                   !.del = @ \cup {OldIndex(c, i)}, !.ins = @ \cup {i}]

\* update_move: the row that had been moved to `at` is moved to `other` by the swap
UpdateMove(c, at, other) ==
    MovedTo([c EXCEPT !.mapping = With(Without(@, at), other, @[at])], at, other)

\* swap
SwapRows(c, i, j) ==
    LET a == IF i < j THEN i ELSE j
        b == IF i < j THEN j ELSE i
        Other(k) == IF k = a THEN b ELSE IF k = b THEN a ELSE k
        d == [c EXCEPT !.mod = {Other(k) : k \in @}]
        haveA == a \in DOMAIN c.mapping
        haveB == b \in DOMAIN c.mapping
    IN  IF haveA /\ haveB THEN [d EXCEPT !.mapping = With(With(@, b, @[a]), a, @[b])]
        ELSE IF haveA THEN UpdateMove(d, a, b)
        ELSE IF haveB THEN UpdateMove(d, b, a)
        ELSE MovedTo(MovedTo(d, a, b), b, a)

\* subsume: the row becomes the new one, to be followed by move_over of the old
Subsume(c, old, new) ==
    [c EXCEPT !.mod = IF old \in @ THEN @ \cup {new} ELSE @,
              !.mapping = IF old \in DOMAIN @ THEN With(Without(@, old), new, @[old])
                          ELSE IF old \in c.ins THEN @
                          ELSE With(@, new, OldIndex(c, old))]

\* parse_complete
ParseComplete(c) ==
    LET stay == {k \in DOMAIN c.mapping : c.mapping[k] = k}
        moved == DOMAIN c.mapping \ stay
        To(from) == CHOOSE k \in moved : c.mapping[k] = from
        sorted[n \in 0 .. NoRow] ==
          IF n = 0 THEN <<>>
          ELSE IF \A k \in moved : c.mapping[k] # n - 1 THEN sorted[n - 1]
          ELSE Append(sorted[n - 1], [from |-> n - 1, to |-> To(n - 1)])
    IN  [c EXCEPT !.del = @ \ stay, !.ins = @ \ stay, !.mapping = <<>>, !.moves = sorted[NoRow]]

-----------------------------------------------------------------------------
\* merge, of the moves of a with those of the later changes c: a row that was moved
\* again, a row whose place was deleted, and a row whose place was shifted
UpdateOne(s, old, a, c) ==
    LET again == {k \in DOMAIN s.later : s.later[k].from = old.to}
        k  == CHOOSE k \in again : \A n \in again : k <= n
        to == s.later[k].to
    IN  IF again # {}
        THEN [kept  |-> Append(s.kept, [old EXCEPT !.to = to]),
              later |-> Front([s.later EXCEPT ![k] = Last(s.later)]),
              mod   |-> s.mod \cup (IF old.to \in a.mod THEN {to} ELSE {})]
        ELSE IF old.to \in c.del THEN s
        ELSE [s EXCEPT !.kept =
                Append(@, [old EXCEPT !.to = Shift(c.ins, Unshift(c.del, @))])]
UpdateMoves(a, c) ==
    LET updated[n \in 0 .. Len(a.moves)] ==
          IF n = 0 THEN [kept |-> <<>>, later |-> c.moves, mod |-> c.mod]
          ELSE UpdateOne(updated[n - 1], a.moves[n], a, c)
    IN  updated[Len(a.moves)]

\* merge
MergedDel(a, c) == AddShiftedBy(a.del, a.ins, c.del)
MergedIns(a, c) == InsertAll(EraseAll(a.ins, c.del), c.ins)
MergedMoves(a, c) ==
    LET s == UpdateMoves(a, c)
        new == Excluding(s.later, "from", a.ins)
    IN  s.kept \o [k \in DOMAIN new |-> [new[k] EXCEPT !.from = OldIndex(a, @)]]
MergedMod(a, c) ==
    LET s == UpdateMoves(a, c)
        new == Excluding(s.later, "from", a.ins)
    IN  ShiftForAll(EraseAll(a.mod, c.del), c.ins) \cup s.mod
            \cup {move.to : move \in {m \in ToSet(new) : m.from \in a.mod}}
Merge(a, c) ==
    IF IsEmpty(c) THEN a ELSE IF IsEmpty(a) THEN c
    ELSE [CleanUp([Empty EXCEPT !.del = MergedDel(a, c), !.ins = MergedIns(a, c),
                                !.moves = MergedMoves(a, c)])
            EXCEPT !.mod = MergedMod(a, c)]

\* finalize: what the callback is told of modifications
ModificationsOld(c) == ShiftForAll(EraseAll(c.mod, c.ins), c.del)
ModificationsNew_WithInserted(c) == c.mod
ModificationsNew(c) == c.mod \ c.ins

=============================================================================
