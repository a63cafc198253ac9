------------------------------ MODULE IndexSets ------------------------------
(***************************************************************************)
(* realm::IndexSet (index_set.cpp) as what it does to a set of indices.    *)
(* The chunks of ranges it is stored in are left out.  Indices count from  *)
(* zero.                                                                   *)
(***************************************************************************)
EXTENDS Integers, FiniteSets

\* count(0, n)
CountBelow(s, n) == Cardinality({x \in s : x < n})

\* shift and unshift: the index once those of s are inserted, or erased
Unshift(s, i) == i - CountBelow(s, i)
Shift(s, i) == CHOOSE k \in i .. i + Cardinality(s) : k \notin s /\ Unshift(s, k) = i

\* shift_for_insert_at, insert_at and erase_at of one index
ShiftForInsert(s, i) == {IF x < i THEN x ELSE x + 1 : x \in s}
InsertIndex(s, i) == ShiftForInsert(s, i) \cup {i}
EraseIndex(s, i) == {IF x < i THEN x ELSE x - 1 : x \in s \ {i}}

\* the same of all of p, whose members are places after the insertions, or before
\* the removals
ShiftForAll(s, p) == {Shift(p, x) : x \in s}
InsertAll(s, p) == ShiftForAll(s, p) \cup p
EraseAll(s, p) == {Unshift(p, x) : x \in s \ p}

\* add_shifted_by: values are in terms of what comes after the insertions `by`; those
\* among them disappear, the others are added as they were before them
AddShiftedBy_Plain(s, by, values) == s \cup {Shift(s, x) : x \in values \ by}
AddShiftedBy(s, by, values) == s \cup {Shift(s, Unshift(by, x)) : x \in values \ by}

=============================================================================
