--------------------------- MODULE CollectionChanges ---------------------------
(***************************************************************************)
(* What a collection callback is told: how ListNotifier and                *)
(* ResultsNotifier get the changes of a run from the transaction log       *)
(* (transact_log_handler.cpp, list_notifier.cpp, results_notifier.cpp),    *)
(* and how add_changes merges them with those not delivered yet.           *)
(*                                                                         *)
(* The collection is a list, or the rows of a table that match a query, in *)
(* the order of the table or sorted.  An element is a place in the list,   *)
(* or an object of the table; its value is left out.  One list is observed *)
(* at a time: what the handler of the log does to find its way among many  *)
(* is not here.  What threads do is in CollectionCallbacks and             *)
(* NotifierHandover.                                                       *)
(***************************************************************************)
EXTENDS CollectionChangeBuilder

CONSTANTS
    Kinds,         \* of collections: a subset of "list", "unsorted" and "sorted"
    InitialSize,   \* of each kind: elements of the list or of the table at first
    MaxElements,   \* bound: elements ever
    MaxSteps       \* bound, of each kind: instructions, advances and runs

ASSUME KindsAssumption == Kinds \subseteq {"list", "unsorted", "sorted"}
ASSUME BoundsAssumption ==
    /\ MaxElements \in Nat /\ MaxElements < NoRow
    /\ InitialSize \in [Kinds -> 0 .. MaxElements] /\ MaxSteps \in [Kinds -> Nat]

VARIABLES
    kind,     \* of collection
    gone,     \* the owner of the list was deleted
    now,      \* the list, or the table of the results
    then,     \* the same at the last run of the notifier
    prev,     \* the collection at that run (m_previous_rows)
    base,     \* the collection the callback knows
    log,      \* the builder the transaction log is read into
    pieces,   \* those of earlier versions, from other notifiers of this run
    acc,      \* accumulated_changes of the callback
    made,     \* elements ever made
    steps,
    touched,  \* objects modified since the last run
    dirty,    \* history: elements modified up to the last run that base does not show
    excused   \* history: a list was changed and deleted between two runs, or unsorted
              \* results changed as calculate_moves_unsorted does not expect

content == <<now, made, touched>>
runs    == <<then, prev, base, acc, dirty>>
vars == <<kind, gone, content, runs, log, pieces, steps, excused>>

Elements == 1 .. MaxElements
At(s, i) == s[i + 1]
Indices(s) == 0 .. Len(s) - 1
Place(s, e) == (CHOOSE i \in DOMAIN s : s[i] = e) - 1
Table == kind \in {"unsorted", "sorted"}

\* What is left of s without the indices in out.
Rest(s, out) ==
    LET left[n \in 0 .. Len(s)] ==
          IF n = 0 THEN <<>>
          ELSE IF n - 1 \in out THEN left[n - 1] ELSE Append(left[n - 1], s[n])
    IN  left[Len(s)]

\* What a query can find in a table.
Matching(k, table) ==
    {Rest(table, out) : out \in SUBSET Indices(table)}
        \cup (IF k = "sorted" THEN UNION {SetToSeqs(s) : s \in SUBSET ToSet(table)} ELSE {})
Selections(k, table) == IF k = "list" THEN {table} ELSE Matching(k, table)

Init ==
    /\ kind \in Kinds /\ gone = FALSE
    /\ now = [i \in 1 .. InitialSize[kind] |-> i] /\ made = InitialSize[kind]
    /\ then = now /\ prev \in Selections(kind, now) /\ base = prev
    /\ log = Empty /\ pieces = <<>> /\ acc = Empty
    /\ steps = 0 /\ touched = {} /\ dirty = {} /\ excused = FALSE

\* The last step is left for a run.
Step == steps < MaxSteps[kind] - 1 /\ steps' = steps + 1
RunStep == steps < MaxSteps[kind] /\ steps' = steps + 1

\* An instruction of the log, read by the observer.
Instruction(contents, change) ==
    /\ ~gone /\ Step
    /\ now' = contents /\ log' = change
    /\ UNCHANGED <<kind, gone, runs, pieces>>

Swapped(i, j) == [now EXCEPT ![i + 1] = At(now, j), ![j + 1] = At(now, i)]

-----------------------------------------------------------------------------
\* Instructions on a list

LinkListInsert(i) ==
    /\ kind = "list" /\ i <= Len(now) /\ made < MaxElements
    /\ made' = made + 1
    /\ Instruction(InsertAt(now, i + 1, made'), Insert(log, i))
    /\ UNCHANGED <<touched, excused>>

LinkListErase(i) ==
    /\ kind = "list" /\ i \in Indices(now)
    /\ Instruction(RemoveAt(now, i + 1), Erase(log, i))
    /\ UNCHANGED <<made, touched, excused>>

LinkListMove(i, j) ==
    /\ kind = "list" /\ {i, j} \subseteq Indices(now) /\ i # j
    /\ Instruction(InsertAt(RemoveAt(now, i + 1), j + 1, At(now, i)), MoveRow(log, i, j))
    /\ UNCHANGED <<made, touched, excused>>

\* link_list_set, and of two places link_list_swap: the places are modified
LinkListSet(i, j) ==
    /\ kind = "list" /\ {i, j} \subseteq Indices(now) /\ i <= j
    /\ touched' = touched \cup {At(now, i), At(now, j)}
    /\ Instruction(now, [log EXCEPT !.mod = @ \cup {i, j}])
    /\ UNCHANGED <<made, excused>>

LinkListClear ==
    /\ kind = "list"
    /\ Instruction(<<>>, ClearOf(log, Len(now)))
    /\ UNCHANGED <<made, touched, excused>>

\* An object in the list is modified; the log of the list does not show it.
ModifyObject(e) ==
    /\ kind = "list" /\ e \in ToSet(now) \ touched
    /\ touched' = touched \cup {e}
    /\ Instruction(now, log)
    /\ UNCHANGED <<made, excused>>

\* erase_rows of the row the list belongs to: nothing of the list is logged any more
DeleteOwner ==
    /\ kind = "list" /\ ~gone /\ Step
    /\ gone' = TRUE /\ now' = <<>>
    /\ excused' = (log # Empty \/ pieces # <<>>)
    /\ UNCHANGED <<kind, made, touched, runs, log, pieces>>

-----------------------------------------------------------------------------
\* Instructions on a table

InsertRow ==
    /\ Table /\ made < MaxElements
    /\ made' = made + 1
    /\ Instruction(Append(now, made'), Insert(log, Len(now)))
    /\ UNCHANGED <<touched, excused>>

\* erase_rows: the last row moves over the deleted one
EraseRow(i) ==
    /\ Table /\ i \in Indices(now)
    /\ Instruction(Front([now EXCEPT ![i + 1] = Last(now)]), MoveOver(log, i, Len(now) - 1))
    /\ UNCHANGED <<made, touched, excused>>

SwapTableRows(i, j) ==
    /\ Table /\ {i, j} \subseteq Indices(now) /\ i < j
    /\ Instruction(Swapped(i, j), SwapRows(log, i, j))
    /\ UNCHANGED <<made, touched, excused>>

\* merge_rows: object i takes the place of a new one j, and its own row is deleted
MergeRows(i, j) ==
    /\ Table /\ {i, j} \subseteq Indices(now) /\ i # j
    /\ j \in log.ins /\ j \notin DOMAIN log.mapping
    /\ touched' = IF At(now, j) \in touched THEN touched \cup {At(now, i)} ELSE touched
    /\ LET merged == [now EXCEPT ![j + 1] = At(now, i)]
       IN  Instruction(Front([merged EXCEPT ![i + 1] = Last(merged)]),
                       MoveOver(Subsume(log, i, j), i, Len(now) - 1))
    /\ UNCHANGED <<made, excused>>

ModifyRow(i) ==
    /\ Table /\ i \in Indices(now) /\ i \notin log.mod
    /\ touched' = touched \cup {At(now, i)}
    /\ Instruction(now, [log EXCEPT !.mod = @ \cup {i}])
    /\ UNCHANGED <<made, excused>>

\* clear_table.  To merge it with what is before it, add_shifted_by would go through
\* as many indices as there are.
ClearTable ==
    /\ Table /\ pieces = <<>>
    /\ Instruction(<<>>, ClearAll)
    /\ UNCHANGED <<made, touched, excused>>

-----------------------------------------------------------------------------
\* IncrementalChangeInfo: the log is read in pieces when the notifiers of a run come
\* from several versions.

Complete(c) == IF Table THEN ParseComplete(c) ELSE CleanUp(c)

\* advance_incremental
AdvanceIncremental ==
    /\ log # Empty /\ ~gone /\ Step
    /\ pieces' = Append(pieces, Complete(log)) /\ log' = Empty
    /\ UNCHANGED <<kind, gone, content, runs, excused>>

\* advance_to_final: tables are merged from the last piece on, lists from the first
MergedInTurn(changes) ==
    LET merged[n \in 0 .. Len(changes)] ==
          IF n = 0 THEN Empty ELSE Merge(merged[n - 1], changes[n])
    IN  merged[Len(changes)]
MergedFromLast(changes) ==
    LET merged[n \in 0 .. Len(changes) - 1] ==
          IF n = 0 THEN Last(changes) ELSE Merge(changes[Len(changes) - n], merged[n - 1])
    IN  merged[Len(changes) - 1]
AllPieces ==
    LET all == Append(pieces, Complete(log))
    IN  IF Table THEN MergedFromLast(all) ELSE MergedInTurn(all)

\* add_changes
AddChanges(change, collection) ==
    /\ RunStep
    /\ acc' = Merge(acc, change)
    /\ prev' = collection /\ then' = now
    /\ dirty' = dirty \cup touched /\ touched' = {}
    /\ log' = Empty /\ pieces' = <<>>
    /\ UNCHANGED <<kind, gone, now, made, base>>

\* ListNotifier::run
RunList ==
    /\ kind = "list" /\ ~gone /\ (log # Empty \/ pieces # <<>> \/ touched # {})
    /\ LET changed == {i \in Indices(now) : At(now, i) \in touched}
       IN  AddChanges([AllPieces EXCEPT !.mod = @ \cup changed], now)
    /\ UNCHANGED excused

\* ... once the list is gone: everything is deleted, and the rest of the changes stays
RunGone ==
    /\ gone /\ prev # <<>>
    /\ LET change == IF pieces = <<>> THEN log ELSE Head(pieces)
       IN  AddChanges([change EXCEPT !.del = Indices(prev)], <<>>)
    /\ UNCHANGED excused

-----------------------------------------------------------------------------
\* ResultsNotifier

Gone == -1

\* Where the rows of the last run are now, according to the changes of the table.
\* (The moves are searched as if they were sorted, and no longer are when they come
\* from two pieces.)
Follow(changes, i) ==
    LET behind == {k \in DOMAIN changes.moves : changes.moves[k].from >= i}
        k == CHOOSE k \in behind : \A n \in behind : k <= n
    IN  IF i \notin changes.del THEN Shift(changes.ins, Unshift(changes.del, i))
        ELSE IF behind # {} /\ changes.moves[k].from = i THEN changes.moves[k].to
        ELSE Gone

\* calculate, of collections of rows old and new.  A row that is in both is at From(r)
\* in the old one and at To(r) in the new one.
Both(old, new) == Rest(new, {i \in Indices(new) : At(new, i) \notin ToSet(old)})

\* calculate_moves_unsorted takes it that a row only moves from the end of the table (by
\* move_last_over), that is, from behind those that do not move.  It can bear one
\* that was before them, but not two, as swap and merge_rows may make them.
MovedFromBefore(old, new, candidates) ==
    {r \in ToSet(Both(old, new)) \cap candidates :
        \E q \in ToSet(Both(old, new)) \ candidates : Place(old, r) < Place(old, q)}
Unexpected(old, new, candidates) ==
    kind = "unsorted" /\ Cardinality(MovedFromBefore(old, new, candidates)) > 1

\* calculate_moves_unsorted: rows that follow each other as before stay, as do those
\* that could not have moved
MovesUnsorted(old, new, candidates, c) ==
    LET out == {i \in Indices(old) : At(old, i) = Gone}
        Next1(s, r) ==
          LET from == Place(old, r)
              to == Place(new, r)
              place == Unshift(out, from)
              awaited == Unshift(s.c.ins, to) + CountBelow(s.removed, from)
          IN  IF place = s.expected \/ r \notin candidates \/ place = awaited
              THEN [s EXCEPT !.expected = place + 1]
              ELSE [s EXCEPT !.c.moves = Append(@, [from |-> from, to |-> to]),
                             !.c.ins = @ \cup {to}, !.removed = @ \cup {from}]
        removed == {i \in Indices(old) : At(old, i) \notin ToSet(new)} \ out
        rows == Both(old, new)
        after[n \in 0 .. Len(rows)] ==
          IF n = 0 THEN [expected |-> 0, removed |-> removed, c |-> c]
          ELSE Next1(after[n - 1], rows[n])
    IN  [after[Len(rows)].c EXCEPT !.del = after[Len(rows)].removed \cup out]

\* find_longest_match: the longest block of a[b1 .. e1-1] that is in b[b2 .. e2-1];
\* among equals one with fewer modified rows
CountIn(s, lo, hi) == IF lo < 0 THEN 0 ELSE Cardinality(s \cap (lo .. hi - 1))
LongestMatch(a, b, b1, e1, b2, e2, mod) ==
    LET In(i) == Place(b, At(a, i)) \in b2 .. e2 - 1
        Try(s, i) ==
          LET j == Place(b, At(a, i))
              size == IF s.len > 0 /\ Place(b, At(a, i - 1)) + 1 = j THEN s.len + 1 ELSE 1
              few == IF s.few < 0 THEN CountIn(mod, s.j - size + 1, s.j + 1) ELSE s.few
              count == CountIn(mod, j - size + 1, j + 1)
              best == [i |-> i - size + 1, j |-> j - size + 1, size |-> size, len |-> size, few |-> -1]
          IN  IF ~In(i) THEN [s EXCEPT !.len = 0]
              ELSE IF size > s.size THEN best
              ELSE IF size < s.size THEN [s EXCEPT !.len = size]
              ELSE IF count < few THEN [best EXCEPT !.few = count]
              ELSE [s EXCEPT !.len = size, !.few = few]
        tried[n \in 0 .. e1 - b1] ==
          IF n = 0 THEN [i |-> b1, j |-> b2, size |-> 0, len |-> 0, few |-> 0]
          ELSE Try(tried[n - 1], b1 + n - 1)
    IN  tried[e1 - b1]

\* find_longest_matches: the same on both sides of the match.  A window is where to look
\* in a and in b.
Windows(a, b) == [b1 : 0 .. Len(a), e1 : 0 .. Len(a), b2 : 0 .. Len(b), e2 : 0 .. Len(b)]
LongestMatches(a, b, first, mod) ==
    LET within[w \in {v \in Windows(a, b) : v.b1 <= v.e1}] ==
          LET m == LongestMatch(a, b, w.b1, w.e1, w.b2, w.e2, mod)
              left == m.i > w.b1 /\ m.j > w.b2
              right == m.i + m.size < w.e2 /\ m.j + m.size < w.e2
          IN  IF m.size = 0 THEN {}
              ELSE {m} \cup (IF left THEN within[[w EXCEPT !.e1 = m.i, !.e2 = m.j]] ELSE {})
                       \cup (IF right THEN within[[w EXCEPT !.b1 = m.i + m.size, !.b2 = m.j + m.size]]
                                      ELSE {})
    IN  within[[b1 |-> first, e1 |-> Len(a), b2 |-> first, e2 |-> Len(b)]]

\* calculate_moves_sorted: what is in no match is deleted and inserted
MovesSorted(old, new, c) ==
    LET b == Both(old, new)
        a == Both(new, old)
        differ == {i \in Indices(a) : At(a, i) # At(b, i)}
        first == CHOOSE i \in differ : \A n \in differ : i <= n
        matches == LongestMatches(a, b, first, c.mod)
        Out(i, Start(_)) == i >= first /\ \A m \in matches : i \notin Start(m) .. Start(m) + m.size - 1
    IN  IF differ = {} THEN c
        ELSE [c EXCEPT
               !.del = @ \cup {Place(old, At(a, i)) : i \in {n \in Indices(a) : Out(n, LAMBDA m : m.i)}},
               !.ins = @ \cup {Place(new, At(b, i)) : i \in {n \in Indices(b) : Out(n, LAMBDA m : m.j)}}]

\* calculate
Calculate(old, new, changed, candidates) ==
    LET c == [Empty EXCEPT
               !.del = {i \in Indices(old) : At(old, i) \notin ToSet(new)},
               !.ins = {i \in Indices(new) : At(new, i) \notin ToSet(old)},
               !.mod = {i \in Indices(new) : At(new, i) \in ToSet(old) \cap changed}]
    IN  IF kind = "unsorted" THEN MovesUnsorted(old, new, candidates, c)
        ELSE MovesSorted(old, new, c)

\* ResultsNotifier::run and calculate_changes
RunResults(results) ==
    /\ Table
    /\ LET changes == AllPieces
           old == [i \in DOMAIN prev |-> Follow(changes, Place(then, prev[i]))]
           new == [i \in DOMAIN results |-> Place(now, results[i])]
       IN  /\ AddChanges(Calculate(old, new, changes.mod, changes.ins), results)
           /\ excused' = (excused \/ Unexpected(old, new, changes.ins))

-----------------------------------------------------------------------------
\* package_for_delivery and the call: the callback knows the collection again
Deliver ==
    /\ acc # Empty
    /\ acc' = Empty /\ base' = prev /\ dirty' = {}
    /\ UNCHANGED <<kind, gone, content, then, prev, log, pieces, steps, excused>>

Next ==
    \/ \E i \in 0 .. MaxElements - 1 : \/ LinkListInsert(i) \/ LinkListErase(i)
                                       \/ EraseRow(i) \/ ModifyRow(i)
    \/ \E i, j \in 0 .. MaxElements - 1 : \/ LinkListMove(i, j) \/ LinkListSet(i, j)
                                          \/ SwapTableRows(i, j) \/ MergeRows(i, j)
    \/ LinkListClear \/ (\E e \in Elements : ModifyObject(e)) \/ DeleteOwner
    \/ InsertRow \/ ClearTable
    \/ AdvanceIncremental
    \/ RunList \/ RunGone \/ (Table /\ \E results \in Selections(kind, now) : RunResults(results))
    \/ Deliver

Spec == Init /\ [][Next]_vars

-----------------------------------------------------------------------------
\* Taking the reported deletions out of the collection the callback knows, and putting
\* the reported insertions in, gives the collection of the last run, element by
\* element: however it was changed in between, in however many runs and pieces.
Applies ==
    ~excused => /\ acc.del \subseteq Indices(base) /\ acc.ins \subseteq Indices(prev)
                /\ Rest(base, acc.del) = Rest(prev, acc.ins)

\* A reported move is one of a single element, and is part of the deletions and of the
\* insertions.
MovesAreTrue ==
    ~excused => \A k \in DOMAIN acc.moves :
        LET move == acc.moves[k]
        IN  /\ move.from \in acc.del /\ move.to \in acc.ins
            /\ At(base, move.from) = At(prev, move.to)

\* The reported modifications, in the old and in the new indices alike, are exactly the
\* elements that were modified since the callback was called, of those that are not
\* reported as inserted.
ModificationsAreTrue ==
    ~excused =>
        LET kept == {At(prev, i) : i \in Indices(prev) \ acc.ins}
        IN  /\ {At(prev, i) : i \in ModificationsNew(acc)} = kept \cap dirty
            /\ {At(base, i) : i \in ModificationsOld(acc)} = kept \cap dirty

=============================================================================
