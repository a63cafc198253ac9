-------------------- MODULE CollectionCallbacks_proofs --------------------
(***************************************************************************)
(* Theorems about CollectionCallbacks, for any number of callbacks and     *)
(* commits, and any width of size_t that the callbacks do not exhaust.     *)
(***************************************************************************)
EXTENDS CollectionCallbacks, TLAPS

USE CallbackBounds

\* What erasing one callback does to the vector.
LEMMA RemovalShrinks ==
    ASSUME NEW S, NEW s \in Seq(S), NEW i \in 1 .. Len(s)
    PROVE  RemoveAt(s, i) \in Seq(S) /\ Len(RemoveAt(s, i)) = Len(s) - 1
<1> DEFINE front == SubSeq(s, 1, i - 1)
           back  == SubSeq(s, i + 1, Len(s))
<1>1. front \in Seq(S) /\ Len(front) = i - 1
  OBVIOUS
<1>2. back \in Seq(S) /\ Len(back) = Len(s) - i
  OBVIOUS
<1>3. RemoveAt(s, i) = front \o back
  BY DEF RemoveAt
<1> HIDE DEF front, back
<1>4. front \o back \in Seq(S) /\ Len(front \o back) = Len(front) + Len(back)
  BY SMTT(30), <1>1, <1>2
<1> QED
  BY <1>1, <1>2, <1>3, <1>4

\* Marking a callback as called keeps the vector one of callbacks.
LEMMA CalledCallback ==
    ASSUME NEW s \in Seq(Callback), NEW k \in 1 .. Len(s)
    PROVE  /\ [s EXCEPT ![k].initial = TRUE, ![k].due = {}] \in Seq(Callback)
           /\ Len([s EXCEPT ![k].initial = TRUE, ![k].due = {}]) = Len(s)
           /\ [s EXCEPT ![k].initial = TRUE, ![k].due = {}][k].due = {}
           /\ [s EXCEPT ![k].initial = TRUE, ![k].due = {}][k].token = s[k].token
           /\ [s EXCEPT ![k].initial = TRUE, ![k].due = {}][k].acc = s[k].acc
<1> DEFINE once(c)  == [c EXCEPT !.initial = TRUE]
           twice(c) == [c EXCEPT !.due = {}]
           r == [s EXCEPT ![k] = twice(once(s[k]))]
<1>1. s[k] \in Callback
  OBVIOUS
<1>2. \A c \in Callback : twice(once(c)) \in Callback
  BY DEF Callback
<1>5. ASSUME NEW c \in Callback
      PROVE  [s EXCEPT ![k] = c] \in Seq(Callback) /\ Len([s EXCEPT ![k] = c]) = Len(s)
  OBVIOUS
<1>6. twice(once(s[k])) \in Callback
  BY <1>1, <1>2
<1>3. r \in Seq(Callback) /\ Len(r) = Len(s)
  BY ONLY <1>5, <1>6
<1>4. [s EXCEPT ![k].initial = TRUE, ![k].due = {}] = r
  OBVIOUS
<1>10. ASSUME NEW c PROVE [s EXCEPT ![k] = c][k] = c
  OBVIOUS
<1>7. r[k] = twice(once(s[k]))
  BY ONLY <1>10
<1>8. \A c \in Callback : twice(once(c)).due = {} /\ twice(once(c)).token = c.token
                           /\ twice(once(c)).acc = c.acc
  BY DEF Callback
<1>9. r[k].due = {} /\ r[k].token = s[k].token /\ r[k].acc = s[k].acc
  BY <1>1, <1>7, <1>8
<1> HIDE DEF r
<1> QED
  BY <1>3, <1>4, <1>9

\* The counters stay inside their width.
LEMMA CounterRange ==
    ASSUME NEW n \in 0 .. Npos
    PROVE  /\ Plus1(n) \in 0 .. Npos /\ Minus1(n) \in 0 .. Npos /\ Npos \in Nat
           /\ n = 0 => Minus1(n) = Npos
           /\ n > 0 => Minus1(n) = n - 1
           /\ MaxTokens < Npos
BY DEF Plus1, Minus1, Npos

\* One turn of a loop keeps the types of what it writes, leaves the cursor inside the vector,
\* and only overruns it when its bound is beyond the end.
LEMMA TurnTypes ==
    ASSUME TypeOK, NEW round, NEW i \in 0 .. Npos, NEW bound \in 0 .. Npos, NEW done,
           Turn(callbacks, round, i, bound, done)
    PROVE  /\ callbacks' \in Seq(Callback) /\ Len(callbacks') = Len(callbacks)
           /\ index' \in 0 .. Npos /\ (index' \in {Npos, index} \/ index' < Size)
           /\ phase' \in {round, done}
           /\ calling' \in Tokens \cup {None}
           /\ overrun' \in BOOLEAN /\ (overrun' => overrun \/ bound > Size)
           /\ announced' \in [Tokens -> SUBSET Versions] /\ told' \in [Tokens -> SUBSET Versions]
<1> DEFINE next == Callable(callbacks, round, i, bound)
<1>0. /\ callbacks \in Seq(Callback) /\ index \in 0 .. Npos /\ calling \in Tokens \cup {None}
      /\ overrun \in BOOLEAN /\ Npos \in Nat /\ Size < Npos /\ Size = Len(callbacks)
      /\ announced \in [Tokens -> SUBSET Versions] /\ told \in [Tokens -> SUBSET Versions]
  BY DEF TypeOK, Npos, Size
<1>1. CASE next = {} /\ index' = Npos /\ calling' = None /\ phase' = done
             /\ callbacks' = callbacks /\ UNCHANGED <<overrun, announced, told>>
  BY <1>0, <1>1
<1>2. ASSUME NEW j \in next, phase' = round, j < Len(callbacks), Call(callbacks, round, j)
      PROVE  /\ callbacks' \in Seq(Callback) /\ Len(callbacks') = Len(callbacks)
             /\ index' \in 0 .. Npos /\ index' < Size /\ calling' \in Tokens /\ overrun' = overrun
             /\ announced' \in [Tokens -> SUBSET Versions] /\ told' \in [Tokens -> SUBSET Versions]
  <2>1. j \in Nat /\ j + 1 \in 1 .. Len(callbacks)
    BY <1>0, <1>2 DEF Callable
  <2>2. callbacks[j + 1] \in Callback
    BY <1>0, <2>1
  <2>3. callbacks[j + 1].token \in Tokens /\ callbacks[j + 1].due \in SUBSET Versions
    BY <2>2 DEF Callback
  <2>4. callbacks' \in Seq(Callback) /\ Len(callbacks') = Len(callbacks)
    BY <1>0, <1>2, <2>1, CalledCallback DEF Call
  <2>5. announced' \in [Tokens -> SUBSET Versions]
    <3>1. announced' = announced \/ announced' = [announced EXCEPT ![callbacks[j + 1].token] = callbacks[j + 1].due]
      BY <1>2 DEF Call
    <3> QED
      BY <1>0, <2>3, <3>1
  <2>6. told' \in [Tokens -> SUBSET Versions]
    <3>1. told' = told \/ told' = [told EXCEPT ![callbacks[j + 1].token] = @ \cup callbacks[j + 1].due]
      BY <1>2 DEF Call
    <3> QED
      BY <1>0, <2>3, <3>1
  <2> QED
    BY <1>0, <1>2, <2>1, <2>3, <2>4, <2>5, <2>6 DEF Call
<1>3. ASSUME NEW j \in next, j >= Len(callbacks) PROVE bound > Size
  BY <1>0, <1>3 DEF Callable
<1>4. CASE \E j \in next : phase' = round /\ j < Len(callbacks) /\ Call(callbacks, round, j)
  BY <1>0, <1>2, <1>4
<1>5. CASE \E j \in next : /\ phase' = round /\ j >= Len(callbacks) /\ overrun' = TRUE
                           /\ callbacks' = callbacks
                           /\ UNCHANGED <<index, calling, announced, told>>
  BY <1>0, <1>3, <1>5
<1> HIDE DEF next
<1>6. \/ next = {} /\ index' = Npos /\ calling' = None /\ phase' = done
           /\ callbacks' = callbacks /\ UNCHANGED <<overrun, announced, told>>
      \/ \E j \in next : phase' = round /\ j < Len(callbacks) /\ Call(callbacks, round, j)
      \/ \E j \in next : /\ phase' = round /\ j >= Len(callbacks) /\ overrun' = TRUE
                         /\ callbacks' = callbacks
                         /\ UNCHANGED <<index, calling, announced, told>>
  BY DEF Turn, next
<1> QED
  BY <1>1, <1>4, <1>5, <1>6

-----------------------------------------------------------------------------
(* Types, in groups.                                                       *)

Vector == callbacks \in Seq(Callback) /\ Size <= nextToken /\ nextToken \in 0 .. MaxTokens
Cursor == index \in 0 .. Npos /\ count \in 0 .. Npos
Flags ==
    /\ haveCbs \in BOOLEAN /\ hasRun \in BOOLEAN /\ failed \in BOOLEAN
    /\ overrun \in BOOLEAN /\ miscounted \in BOOLEAN
    /\ working \in BOOLEAN /\ woken \in BOOLEAN /\ notified \in BOOLEAN
Place ==
    /\ phase \in {"idle", "packaged", "before", "advanced", "after", "available", "error"}
    /\ calling \in Tokens \cup {None}
Work == latest \in 0 .. MaxVersion /\ seen \in 0 .. latest /\ change \in SUBSET Versions
Told ==
    /\ owed \in [Tokens -> SUBSET Versions] /\ told \in [Tokens -> SUBSET Versions]
    /\ announced \in [Tokens -> SUBSET Versions]
    /\ quiet \subseteq Tokens

LEMMA TypeGroups == TypeOK <=> Vector /\ Cursor /\ Flags /\ Place /\ Work /\ Told
  BY DEF TypeOK, Vector, Cursor, Flags, Place, Work, Told

LEMMA Regroup == Vector' /\ Cursor' /\ Flags' /\ Place' /\ Work' /\ Told' => TypeOK'
  BY DEF TypeOK, Vector, Cursor, Flags, Place, Work, Told

LEMMA TypeInit == Init => TypeOK
<1> SUFFICES ASSUME Init PROVE TypeOK
  OBVIOUS
<1> USE DEF Init
<1>1. Vector
  BY DEF Vector, Size
<1>2. Cursor
  BY DEF Cursor, Npos
<1>3. Flags /\ Place
  BY DEF Flags, Place, None
<1>4. Work
  BY DEF Work
<1>5. Told
  BY DEF Told
<1> QED
  BY <1>1, <1>2, <1>3, <1>4, <1>5, TypeGroups

\* What Erase does, for a position inside the vector.
LEMMA EraseTypes ==
    ASSUME TypeOK, NEW idx \in Nat, idx < Size, Erase(idx), UNCHANGED nextToken
    PROVE  /\ Vector' /\ Cursor' /\ haveCbs' \in BOOLEAN /\ miscounted' \in BOOLEAN
           /\ Size' = Size - 1
<1>0. callbacks \in Seq(Callback) /\ Size = Len(callbacks) /\ Size \in Nat /\ idx + 1 \in 1 .. Len(callbacks)
  BY DEF TypeOK, Size
<1>1. callbacks' \in Seq(Callback) /\ Len(callbacks') = Len(callbacks) - 1
  BY <1>0, RemovalShrinks DEF Erase
<1>2. Vector' /\ Size' = Size - 1
  BY <1>0, <1>1 DEF Vector, Size, TypeOK
<1>3. Cursor'
  BY CounterRange DEF Erase, Cursor, TypeOK, CursorAfterRemoval, BoundAfterRemoval
<1>4. haveCbs' \in BOOLEAN /\ miscounted' \in BOOLEAN
  BY <1>0 DEF Erase, TypeOK
<1> QED
  BY <1>2, <1>3, <1>4

\* A loop's turn keeps all types, with the rest of the state left alone.
LEMMA LoopTypes ==
    ASSUME TypeOK, NEW round \in {"before", "after", "available", "error"},
           NEW i \in 0 .. Npos, NEW bound \in 0 .. Npos, NEW done \in {"idle", "advanced"},
           Turn(callbacks, round, i, bound, done),
           count' \in 0 .. Npos, notified' \in BOOLEAN, UNCHANGED <<haveCbs, miscounted, Others>>
    PROVE  TypeOK'
<1>1. Vector' /\ Cursor'
  BY TurnTypes DEF TypeOK, Vector, Cursor, Size, Others
<1>2. Place'
  BY TurnTypes DEF Place
<1>3. Flags'
  BY TurnTypes DEF Flags, TypeOK, Others, worker
<1>4. Work' /\ Told'
  BY TurnTypes DEF Work, Told, TypeOK, Others, worker
<1> QED
  BY <1>1, <1>2, <1>3, <1>4, Regroup

LEMMA TypeNext == TypeOK /\ [Next]_vars => TypeOK'
<1> SUFFICES ASSUME TypeOK, [Next]_vars PROVE TypeOK'
  OBVIOUS
<1> USE DEF cursor, worker, history
<1>g. Vector /\ Cursor /\ Flags /\ Place /\ Work /\ Told
  BY TypeGroups
<1>0. Vector /\ Cursor /\ Flags /\ Place /\ Work /\ Told /\ Size \in Nat /\ Size = Len(callbacks)
  BY <1>g DEF Vector, Size
<1>1. ASSUME AddCallback PROVE TypeOK'
  <2>1. nextToken \in Tokens
    BY <1>0, <1>1 DEF AddCallback, Vector, Tokens
  <2>2. [token |-> nextToken, acc |-> {}, due |-> {}, initial |-> FALSE] \in Callback
    BY <2>1 DEF Callback
  <2>3. Vector'
    BY <1>0, <1>1, <2>1, <2>2 DEF AddCallback, Vector, Size, Tokens
  <2>4. Cursor' /\ Place' /\ Work'
    BY <1>0, <1>1 DEF AddCallback, Cursor, Place, Work
  <2>5. Flags'
    BY <1>0, <1>1 DEF AddCallback, Flags, OutsideLoop
  <2>6. Told'
    BY <1>0, <1>1, <2>1 DEF AddCallback, Told
  <2> QED
    BY <2>3, <2>4, <2>5, <2>6, Regroup
<1>2. ASSUME NEW idx \in 0 .. MaxTokens - 1, RemoveCallback(idx) PROVE TypeOK'
  <2>1. Vector' /\ Cursor' /\ haveCbs' \in BOOLEAN /\ miscounted' \in BOOLEAN
    BY <1>2, EraseTypes DEF RemoveCallback
  <2>2. Flags' /\ Place' /\ Work' /\ Told'
    BY <1>0, <1>2, <2>1 DEF RemoveCallback, Flags, Place, Work, Told
  <2> QED
    BY <2>1, <2>2, Regroup
<1>3. ASSUME Commit PROVE TypeOK'
  <2>1. Vector' /\ Cursor' /\ Flags' /\ Place' /\ Told'
    BY <1>0, <1>3 DEF Commit, Vector, Size, Cursor, Flags, Place, Told
  <2>2. Work'
    BY <1>0, <1>3 DEF Commit, Work
  <2> QED
    BY <2>1, <2>2, Regroup
<1>4. ASSUME NEW wants \in BOOLEAN, Compute(wants) PROVE TypeOK'
  <2>1. Vector' /\ Cursor' /\ Flags' /\ Place' /\ Told'
    BY <1>0, <1>4 DEF Compute, Vector, Size, Cursor, Flags, Place, Told
  <2>2. Work'
    BY <1>0, <1>4 DEF Compute, Work, Versions
  <2> QED
    BY <2>1, <2>2, Regroup
<1>5. ASSUME RunFailed PROVE TypeOK'
  <2>1. Vector' /\ Cursor' /\ Flags' /\ Place' /\ Told' /\ Work'
    BY <1>0, <1>5 DEF RunFailed, Vector, Size, Cursor, Flags, Place, Told, Work
  <2> QED
    BY <2>1, Regroup
<1>6. ASSUME PrepareHandover PROVE TypeOK'
  <2>1. \A c \in Callback : [c EXCEPT !.acc = @ \cup change] \in Callback
    BY <1>0 DEF Callback, Work
  <2>2. \A k \in 1 .. Size : callbacks[k] \in Callback
    BY <1>0 DEF Vector
  <2>3. callbacks' \in Seq(Callback) /\ Len(callbacks') = Size
    BY <1>0, <1>6, <2>1, <2>2 DEF PrepareHandover
  <2>4. Vector'
    BY <1>0, <1>6, <2>3 DEF PrepareHandover, Vector, Size
  <2>5. Cursor' /\ Flags' /\ Place' /\ Work'
    BY <1>0, <1>6 DEF PrepareHandover, Cursor, Flags, Place, Work
  <2>6. Told'
    BY <1>0, <1>6 DEF PrepareHandover, Told, Work
  <2> QED
    BY <2>4, <2>5, <2>6, Regroup
<1>7. ASSUME Package PROVE TypeOK'
  <2>1. \A c \in Callback : Packaged(c) \in Callback
    BY DEF Callback, Packaged
  <2>2. \A k \in 1 .. Size : callbacks[k] \in Callback
    BY <1>0 DEF Vector
  <2>3. callbacks' \in Seq(Callback) /\ Len(callbacks') = Size
    BY <1>0, <1>7, <2>1, <2>2 DEF Package
  <2>4. Vector' /\ Cursor'
    BY <1>0, <1>7, <2>3 DEF Package, Vector, Size, Cursor, Npos
  <2>5. Flags' /\ Place' /\ Work'
    BY <1>0, <1>7 DEF Package, Flags, Place, Work
  <2>6. Told'
    BY <1>0, <1>7 DEF Package, Told
  <2> QED
    BY <2>4, <2>5, <2>6, Regroup
<1>8. ASSUME NEW round \in {"before", "after", "available"}, BeginRound(round) PROVE TypeOK'
  BY ZenonT(60), <1>0, <1>8, LoopTypes, CounterRange DEF BeginRound, Cursor, Flags, Done
<1>9. ASSUME BeginError PROVE TypeOK'
  <2>1. Size \in 0 .. Npos
    BY <1>0 DEF Vector, Npos
  <2> QED
    BY <1>0, <1>9, <2>1, LoopTypes, CounterRange DEF BeginError, Cursor
<1>10. ASSUME CallbackReturns PROVE TypeOK'
  BY ZenonT(60), <1>0, <1>10, LoopTypes, CounterRange DEF CallbackReturns, Cursor, Flags, Done
<1>11. ASSUME ErrorReturns PROVE TypeOK'
  <2>1. CASE calling \in Registered
    <3>1. PICK idx \in 0 .. Size - 1 : callbacks[idx + 1].token = calling /\ Erase(idx)
      BY <1>11, <2>1 DEF ErrorReturns
    <3>2. Vector' /\ Cursor' /\ haveCbs' \in BOOLEAN /\ miscounted' \in BOOLEAN
      BY <1>0, <1>11, <3>1, EraseTypes DEF ErrorReturns, Others
    <3>3. Flags' /\ Place' /\ Work' /\ Told'
      BY <1>0, <1>11, <3>2 DEF ErrorReturns, Others, Flags, Place, Work, Told
    <3> QED
      BY <3>2, <3>3, Regroup
  <2>2. CASE calling \notin Registered
    <3>1. Vector' /\ Cursor' /\ Flags' /\ Place' /\ Work' /\ Told'
      BY <1>0, <1>11, <2>2 DEF ErrorReturns, Others, Vector, Size, Cursor, Flags, Place, Work, Told
    <3> QED
      BY <3>1, Regroup
  <2> QED
    BY <2>1, <2>2
<1>12. ASSUME ErrorGoesOn PROVE TypeOK'
  BY <1>0, <1>12, LoopTypes, CounterRange DEF ErrorGoesOn, Cursor, Flags
<1>13. CASE UNCHANGED vars
  <2>1. Vector' /\ Cursor' /\ Flags' /\ Place' /\ Work' /\ Told'
    BY <1>0, <1>13 DEF vars, Vector, Size, Cursor, Flags, Place, Work, Told
  <2> QED
    BY <2>1, Regroup
<1> QED
  BY <1>1, <1>2, <1>3, <1>4, <1>5, <1>6, <1>7, <1>8, <1>9, <1>10, <1>11, <1>12, <1>13 DEF Next, Deliver

\* Every reachable state is well typed; in particular the cursor and the bound of the loops stay
\* inside a size_t, wherever they wrap around.
THEOREM TypeCorrect == Spec => []TypeOK
  BY TypeInit, TypeNext, PTL DEF Spec

-----------------------------------------------------------------------------
(* The loops.                                                              *)

\* Between two calls the cursor is inside the vector, the bound of the loop is not beyond its end
\* unless it was miscounted, and the flag for the worker is exact.
LoopInv ==
    /\ index # Npos => index < Size
    /\ phase # "idle" /\ ~miscounted => count <= Size
    /\ FlagExact
    /\ OverrunsOnlyIfMiscounted

USE DEF LoopInv, FlagExact, OverrunsOnlyIfMiscounted

LEMMA EraseLoop ==
    ASSUME TypeOK, LoopInv, NEW idx \in Nat, idx < Size, Erase(idx),
           UNCHANGED <<nextToken, overrun, phase>>
    PROVE  LoopInv'
<1>0. /\ Size' = Size - 1 /\ Size \in Nat /\ Size < Npos /\ index \in 0 .. Npos /\ count \in 0 .. Npos
      /\ miscounted \in BOOLEAN /\ Size = Len(callbacks) /\ Size' = Len(callbacks')
  BY EraseTypes DEF TypeOK, Npos, Size
<1>c. /\ index' = IF index # Npos /\ index >= idx THEN Minus1(index) ELSE index
      /\ count' = Minus1(count) /\ haveCbs' = (Size > 1)
      /\ miscounted' = (miscounted \/ (phase # "idle" /\ idx >= count))
  BY DEF Erase, CursorAfterRemoval, BoundAfterRemoval
<1>m. ASSUME NEW n \in 0 .. Npos
      PROVE  Minus1(n) = IF n = 0 THEN Npos ELSE n - 1
  BY CounterRange
<1>1. (index # Npos => index < Size)'
  <2>1. CASE index # Npos /\ index >= idx
    BY <1>0, <1>c, <1>m, <2>1
  <2>2. CASE ~(index # Npos /\ index >= idx)
    BY <1>0, <1>c, <2>2
  <2> QED
    BY <2>1, <2>2
<1>2. (phase # "idle" /\ ~miscounted => count <= Size)'
  <2>1. SUFFICES ASSUME (phase # "idle" /\ ~miscounted)' PROVE (count <= Size)'
    OBVIOUS
  <2>2. phase # "idle" /\ ~miscounted /\ ~(idx >= count)
    BY <1>c, <2>1
  <2>3. count \in Nat /\ idx < count /\ count <= Size
    BY <1>0, <2>2
  <2>4. count' = count - 1
    BY <1>0, <1>c, <1>m, <2>3
  <2> QED
    BY <1>0, <2>3, <2>4
<1>3. FlagExact'
  <2>1. callbacks' # <<>> <=> Size' > 0
    BY <1>0, EraseTypes DEF Vector
  <2>2. (Size > 1) <=> callbacks' # <<>>
    BY <1>0, <2>1
  <2> QED
    BY <1>c, <2>2
<1>4. OverrunsOnlyIfMiscounted'
  BY <1>0, <1>c
<1> QED
  BY <1>1, <1>2, <1>3, <1>4

LEMMA TurnLoop ==
    ASSUME TypeOK, LoopInv, NEW round, NEW i \in 0 .. Npos, NEW bound \in 0 .. Npos, NEW done,
           Turn(callbacks, round, i, bound, done), ~miscounted => bound <= Size,
           UNCHANGED <<haveCbs, miscounted>>, count' = bound
    PROVE  LoopInv'
<1>t. /\ callbacks' \in Seq(Callback) /\ Len(callbacks') = Len(callbacks)
      /\ index' \in {Npos, index} \/ index' < Size
      /\ overrun' => overrun \/ bound > Size
  BY TurnTypes
<1>0. /\ Size' = Size /\ Size \in Nat /\ Size < Npos /\ index \in 0 .. Npos
      /\ callbacks \in Seq(Callback) /\ callbacks' \in Seq(Callback)
      /\ Size = Len(callbacks) /\ Size' = Len(callbacks')
  BY <1>t DEF TypeOK, Npos, Size
<1>1. (index # Npos => index < Size)'
  BY <1>0, <1>t
<1>2. (phase # "idle" /\ ~miscounted => count <= Size)'
  BY <1>0
<1>3. FlagExact'
  <2>1. callbacks' # <<>> <=> callbacks # <<>>
    BY <1>0
  <2> QED
    BY <2>1
<1>4. OverrunsOnlyIfMiscounted'
  BY <1>0, <1>t
<1> QED
  BY <1>1, <1>2, <1>3, <1>4

LEMMA LoopNext == TypeOK /\ LoopInv /\ [Next]_vars => LoopInv'
<1> SUFFICES ASSUME TypeOK, LoopInv, [Next]_vars PROVE LoopInv'
  OBVIOUS
<1> USE DEF cursor, worker, history
<1>0. /\ callbacks \in Seq(Callback) /\ Size \in Nat /\ Size = Len(callbacks) /\ Size < Npos
      /\ index \in 0 .. Npos /\ count \in 0 .. Npos /\ Npos \in Nat /\ miscounted \in BOOLEAN
  BY DEF TypeOK, Size, Npos
\* A step that keeps the length of the vector, and the loop where it is.
<1>a. ASSUME callbacks' \in Seq(Callback), Len(callbacks') = Len(callbacks),
             UNCHANGED <<index, haveCbs, overrun, miscounted>>,
             phase' # "idle" => \/ phase # "idle" /\ UNCHANGED count
                                \/ count' = Size
      PROVE  LoopInv'
  <2>1. callbacks' # <<>> <=> callbacks # <<>>
    BY <1>0, <1>a
  <2>2. Size' = Size
    BY <1>a DEF Size
  <2> QED
    BY <1>0, <1>a, <2>1, <2>2
<1>1. ASSUME AddCallback PROVE LoopInv'
  <2>1. callbacks' # <<>> /\ Size' = Size + 1
    BY <1>0, <1>1 DEF AddCallback, Size
  <2>2. index # Npos => callbacks # <<>>
    BY <1>0
  <2>3. UNCHANGED <<index, count, overrun, miscounted, phase>> /\ haveCbs' = (haveCbs \/ index = Npos)
    BY <1>1 DEF AddCallback, OutsideLoop
  <2>4. (index # Npos => index < Size)' /\ (phase # "idle" /\ ~miscounted => count <= Size)'
    BY <1>0, <2>1, <2>3
  <2> QED
    BY <2>1, <2>2, <2>3, <2>4
<1>2. ASSUME NEW idx \in 0 .. MaxTokens - 1, RemoveCallback(idx) PROVE LoopInv'
  BY <1>2, EraseLoop DEF RemoveCallback
<1>3. ASSUME Commit PROVE LoopInv'
  BY <1>0, <1>3, <1>a DEF Commit
<1>4. ASSUME NEW wants \in BOOLEAN, Compute(wants) PROVE LoopInv'
  BY <1>0, <1>4, <1>a DEF Compute
<1>5. ASSUME RunFailed PROVE LoopInv'
  BY <1>0, <1>5, <1>a DEF RunFailed
<1>6. ASSUME PrepareHandover PROVE LoopInv'
  <2>1. callbacks' \in Seq(Callback)
    BY <1>6, TypeNext DEF Next, TypeOK
  <2>2. Len(callbacks') = Len(callbacks)
    BY <1>0, <1>6 DEF PrepareHandover
  <2> QED
    BY <1>0, <1>6, <1>a, <2>1, <2>2 DEF PrepareHandover
<1>7. ASSUME Package PROVE LoopInv'
  <2>1. callbacks' \in Seq(Callback)
    BY <1>7, TypeNext DEF Next, Deliver, TypeOK
  <2>2. Len(callbacks') = Len(callbacks)
    BY <1>0, <1>7 DEF Package
  <2> QED
    BY <1>0, <1>7, <1>a, <2>1, <2>2 DEF Package
<1>8. ASSUME NEW round \in {"before", "after", "available"}, BeginRound(round) PROVE LoopInv'
  BY <1>0, <1>8, TurnLoop, CounterRange DEF BeginRound
<1>9. ASSUME BeginError PROVE LoopInv'
  <2>1. Plus1(index) \in 0 .. Npos
    BY <1>0, CounterRange
  <2>2. Size \in 0 .. Npos
    BY ONLY <1>0
  <2>3. Turn(callbacks, "error", Plus1(index), Size, "idle") /\ count' = Size /\ UNCHANGED <<haveCbs, miscounted>>
    BY <1>9 DEF BeginError
  <2>4. ~miscounted => Size <= Size
    BY <1>0
  <2> QED
    BY <2>1, <2>2, <2>3, <2>4, TurnLoop
<1>10. ASSUME CallbackReturns PROVE LoopInv'
  BY <1>0, <1>10, TurnLoop, CounterRange DEF CallbackReturns
<1>11. ASSUME ErrorReturns PROVE LoopInv'
  <2>1. CASE calling \in Registered
    <3>1. PICK idx \in 0 .. Size - 1 : callbacks[idx + 1].token = calling /\ Erase(idx)
      BY <1>11, <2>1 DEF ErrorReturns
    <3> QED
      BY <1>0, <1>11, <3>1, EraseLoop DEF ErrorReturns, Others
  <2>2. CASE calling \notin Registered
    BY <1>0, <1>a, <1>11, <2>2 DEF ErrorReturns
  <2> QED
    BY <2>1, <2>2
<1>12. ASSUME ErrorGoesOn PROVE LoopInv'
  BY <1>0, <1>12, TurnLoop, CounterRange DEF ErrorGoesOn
<1>13. CASE UNCHANGED vars
  BY <1>0, <1>13, <1>a DEF vars
<1> QED
  BY <1>1, <1>2, <1>3, <1>4, <1>5, <1>6, <1>7, <1>8, <1>9, <1>10, <1>11, <1>12, <1>13 DEF Next, Deliver

\* A new notifier satisfies the invariant.
LEMMA LoopInit == Init => TypeOK /\ LoopInv
  BY TypeInit DEF Init, Size

\* The worker never misses that there is a callback to compute changes for, nor computes them for
\* nobody, although add_callback inside a loop leaves m_have_callbacks alone.
THEOREM FlagCorrect == Spec => []FlagExact
<1>1. TypeOK /\ LoopInv /\ [Next]_vars => TypeOK' /\ LoopInv'
  BY TypeNext, LoopNext
<1>2. LoopInv => FlagExact
  OBVIOUS
<1> QED
  BY <1>1, <1>2, LoopInit, PTL DEF Spec

\* The loops over the callbacks stay inside the vector whatever is added and removed from inside
\* them, but for the removal of a callback that the bound of the loop never covered.
THEOREM OverrunsCorrect == Spec => []OverrunsOnlyIfMiscounted
<1>1. TypeOK /\ LoopInv /\ [Next]_vars => TypeOK' /\ LoopInv'
  BY TypeNext, LoopNext
<1>2. LoopInv => OverrunsOnlyIfMiscounted
  OBVIOUS
<1> QED
  BY <1>1, <1>2, LoopInit, PTL DEF Spec

-----------------------------------------------------------------------------
(* The deliveries.                                                         *)

\* Tokens are handed out once, and nothing is computed for one that is not in use yet.
Distinct ==
    /\ \A p, q \in 1 .. Size : callbacks[p].token = callbacks[q].token => p = q
    /\ \A p \in 1 .. Size : callbacks[p].token < nextToken
    /\ \A k \in Tokens : k >= nextToken => owed[k] = {} /\ told[k] = {}

\* What the worker has computed is new to every callback.
Fresh ==
    /\ \A k \in Tokens : owed[k] \subseteq 1 .. seen /\ owed[k] \cap change = {}
    /\ change \subseteq 1 .. seen
    /\ ~working => change = {}

\* The positions whose packaged changes are delivered: all when no delivery is under way, those
\* that joined since, and in the last round those the cursor has passed.
Delivered(p) ==
    \/ phase \in {"idle", "error"}
    \/ p > count
    \/ phase \in {"after", "available"} /\ p <= Plus1(index)

\* The positions that were told of their packaged changes before the Realm advanced.
Forewarned(p) ==
    \/ phase \in {"advanced", "after"}
    \/ phase = "before" /\ p <= Plus1(index)

DueInv ==
    /\ phase \in {"idle", "packaged", "advanced"} => index = Npos
    /\ \A p \in 1 .. Size :
         /\ Delivered(p) => callbacks[p].due = {}
         /\ Forewarned(p) => callbacks[p].due \subseteq announced[callbacks[p].token]

Balanced ==
    \A p \in 1 .. Size :
        LET c == callbacks[p] IN
        /\ owed[c.token] = told[c.token] \cup c.due \cup c.acc
        /\ told[c.token] \cap (c.due \cup c.acc) = {} /\ c.due \cap c.acc = {}

\* Nothing is said once the bound of a delivery was miscounted.
DeliveryInv == ~miscounted => Distinct /\ Fresh /\ DueInv /\ Balanced

\* Which callbacks one turn skips and which it calls, when its bound is inside the vector.
LEMMA TurnCases ==
    ASSUME TypeOK, NEW round, NEW i \in 0 .. Npos, NEW bound \in 0 .. Npos, bound <= Size, NEW done,
           Turn(callbacks, round, i, bound, done)
    PROVE  \/ /\ callbacks' = callbacks /\ index' = Npos /\ phase' = done
              /\ UNCHANGED <<announced, told>>
              /\ \A p \in 1 .. Size : i < p /\ p <= bound => ~Calls(round, callbacks[p])
           \/ \E j \in i .. bound - 1 :
                /\ j < Size /\ phase' = round /\ Call(callbacks, round, j)
                /\ \A p \in 1 .. Size : i < p /\ p <= j => ~Calls(round, callbacks[p])
<1> DEFINE next == Callable(callbacks, round, i, bound)
<1>0. Size \in Nat /\ Size = Len(callbacks) /\ Npos \in Nat
  BY DEF TypeOK, Size, Npos
<1>1. \A j : j \in next <=> j \in i .. bound - 1 /\ Calls(round, callbacks[j + 1])
  BY <1>0 DEF Callable
<1>2. ASSUME NEW p \in 1 .. Size, i < p, p <= bound, p - 1 \notin next
      PROVE  ~Calls(round, callbacks[p])
  <2>1. p - 1 \in i .. bound - 1 /\ (p - 1) + 1 = p
    BY <1>0, <1>2
  <2> QED
    BY <1>1, <1>2, <2>1
<1>3. ASSUME next = {} PROVE \A p \in 1 .. Size : i < p /\ p <= bound => ~Calls(round, callbacks[p])
  BY <1>2, <1>3
<1>4. ASSUME NEW j \in next, \A k \in next : j <= k
      PROVE  /\ j \in i .. bound - 1 /\ j < Size
             /\ \A p \in 1 .. Size : i < p /\ p <= j => ~Calls(round, callbacks[p])
  <2>1. j \in i .. bound - 1 /\ j < Size
    BY <1>0, <1>1, <1>4
  <2>2. ASSUME NEW p \in 1 .. Size, i < p, p <= j PROVE ~Calls(round, callbacks[p])
    <3>1. p - 1 \notin next
      BY <1>4, <2>1, <2>2
    <3> QED
      BY <1>0, <1>2, <2>1, <2>2, <3>1
  <2> QED
    BY <2>1, <2>2
<1> HIDE DEF next
<1>5. \/ /\ next = {} /\ callbacks' = callbacks /\ index' = Npos /\ phase' = done
         /\ UNCHANGED <<announced, told>>
      \/ \E j \in next : /\ \A k \in next : j <= k
                         /\ phase' = round /\ (j >= Len(callbacks) \/ Call(callbacks, round, j))
  BY DEF Turn, next
<1>6. CASE next = {} /\ callbacks' = callbacks /\ index' = Npos /\ phase' = done
           /\ UNCHANGED <<announced, told>>
  BY <1>3, <1>6
<1>7. ASSUME NEW j \in next, \A k \in next : j <= k, phase' = round,
             j >= Len(callbacks) \/ Call(callbacks, round, j)
      PROVE  \E m \in i .. bound - 1 :
                /\ m < Size /\ phase' = round /\ Call(callbacks, round, m)
                /\ \A p \in 1 .. Size : i < p /\ p <= m => ~Calls(round, callbacks[p])
  <2>1. /\ j \in i .. bound - 1 /\ j < Size
        /\ \A p \in 1 .. Size : i < p /\ p <= j => ~Calls(round, callbacks[p])
    BY <1>4, <1>7
  <2> QED
    BY <1>0, <1>7, <2>1
<1> QED
  BY <1>5, <1>6, <1>7

\* What one call does to the vector and to what was told.
LEMMA CallEffect ==
    ASSUME TypeOK, NEW round, NEW j \in 0 .. Size - 1, Call(callbacks, round, j)
    PROVE  /\ index' = j /\ Size' = Size
           /\ \A p \in 1 .. Size : /\ callbacks'[p].token = callbacks[p].token
                                   /\ callbacks'[p].acc = callbacks[p].acc
                                   /\ callbacks'[p].due =
                                        IF p = j + 1 /\ round \in {"after", "available"}
                                        THEN {} ELSE callbacks[p].due
           /\ \A k \in Tokens :
                told'[k] = IF k = callbacks[j + 1].token /\ round \in {"after", "available"}
                           THEN told[k] \cup callbacks[j + 1].due ELSE told[k]
           /\ \A k \in Tokens :
                announced'[k] = IF k = callbacks[j + 1].token /\ round = "before"
                                THEN callbacks[j + 1].due ELSE announced[k]
<1>0. /\ callbacks \in Seq(Callback) /\ Size = Len(callbacks) /\ Size \in Nat /\ j + 1 \in 1 .. Len(callbacks)
      /\ told \in [Tokens -> SUBSET Versions] /\ announced \in [Tokens -> SUBSET Versions]
  BY DEF TypeOK, Size
<1>1. index' = j
  BY DEF Call
<1>2. ASSUME NEW p \in 1 .. Size
      PROVE  /\ callbacks'[p].token = callbacks[p].token /\ callbacks'[p].acc = callbacks[p].acc
             /\ callbacks'[p].due = IF p = j + 1 /\ round \in {"after", "available"}
                                    THEN {} ELSE callbacks[p].due
  <2>1. callbacks[p] \in Callback
    BY <1>0
  <2>2. CASE round \in {"after", "available"}
    <3>1. callbacks' = [callbacks EXCEPT ![j + 1].initial = TRUE, ![j + 1].due = {}]
      BY <2>2 DEF Call
    <3>2. CASE p = j + 1
      BY <1>0, <2>2, <3>1, <3>2, CalledCallback
    <3>3. CASE p # j + 1
      BY <1>0, <3>1, <3>3
    <3> QED
      BY <3>2, <3>3
  <2>3. CASE round \notin {"after", "available"}
    BY <2>3 DEF Call
  <2> QED
    BY <2>2, <2>3
<1>3. Size' = Size
  <2>1. CASE round \in {"after", "available"}
    BY <1>0, <2>1, CalledCallback DEF Call, Size
  <2>2. CASE round \notin {"after", "available"}
    BY <2>2 DEF Call, Size
  <2> QED
    BY <2>1, <2>2
<1>4. ASSUME NEW k \in Tokens
      PROVE  told'[k] = IF k = callbacks[j + 1].token /\ round \in {"after", "available"}
                        THEN told[k] \cup callbacks[j + 1].due ELSE told[k]
  <2>1. told' = IF round \in {"after", "available"}
                THEN [told EXCEPT ![callbacks[j + 1].token] = @ \cup callbacks[j + 1].due] ELSE told
    BY DEF Call
  <2> QED
    BY <1>0, <2>1
<1>5. ASSUME NEW k \in Tokens
      PROVE  announced'[k] = IF k = callbacks[j + 1].token /\ round = "before"
                             THEN callbacks[j + 1].due ELSE announced[k]
  <2>1. announced' = IF round = "before"
                     THEN [announced EXCEPT ![callbacks[j + 1].token] = callbacks[j + 1].due]
                     ELSE announced
    BY DEF Call
  <2> QED
    BY <1>0, <2>1
<1> QED
  BY <1>1, <1>2, <1>3, <1>4, <1>5

\* A callback that a round skips has nothing packaged.
LEMMA SkippedHasNothing ==
    ASSUME NEW c \in Callback, NEW round \in {"before", "after", "available"}, ~Calls(round, c)
    PROVE  c.due = {}
  BY DEF Calls, Callback

\* Where the cursor stands in the vector.
LEMMA CursorPosition ==
    ASSUME TypeOK
    PROVE  /\ Plus1(index) \in 0 .. Npos /\ Plus1(Npos) = 0
           /\ \A j \in 0 .. Size - 1 : Plus1(j) = j + 1
           /\ Size \in Nat /\ Size < Npos /\ count \in 0 .. Npos /\ Npos \in Nat
           /\ \A p \in 1 .. Size : callbacks[p] \in Callback /\ callbacks[p].token \in Tokens
<1>1. /\ Size \in Nat /\ Size < Npos /\ Npos \in Nat /\ Size = Len(callbacks)
      /\ callbacks \in Seq(Callback) /\ index \in 0 .. Npos /\ count \in 0 .. Npos
  BY DEF TypeOK, Size, Npos
<1>2. Plus1(Npos) = 0 /\ \A j \in 0 .. Npos - 1 : Plus1(j) = j + 1
  BY DEF Plus1, Npos
<1>3. \A p \in 1 .. Size : callbacks[p] \in Callback /\ callbacks[p].token \in Tokens
  <2>1. \A c \in Callback : c.token \in Tokens
    BY DEF Callback
  <2>2. \A p \in 1 .. Size : callbacks[p] \in Callback
    BY <1>1
  <2> QED
    BY <2>1, <2>2
<1>4. Plus1(index) \in 0 .. Npos
  BY <1>1, CounterRange
<1> QED
  BY <1>1, <1>2, <1>3, <1>4

\* A turn of before_advance and after_advance.
LEMMA TurnDelivery ==
    ASSUME TypeOK, LoopInv, DeliveryInv, NEW round \in {"before", "after", "available"},
           \/ phase = round
           \/ phase = "packaged" /\ round \in {"before", "available"}
           \/ phase = "advanced" /\ round = "after",
           Turn(callbacks, round, Plus1(index), count, Done(round)),
           UNCHANGED <<count, miscounted, Others>>
    PROVE  DeliveryInv'
<1> SUFFICES ASSUME ~miscounted' PROVE Distinct' /\ Fresh' /\ DueInv' /\ Balanced'
  BY DEF DeliveryInv
<1>0. ~miscounted /\ Distinct /\ Fresh /\ DueInv /\ Balanced /\ count <= Size
  BY DEF DeliveryInv
<1>i. /\ Plus1(index) \in 0 .. Npos /\ Plus1(Npos) = 0 /\ (\A j \in 0 .. Size - 1 : Plus1(j) = j + 1)
      /\ Size \in Nat /\ Size < Npos /\ count \in 0 .. Npos
      /\ \A p \in 1 .. Size : callbacks[p] \in Callback /\ callbacks[p].token \in Tokens
  BY CursorPosition
<1>u. UNCHANGED <<nextToken, owed, seen, change, working>>
  BY DEF Others, worker
\* Nothing is packaged for what this turn skips, nor beyond the bound.
<1>s. ASSUME NEW p \in 1 .. Size, Plus1(index) < p, ~Calls(round, callbacks[p])
      PROVE  callbacks[p].due = {}
  BY <1>i, <1>s, SkippedHasNothing
<1>b. ASSUME NEW p \in 1 .. Size, p > count PROVE callbacks[p].due = {}
  BY <1>0, <1>b DEF DueInv, Delivered
\* What the cursor has passed.
<1>p. ASSUME NEW p \in 1 .. Size, p <= Plus1(index)
      PROVE  /\ round \in {"after", "available"} => callbacks[p].due = {}
             /\ round = "before" => callbacks[p].due \subseteq announced[callbacks[p].token]
  <2>1. phase = round
    BY <1>0, <1>i, <1>p DEF DueInv
  <2> QED
    BY <1>0, <1>p, <2>1 DEF DueInv, Delivered, Forewarned
<1>1. ASSUME callbacks' = callbacks, index' = Npos, phase' = Done(round), UNCHANGED <<announced, told>>,
             \A p \in 1 .. Size : Plus1(index) < p /\ p <= count => ~Calls(round, callbacks[p])
      PROVE  Distinct' /\ Fresh' /\ DueInv' /\ Balanced'
  <2>0. Size' = Size
    BY <1>1 DEF Size
  <2>1. Distinct' /\ Fresh' /\ Balanced'
    BY <1>0, <1>1, <1>u, <2>0 DEF Distinct, Fresh, Balanced
  <2>2. ASSUME NEW p \in 1 .. Size
        PROVE  /\ round \in {"after", "available"} => callbacks[p].due = {}
               /\ round = "before" => callbacks[p].due \subseteq announced[callbacks[p].token]
    <3>1. p > count \/ p <= Plus1(index) \/ (Plus1(index) < p /\ p <= count)
      BY <1>i
    <3> QED
      BY <1>1, <1>s, <1>b, <1>p, <3>1
  <2>3. DueInv'
    <3>1. CASE round = "before"
      <4>1. phase' = "advanced"
        BY <1>1, <3>1 DEF Done
      <4> QED
        BY <1>1, <1>b, <2>0, <2>2, <3>1, <4>1 DEF DueInv, Delivered, Forewarned
    <3>2. CASE round \in {"after", "available"}
      <4>1. phase' = "idle"
        BY <1>1, <3>2 DEF Done
      <4> QED
        BY <1>1, <2>0, <2>2, <3>2, <4>1 DEF DueInv, Delivered, Forewarned
    <3> QED
      BY <3>1, <3>2
  <2> QED
    BY <2>1, <2>3
<1>2. ASSUME NEW j \in Plus1(index) .. count - 1, j < Size, phase' = round, Call(callbacks, round, j),
             \A p \in 1 .. Size : Plus1(index) < p /\ p <= j => ~Calls(round, callbacks[p])
      PROVE  Distinct' /\ Fresh' /\ DueInv' /\ Balanced'
  <2> DEFINE called == callbacks[j + 1]
             after == round \in {"after", "available"}
  <2>0. j \in 0 .. Size - 1 /\ j + 1 \in 1 .. Size
    BY <1>i, <1>2
  <2>1. /\ index' = j /\ Size' = Size
        /\ \A p \in 1 .. Size : /\ callbacks'[p].token = callbacks[p].token
                                /\ callbacks'[p].acc = callbacks[p].acc
                                /\ callbacks'[p].due = IF p = j + 1 /\ after THEN {} ELSE callbacks[p].due
        /\ \A k \in Tokens : told'[k] = IF k = called.token /\ after THEN told[k] \cup called.due
                                        ELSE told[k]
        /\ \A k \in Tokens : announced'[k] = IF k = called.token /\ round = "before" THEN called.due
                                             ELSE announced[k]
    BY <1>2, <2>0, CallEffect
  <2>2. \A p \in 1 .. Size : callbacks[p].token = called.token => p = j + 1
    BY <1>0, <2>0 DEF Distinct
  <2>3. Distinct'
    <3>1. called.token < nextToken /\ called.token \in Tokens
      BY <1>0, <1>i, <2>0 DEF Distinct
    <3>2. \A k \in Tokens : k >= nextToken => told'[k] = {}
      <4>1. ASSUME NEW k \in Tokens, k >= nextToken PROVE told'[k] = told[k]
        <5>1. k # called.token
          BY <3>1, <4>1 DEF Tokens, TypeOK
        <5> QED
          BY <2>1, <5>1
      <4> QED
        BY <1>0, <4>1 DEF Distinct
    <3> QED
      BY <1>0, <1>u, <2>1, <3>2 DEF Distinct
  <2>4. Fresh'
    BY <1>0, <1>u DEF Fresh
  <2>5. Balanced'
    <3>1. ASSUME NEW p \in 1 .. Size
          PROVE  /\ owed'[callbacks'[p].token] = told'[callbacks'[p].token] \cup callbacks'[p].due \cup callbacks'[p].acc
                 /\ told'[callbacks'[p].token] \cap (callbacks'[p].due \cup callbacks'[p].acc) = {}
                 /\ callbacks'[p].due \cap callbacks'[p].acc = {}
      <4>0. /\ owed'[callbacks'[p].token] = owed[callbacks[p].token] /\ callbacks'[p].acc = callbacks[p].acc
            /\ callbacks'[p].token = callbacks[p].token /\ callbacks[p].token \in Tokens
        BY <1>i, <1>u, <2>1
      <4>1. /\ owed[callbacks[p].token] = told[callbacks[p].token] \cup callbacks[p].due \cup callbacks[p].acc
            /\ told[callbacks[p].token] \cap (callbacks[p].due \cup callbacks[p].acc) = {}
            /\ callbacks[p].due \cap callbacks[p].acc = {}
        BY <1>0 DEF Balanced
      <4>2. CASE p = j + 1 /\ after
        <5>1. callbacks'[p].due = {} /\ told'[callbacks[p].token] = told[callbacks[p].token] \cup callbacks[p].due
          BY <2>1, <4>0, <4>2
        <5> QED
          BY <4>0, <4>1, <5>1
      <4>3. CASE ~(p = j + 1 /\ after)
        <5>1. callbacks'[p].due = callbacks[p].due /\ told'[callbacks[p].token] = told[callbacks[p].token]
          BY <2>1, <2>2, <4>0, <4>3
        <5> QED
          BY <4>0, <4>1, <5>1
      <4> QED
        BY <4>2, <4>3
    <3> QED
      BY <2>1, <3>1 DEF Balanced
  <2>6. DueInv'
    <3>0. Plus1(index') = j + 1
      BY <1>i, <2>0, <2>1
    <3>1. phase' \notin {"idle", "packaged", "advanced", "error"}
      BY <1>2
    <3>2. ASSUME NEW p \in 1 .. Size, Delivered(p)' PROVE callbacks'[p].due = {}
      <4>1. CASE p > count
        BY <1>b, <2>1, <4>1
      <4>2. CASE p <= j + 1 /\ after
        <5>1. p = j + 1 \/ p <= Plus1(index) \/ (Plus1(index) < p /\ p <= j)
          BY <1>i, <1>2, <4>2
        <5> QED
          BY <1>p, <1>s, <1>2, <2>1, <4>2, <5>1
      <4> QED
        BY <1>2, <3>0, <3>1, <3>2, <4>1, <4>2 DEF Delivered
    <3>3. ASSUME NEW p \in 1 .. Size, Forewarned(p)'
          PROVE  callbacks'[p].due \subseteq announced'[callbacks'[p].token]
      <4>0. callbacks'[p].token = callbacks[p].token /\ callbacks[p].token \in Tokens
        BY <1>i, <2>1
      <4>1. CASE round = "before"
        <5>0. p <= j + 1 /\ callbacks'[p].due = callbacks[p].due
          BY <1>2, <2>1, <3>0, <3>3, <4>1 DEF Forewarned
        <5>1. CASE p = j + 1
          BY <2>1, <4>0, <4>1, <5>0, <5>1
        <5>2. CASE p # j + 1 /\ p <= Plus1(index)
          BY <1>p, <2>1, <2>2, <4>0, <4>1, <5>0, <5>2
        <5>3. CASE p # j + 1 /\ ~(p <= Plus1(index))
          <6>0. Plus1(index) < p /\ p <= j
            BY <1>i, <2>0, <5>0, <5>3
          <6>1. callbacks[p].due = {}
            BY <1>s, <1>2, <6>0
          <6> QED
            BY <5>0, <6>1
        <5> QED
          BY <5>1, <5>2, <5>3
      <4>2. CASE round = "after"
        <5>1. callbacks[p].due \subseteq announced[callbacks[p].token]
          BY <1>0, <4>2 DEF DueInv, Forewarned
        <5> QED
          BY <2>1, <4>0, <4>2, <5>1
      <4> QED
        BY <1>2, <3>1, <3>3, <4>1, <4>2 DEF Forewarned
    <3> QED
      BY <2>1, <3>1, <3>2, <3>3 DEF DueInv
  <2> QED
    BY <2>3, <2>4, <2>5, <2>6
<1>3. \/ /\ callbacks' = callbacks /\ index' = Npos /\ phase' = Done(round) /\ UNCHANGED <<announced, told>>
         /\ \A p \in 1 .. Size : Plus1(index) < p /\ p <= count => ~Calls(round, callbacks[p])
      \/ \E j \in Plus1(index) .. count - 1 :
            /\ j < Size /\ phase' = round /\ Call(callbacks, round, j)
            /\ \A p \in 1 .. Size : Plus1(index) < p /\ p <= j => ~Calls(round, callbacks[p])
  BY <1>0, <1>i, TurnCases
<1> QED
  BY <1>1, <1>2, <1>3

\* A turn of deliver_error: nothing is packaged, and nothing is told but the error.
LEMMA ErrorDelivery ==
    ASSUME TypeOK, LoopInv, DeliveryInv, phase \in {"idle", "error"}, NEW bound \in 0 .. Npos,
           ~miscounted => bound <= Size,
           Turn(callbacks, "error", Plus1(index), bound, "idle"), UNCHANGED <<miscounted, Others>>
    PROVE  DeliveryInv'
<1> SUFFICES ASSUME ~miscounted' PROVE Distinct' /\ Fresh' /\ DueInv' /\ Balanced'
  BY DEF DeliveryInv
<1>0. ~miscounted /\ Distinct /\ Fresh /\ DueInv /\ Balanced /\ bound <= Size
  BY DEF DeliveryInv
<1>i. /\ Plus1(index) \in 0 .. Npos /\ Size \in Nat /\ Size < Npos
      /\ \A p \in 1 .. Size : callbacks[p].token \in Tokens
  BY CursorPosition
<1>u. UNCHANGED <<nextToken, owed, seen, change, working>>
  BY DEF Others, worker
<1>1. /\ Size' = Size /\ UNCHANGED told
      /\ \A p \in 1 .. Size : /\ callbacks'[p].token = callbacks[p].token
                              /\ callbacks'[p].acc = callbacks[p].acc
                              /\ callbacks'[p].due = callbacks[p].due
      /\ phase' = "error" \/ (phase' = "idle" /\ index' = Npos)
  <2>1. CASE callbacks' = callbacks /\ index' = Npos /\ phase' = "idle" /\ UNCHANGED told
    BY <2>1 DEF Size
  <2>2. CASE \E j \in Plus1(index) .. bound - 1 :
               j < Size /\ phase' = "error" /\ Call(callbacks, "error", j)
    <3>1. PICK j \in Plus1(index) .. bound - 1 :
               j < Size /\ phase' = "error" /\ Call(callbacks, "error", j)
      BY <2>2
    <3>2. j \in 0 .. Size - 1
      BY <1>i, <3>1
    <3>3. told' = told
      BY <3>1 DEF Call
    <3> QED
      BY <3>1, <3>2, <3>3, CallEffect
  <2> QED
    BY <1>0, <1>i, <2>1, <2>2, TurnCases
<1>2. Distinct' /\ Fresh' /\ Balanced'
  BY <1>0, <1>1, <1>u DEF Distinct, Fresh, Balanced
<1>3. \A p \in 1 .. Size : callbacks[p].due = {}
  BY <1>0 DEF DueInv, Delivered
<1>4. DueInv'
  BY <1>1, <1>3 DEF DueInv
<1> QED
  BY <1>2, <1>4

\* Where the callbacks are after one was erased.
LEMMA RemovalMoves ==
    ASSUME NEW s \in Seq(Callback), NEW k \in 1 .. Len(s), NEW p \in 1 .. Len(s) - 1
    PROVE  RemoveAt(s, k)[p] = s[IF p < k THEN p ELSE p + 1]
<1> DEFINE front == SubSeq(s, 1, k - 1)
           back  == SubSeq(s, k + 1, Len(s))
<1>1. front \in Seq(Callback) /\ Len(front) = k - 1 /\ \A n \in 1 .. k - 1 : front[n] = s[n]
  OBVIOUS
<1>2. back \in Seq(Callback) /\ Len(back) = Len(s) - k /\ \A n \in 1 .. Len(s) - k : back[n] = s[k + n]
  OBVIOUS
<1>3. RemoveAt(s, k) = front \o back
  BY DEF RemoveAt
<1> HIDE DEF front, back
<1>4. \A n \in 1 .. Len(front) + Len(back) :
        (front \o back)[n] = IF n <= Len(front) THEN front[n] ELSE back[n - Len(front)]
  BY <1>1, <1>2
<1>5. CASE p < k
  BY <1>1, <1>2, <1>3, <1>4, <1>5
<1>6. CASE ~(p < k)
  <2>1. p - (k - 1) \in 1 .. Len(s) - k /\ k + (p - (k - 1)) = p + 1
    BY <1>6
  <2>2. (front \o back)[p] = back[p - (k - 1)]
    BY <1>1, <1>2, <1>4, <1>6
  <2> QED
    BY <1>2, <1>3, <1>6, <2>1, <2>2
<1> QED
  BY <1>5, <1>6

\* Erasing a callback, in the middle of a delivery or outside.
LEMMA EraseDelivery ==
    ASSUME TypeOK, LoopInv, DeliveryInv, NEW idx \in Nat, idx < Size, Erase(idx),
           UNCHANGED <<nextToken, phase, announced, told, owed, seen, change, working>>
    PROVE  DeliveryInv'
<1> SUFFICES ASSUME ~miscounted' PROVE Distinct' /\ Fresh' /\ DueInv' /\ Balanced'
  BY DEF DeliveryInv
<1>0. /\ index' = (IF index # Npos /\ index >= idx THEN Minus1(index) ELSE index)
      /\ count' = Minus1(count) /\ callbacks' = RemoveAt(callbacks, idx + 1)
      /\ ~miscounted /\ (phase # "idle" => ~(idx >= count))
  BY DEF Erase, CursorAfterRemoval, BoundAfterRemoval
<1>d. Distinct /\ Fresh /\ DueInv /\ Balanced /\ (phase # "idle" => count <= Size)
  BY <1>0 DEF DeliveryInv
<1>i. /\ Size \in Nat /\ Size < Npos /\ count \in 0 .. Npos /\ Npos \in Nat /\ index \in 0 .. Npos
      /\ callbacks \in Seq(Callback) /\ Size = Len(callbacks)
      /\ index # Npos => index < Size
  BY CursorPosition DEF TypeOK, Size
<1>m. \A n \in 0 .. Npos : Minus1(n) = IF n = 0 THEN Npos ELSE n - 1
  BY CounterRange
<1>s. Size' = Size - 1
  BY EraseTypes
<1> DEFINE from(p) == IF p < idx + 1 THEN p ELSE p + 1
<1>1. \A p \in 1 .. Size - 1 : from(p) \in 1 .. Size /\ callbacks'[p] = callbacks[from(p)]
  BY <1>0, <1>i, RemovalMoves
<1>2. \A p, q \in 1 .. Size - 1 : from(p) = from(q) => p = q
  BY <1>i
<1>3. ASSUME NEW p \in 1 .. Size - 1, p <= Plus1(index)' PROVE from(p) <= Plus1(index)
  <2>1. Plus1(index)' = Plus1(index') /\ Plus1(Npos) = 0 /\ \A n \in 0 .. Npos - 1 : Plus1(n) = n + 1
    BY <1>i DEF Plus1, Npos
  <2>2. CASE index = Npos
    BY <1>0, <1>3, <2>1, <2>2
  <2>3. CASE index # Npos /\ index >= idx /\ index = 0
    <3>1. index' = Npos
      BY <1>0, <1>i, <1>m, <2>3
    <3> QED
      BY <1>3, <2>1, <3>1
  <2>4. CASE index # Npos /\ index >= idx /\ index # 0
    <3>1. index' = index - 1 /\ index - 1 \in 0 .. Npos - 1 /\ index \in 0 .. Npos - 1
      BY <1>0, <1>i, <1>m, <2>4
    <3>2. p <= index /\ Plus1(index) = index + 1
      BY <1>3, <2>1, <3>1
    <3> QED
      BY <3>1, <3>2
  <2>5. CASE index # Npos /\ ~(index >= idx)
    <3>1. index' = index /\ index \in 0 .. Npos - 1
      BY <1>0, <1>i, <2>5
    <3>2. p <= index + 1 /\ Plus1(index) = index + 1
      BY <1>3, <2>1, <3>1
    <3> QED
      BY <2>5, <3>1, <3>2
  <2> QED
    BY <2>2, <2>3, <2>4, <2>5
<1>4. ASSUME NEW p \in 1 .. Size - 1, phase # "idle", p > count' PROVE from(p) > count
  <2>1. count' = count - 1 /\ idx < count
    BY <1>0, <1>i, <1>m, <1>4
  <2> QED
    BY <1>4, <1>i, <2>1
<1> HIDE DEF from
<1>5. Distinct'
  BY <1>d, <1>s, <1>1, <1>2 DEF Distinct
<1>6. Fresh' /\ Balanced'
  BY <1>d, <1>s, <1>1 DEF Fresh, Balanced
<1>7. DueInv'
  <2>1. (phase \in {"idle", "packaged", "advanced"} => index = Npos)'
    BY <1>d, <1>0 DEF DueInv
  <2>2. ASSUME NEW p \in 1 .. Size - 1, Delivered(p)' PROVE callbacks'[p].due = {}
    <3>1. Delivered(from(p))
      BY <1>3, <1>4, <2>2 DEF Delivered
    <3> QED
      BY <1>d, <1>1, <3>1 DEF DueInv
  <2>3. ASSUME NEW p \in 1 .. Size - 1, Forewarned(p)'
        PROVE  callbacks'[p].due \subseteq announced'[callbacks'[p].token]
    <3>1. Forewarned(from(p))
      BY <1>3, <2>3 DEF Forewarned
    <3> QED
      BY <1>d, <1>1, <3>1 DEF DueInv
  <2> QED
    BY <1>s, <2>1, <2>2, <2>3 DEF DueInv
<1> QED
  BY <1>5, <1>6, <1>7

LEMMA DeliveryNext == TypeOK /\ LoopInv /\ DeliveryInv /\ [Next]_vars => DeliveryInv'
<1> SUFFICES ASSUME TypeOK, LoopInv, DeliveryInv, [Next]_vars PROVE DeliveryInv'
  OBVIOUS
<1> USE DEF cursor, worker, history
<1>i. /\ Plus1(index) \in 0 .. Npos /\ Size \in Nat /\ Size < Npos /\ count \in 0 .. Npos /\ Npos \in Nat
      /\ Size = Len(callbacks) /\ callbacks \in Seq(Callback)
      /\ \A p \in 1 .. Size : callbacks[p] \in Callback /\ callbacks[p].token \in Tokens
  BY CursorPosition DEF TypeOK, Size
\* A step that leaves the deliveries, and what was computed and told, alone.
<1>a. ASSUME UNCHANGED <<callbacks, index, count, phase, miscounted, nextToken, owed, told, announced>>,
             Fresh => Fresh'
      PROVE  DeliveryInv'
  BY <1>a DEF DeliveryInv, Distinct, DueInv, Delivered, Forewarned, Balanced, Size
<1>1. ASSUME AddCallback PROVE DeliveryInv'
  <2> SUFFICES ASSUME ~miscounted' PROVE Distinct' /\ Fresh' /\ DueInv' /\ Balanced'
    BY DEF DeliveryInv
  <2> DEFINE new == [token |-> nextToken, acc |-> {}, due |-> {}, initial |-> FALSE]
  <2>0. /\ callbacks' = Append(callbacks, new) /\ nextToken' = nextToken + 1 /\ nextToken < MaxTokens
        /\ UNCHANGED <<index, count, phase, miscounted, owed, told, announced, seen, change, working>>
    BY <1>1 DEF AddCallback
  <2>1. Distinct /\ Fresh /\ DueInv /\ Balanced /\ nextToken \in Tokens /\ nextToken \in Nat
    BY <2>0 DEF DeliveryInv, TypeOK, Tokens
  <2>2. /\ Size' = Size + 1 /\ callbacks'[Size + 1] = new
        /\ \A p \in 1 .. Size : callbacks'[p] = callbacks[p]
    BY <1>i, <2>0 DEF Size
  <2>3. new.token = nextToken /\ new.due = {} /\ new.acc = {}
    OBVIOUS
  <2> HIDE DEF new
  <2>4. Distinct'
    <3>1. \A p \in 1 .. Size' : p \in 1 .. Size \/ p = Size + 1
      BY <1>i, <2>2
    <3>2. \A p \in 1 .. Size : callbacks'[p].token < nextToken /\ callbacks'[p].token \in Nat
      BY <1>i, <2>1, <2>2 DEF Distinct, Tokens
    <3>3. \A p, q \in 1 .. Size' : callbacks'[p].token = callbacks'[q].token => p = q
      BY <2>1, <2>2, <2>3, <3>1, <3>2 DEF Distinct
    <3>4. \A p \in 1 .. Size' : callbacks'[p].token < nextToken'
      BY <2>0, <2>1, <2>2, <2>3, <3>1, <3>2
    <3>5. \A k \in Tokens : k >= nextToken' => owed'[k] = {} /\ told'[k] = {}
      BY <2>0, <2>1 DEF Distinct, Tokens
    <3> QED
      BY <3>3, <3>4, <3>5 DEF Distinct
  <2>5. Fresh'
    BY <2>0, <2>1 DEF Fresh
  <2>6. Balanced'
    BY SMTT(30), <1>i, <2>0, <2>1, <2>2, <2>3 DEF Balanced, Distinct
  <2>7. DueInv'
    <3>1. (phase \in {"idle", "packaged", "advanced"} => index = Npos)'
      BY <2>0, <2>1 DEF DueInv
    <3>2. ASSUME NEW p \in 1 .. Size'
          PROVE  /\ Delivered(p)' => callbacks'[p].due = {}
                 /\ Forewarned(p)' => callbacks'[p].due \subseteq announced'[callbacks'[p].token]
      <4>1. CASE p = Size + 1
        BY <2>2, <2>3, <4>1
      <4>2. CASE p \in 1 .. Size
        BY <2>0, <2>1, <2>2, <4>2 DEF DueInv, Delivered, Forewarned
      <4> QED
        BY <1>i, <2>2, <4>1, <4>2
    <3> QED
      BY <3>1, <3>2 DEF DueInv
  <2> QED
    BY <2>4, <2>5, <2>6, <2>7
<1>2. ASSUME NEW idx \in 0 .. MaxTokens - 1, RemoveCallback(idx) PROVE DeliveryInv'
  BY <1>2, EraseDelivery DEF RemoveCallback
<1>3. ASSUME Commit PROVE DeliveryInv'
  BY <1>3, <1>a DEF Commit, Fresh
<1>4. ASSUME NEW wants \in BOOLEAN, Compute(wants) PROVE DeliveryInv'
  <2>1. seen \in Nat /\ latest \in Nat /\ seen <= latest
    BY DEF TypeOK
  <2>2. ASSUME Fresh PROVE Fresh'
    <3>1. change' \subseteq (seen + 1) .. seen' /\ seen' \in Nat /\ seen <= seen'
      BY <1>4, <2>1 DEF Compute
    <3>2. UNCHANGED owed /\ working'
      BY <1>4 DEF Compute
    <3> QED
      BY <2>1, <2>2, <3>1, <3>2 DEF Fresh
  <2> QED
    BY <1>4, <1>a, <2>2 DEF Compute
<1>5. ASSUME RunFailed PROVE DeliveryInv'
  BY <1>5, <1>a DEF RunFailed, Fresh
<1>6. ASSUME PrepareHandover PROVE DeliveryInv'
  <2> SUFFICES ASSUME ~miscounted' PROVE Distinct' /\ Fresh' /\ DueInv' /\ Balanced'
    BY DEF DeliveryInv
  <2>0. /\ UNCHANGED <<index, count, phase, miscounted, nextToken, told, announced, seen>>
        /\ ~working' /\ change' = {}
        /\ callbacks' = [p \in 1 .. Size |-> [callbacks[p] EXCEPT !.acc = @ \cup change]]
        /\ owed' = [k \in Tokens |-> IF k \in Registered THEN owed[k] \cup change ELSE owed[k]]
    BY <1>6 DEF PrepareHandover
  <2>1. Distinct /\ Fresh /\ DueInv /\ Balanced
    BY <2>0 DEF DeliveryInv
  <2>2. /\ Size' = Size
        /\ \A p \in 1 .. Size : /\ callbacks'[p].token = callbacks[p].token
                                /\ callbacks'[p].due = callbacks[p].due
                                /\ callbacks'[p].acc = callbacks[p].acc \cup change
    <3>1. Len(callbacks') = Size /\ \A p \in 1 .. Size : callbacks'[p] = [callbacks[p] EXCEPT !.acc = @ \cup change]
      BY <1>i, <2>0
    <3>2. \A c \in Callback : LET d == [c EXCEPT !.acc = @ \cup change] IN
            d.token = c.token /\ d.due = c.due /\ d.acc = c.acc \cup change
      BY DEF Callback
    <3> QED
      BY <1>i, <3>1, <3>2 DEF Size
  <2>3. \A p \in 1 .. Size : callbacks[p].token \in Registered
    BY DEF Registered
  <2>4. Distinct'
    <3>1. \A k \in Registered : k < nextToken
      BY <2>1 DEF Registered, Distinct
    <3>2. nextToken \in Nat
      BY DEF TypeOK
    <3>3. ASSUME NEW k \in Tokens, k >= nextToken PROVE owed'[k] = {}
      <4>1. k \notin Registered
        BY <3>1, <3>2, <3>3 DEF Tokens
      <4> QED
        BY <2>0, <2>1, <3>3, <4>1 DEF Distinct
    <3> QED
      BY <2>0, <2>1, <2>2, <3>3 DEF Distinct
  <2>5. Fresh'
    BY <2>0, <2>1 DEF Fresh
  <2>6. DueInv'
    BY <2>0, <2>1, <2>2 DEF DueInv, Delivered, Forewarned
  <2>7. Balanced'
    <3>1. ASSUME NEW p \in 1 .. Size
          PROVE  /\ owed'[callbacks'[p].token] = told'[callbacks'[p].token] \cup callbacks'[p].due \cup callbacks'[p].acc
                 /\ told'[callbacks'[p].token] \cap (callbacks'[p].due \cup callbacks'[p].acc) = {}
                 /\ callbacks'[p].due \cap callbacks'[p].acc = {}
      <4> DEFINE k == callbacks[p].token
      <4>1. owed'[k] = owed[k] \cup change /\ k \in Tokens
        BY <1>i, <2>0, <2>3
      <4>2. owed[k] \cap change = {}
        BY <2>1, <4>1 DEF Fresh
      <4>3. /\ owed[k] = told[k] \cup callbacks[p].due \cup callbacks[p].acc
            /\ told[k] \cap (callbacks[p].due \cup callbacks[p].acc) = {}
            /\ callbacks[p].due \cap callbacks[p].acc = {}
        BY <2>1 DEF Balanced
      <4> QED
        BY <2>0, <2>2, <4>1, <4>2, <4>3
    <3> QED
      BY <2>2, <3>1 DEF Balanced
  <2> QED
    BY <2>4, <2>5, <2>6, <2>7
<1>7. ASSUME Package PROVE DeliveryInv'
  <2> SUFFICES ASSUME ~miscounted' PROVE Distinct' /\ Fresh' /\ DueInv' /\ Balanced'
    BY DEF DeliveryInv
  <2>0. /\ UNCHANGED <<index, miscounted, nextToken, told, owed, seen, change, working>>
        /\ phase = "idle" /\ phase' = "packaged" /\ count' = Size
        /\ callbacks' = [p \in 1 .. Size |-> Packaged(callbacks[p])]
    BY <1>7 DEF Package
  <2>1. Distinct /\ Fresh /\ DueInv /\ Balanced
    BY <2>0 DEF DeliveryInv
  <2>2. /\ Size' = Size
        /\ \A p \in 1 .. Size : /\ callbacks'[p].token = callbacks[p].token
                                /\ callbacks'[p].due = callbacks[p].acc
                                /\ callbacks'[p].acc = {}
    <3>1. Len(callbacks') = Size /\ \A p \in 1 .. Size : callbacks'[p] = Packaged(callbacks[p])
      BY <1>i, <2>0
    <3>2. \A c \in Callback : /\ Packaged(c).token = c.token /\ Packaged(c).due = c.acc
                              /\ Packaged(c).acc = {}
      BY DEF Callback, Packaged
    <3> QED
      BY <1>i, <3>1, <3>2 DEF Size
  <2>3. \A p \in 1 .. Size : callbacks[p].due = {}
    BY <2>0, <2>1 DEF DueInv, Delivered
  <2>4. Distinct' /\ Fresh'
    BY <2>0, <2>1, <2>2 DEF Distinct, Fresh
  <2>5. DueInv'
    BY <1>i, <2>0, <2>1, <2>2 DEF DueInv, Delivered, Forewarned
  <2>6. Balanced'
    <3>1. ASSUME NEW p \in 1 .. Size
          PROVE  /\ owed'[callbacks'[p].token] = told'[callbacks'[p].token] \cup callbacks'[p].due \cup callbacks'[p].acc
                 /\ told'[callbacks'[p].token] \cap (callbacks'[p].due \cup callbacks'[p].acc) = {}
                 /\ callbacks'[p].due \cap callbacks'[p].acc = {}
      <4>1. /\ owed[callbacks[p].token] = told[callbacks[p].token] \cup callbacks[p].due \cup callbacks[p].acc
            /\ told[callbacks[p].token] \cap (callbacks[p].due \cup callbacks[p].acc) = {}
        BY <2>1 DEF Balanced
      <4>2. callbacks[p].due = {}
        BY <2>3
      <4>3. /\ callbacks'[p].token = callbacks[p].token /\ callbacks'[p].due = callbacks[p].acc
            /\ callbacks'[p].acc = {} /\ owed' = owed /\ told' = told
        BY <2>0, <2>2
      <4> QED
        BY <4>1, <4>2, <4>3
    <3> QED
      BY <2>2, <3>1 DEF Balanced
  <2> QED
    BY <2>4, <2>5, <2>6
<1>8. ASSUME NEW round \in {"before", "after", "available"}, BeginRound(round) PROVE DeliveryInv'
  BY <1>8, TurnDelivery DEF BeginRound
<1>9. ASSUME BeginError PROVE DeliveryInv'
  <2>1. Size \in 0 .. Npos /\ Size <= Size
    BY <1>i
  <2> QED
    BY <1>9, <2>1, ErrorDelivery DEF BeginError
<1>10. ASSUME CallbackReturns PROVE DeliveryInv'
  BY <1>10, TurnDelivery DEF CallbackReturns
<1>11. ASSUME ErrorReturns PROVE DeliveryInv'
  <2>1. CASE calling \in Registered
    <3>1. PICK idx \in 0 .. Size - 1 : callbacks[idx + 1].token = calling /\ Erase(idx)
      BY <1>11, <2>1 DEF ErrorReturns
    <3>2. idx \in Nat /\ idx < Size
      BY <1>i
    <3> QED
      BY <1>11, <3>1, <3>2, EraseDelivery DEF ErrorReturns, Others
  <2>2. CASE calling \notin Registered
    BY <1>a, <1>11, <2>2 DEF ErrorReturns, Others, Fresh
  <2> QED
    BY <2>1, <2>2
<1>12. ASSUME ErrorGoesOn PROVE DeliveryInv'
  BY <1>i, <1>12, ErrorDelivery DEF ErrorGoesOn
<1>13. CASE UNCHANGED vars
  BY <1>a, <1>13 DEF vars, Fresh
<1> QED
  BY <1>1, <1>2, <1>3, <1>4, <1>5, <1>6, <1>7, <1>8, <1>9, <1>10, <1>11, <1>12, <1>13 DEF Next, Deliver

\* The invariant of all the deliveries.
DeliveriesInv == TypeOK /\ LoopInv /\ DeliveryInv

LEMMA DeliveriesInit == Init => DeliveriesInv
  BY LoopInit DEF Init, DeliveriesInv, DeliveryInv, Distinct, Fresh, DueInv, Balanced, Size

LEMMA DeliveriesNext == DeliveriesInv /\ [Next]_vars => DeliveriesInv'
  BY TypeNext, LoopNext, DeliveryNext DEF DeliveriesInv

\* No change is lost or told twice between the worker and a callback, however many callbacks are
\* added and removed around its packaging and its rounds.
THEOREM NothingLostCorrect == Spec => []NothingLost
<1>1. DeliveriesInv => NothingLost
  BY DEF DeliveriesInv, DeliveryInv, Balanced, NothingLost
<1> QED
  BY <1>1, DeliveriesInit, DeliveriesNext, PTL DEF Spec

\* A delivery leaves nothing behind of what it packaged.
THEOREM RoundsCorrect == Spec => []RoundsComplete
<1>1. DeliveriesInv => RoundsComplete
  BY DEF DeliveriesInv, DeliveryInv, DueInv, Delivered, RoundsComplete
<1> QED
  BY <1>1, DeliveriesInit, DeliveriesNext, PTL DEF Spec

\* A callback only hears of changes after the Realm advanced that it was told of before.
THEOREM AnnouncedFirstCorrect == Spec => AnnouncedFirst
<1> DEFINE Warned == phase' = "after" /\ ~miscounted =>
                       \A k \in Tokens : told'[k] \subseteq told[k] \cup announced[k]
<1>1. ASSUME DeliveriesInv, [Next]_vars PROVE Warned
  <2> USE DEF cursor, worker, history
  <2> SUFFICES ASSUME phase' = "after", ~miscounted, NEW k \in Tokens
               PROVE  told'[k] \subseteq told[k] \cup announced[k]
    OBVIOUS
  <2>0. TypeOK /\ LoopInv /\ DueInv
    BY <1>1 DEF DeliveriesInv, DeliveryInv
  <2>1. CASE UNCHANGED told
    BY <2>1
  <2>2. ASSUME NEW round \in {"before", "after", "available"},
               phase = "advanced" \/ phase = "after" \/ round # "after", phase # "idle",
               Turn(callbacks, round, Plus1(index), count, Done(round))
        PROVE  told'[k] \subseteq told[k] \cup announced[k]
    <3>0. Plus1(index) \in 0 .. Npos /\ count \in 0 .. Npos /\ count <= Size /\ Size \in Nat
      BY <2>0, <2>2, CursorPosition
    <3>1. round = "after"
      <4>1. phase' \in {round, Done(round)}
        BY <2>0, <2>2, <3>0, TurnTypes
      <4> QED
        BY <4>1 DEF Done
    <3>2. CASE UNCHANGED told
      BY <3>2
    <3>3. ASSUME NEW j \in Plus1(index) .. count - 1, j < Size, Call(callbacks, round, j)
          PROVE  told'[k] \subseteq told[k] \cup announced[k]
      <4>1. j \in 0 .. Size - 1 /\ j + 1 \in 1 .. Size
        BY <3>0, <3>3
      <4>2. told'[k] = IF k = callbacks[j + 1].token /\ round \in {"after", "available"}
                       THEN told[k] \cup callbacks[j + 1].due ELSE told[k]
        BY ZenonT(60), <2>0, <3>3, <4>1, CallEffect
      <4>3. callbacks[j + 1].due \subseteq announced[callbacks[j + 1].token]
        BY <2>0, <2>2, <3>1, <4>1 DEF DueInv, Forewarned
      <4> QED
        BY <4>2, <4>3
    <3> QED
      BY <2>0, <2>2, <3>0, <3>2, <3>3, TurnCases
  <2>3. ASSUME NEW round \in {"before", "after", "available"}, BeginRound(round)
        PROVE  told'[k] \subseteq told[k] \cup announced[k]
    BY <2>2, <2>3 DEF BeginRound
  <2>4. ASSUME CallbackReturns PROVE told'[k] \subseteq told[k] \cup announced[k]
    BY <2>2, <2>4 DEF CallbackReturns
  <2>5. ASSUME BeginError \/ ErrorGoesOn PROVE FALSE
    <3>1. PICK bound \in 0 .. Npos : Turn(callbacks, "error", Plus1(index), bound, "idle")
      <4>1. Size \in 0 .. Npos /\ count \in 0 .. Npos
        BY <2>0, CursorPosition
      <4> QED
        BY <2>5, <4>1 DEF BeginError, ErrorGoesOn
    <3> QED
      <4>1. Plus1(index) \in 0 .. Npos
        BY <2>0, CursorPosition
      <4>2. phase' \in {"error", "idle"}
        BY <2>0, <3>1, <4>1, TurnTypes
      <4> QED
        BY <4>2
  <2> QED
    BY <1>1, <2>1, <2>3, <2>4, <2>5 DEF Next, Deliver, AddCallback, RemoveCallback, Commit, Compute,
       RunFailed, PrepareHandover, Package, ErrorReturns, vars
<1>2. Warned => [Warned]_vars
  OBVIOUS
<1> QED
  BY <1>1, DeliveriesInit, DeliveriesNext, PTL DEF Spec, AnnouncedFirst

=============================================================================
