------------------------ MODULE SyncSession_proofs ------------------------
(***************************************************************************)
(* Theorems about SyncSession, for any threads, handlers and bounds, and   *)
(* about the ConnectionChangeNotifier that is a member of it, for any      *)
(* number of threads and callbacks and any width of size_t that can count  *)
(* them.                                                                   *)
(***************************************************************************)
EXTENDS SyncSession, ConnectionChangeNotifier, TLAPS

-----------------------------------------------------------------------------
\* ConnectionChangeNotifier

USE WidthAssumption

\* What erasing one callback does to the vector.
LEMMA RemovalShrinks ==
    ASSUME NEW S, NEW s \in Seq(S), NEW i \in 1 .. Len(s)
    PROVE  RemoveAt(s, i) \in Seq(S) /\ Len(RemoveAt(s, i)) = Len(s) - 1
<1> DEFINE front == SubSeq(s, 1, i - 1)
           back  == SubSeq(s, i + 1, Len(s))
<1>1. front \in Seq(S) /\ Len(front) = i - 1
  OBVIOUS
<1>2. back \in Seq(S) /\ Len(back) = Len(s) - i
  OBVIOUS
<1>3. RemoveAt(s, i) = front \o back
  BY DEF RemoveAt
<1> HIDE DEF front, back
<1>4. front \o back \in Seq(S) /\ Len(front \o back) = Len(front) + Len(back)
  BY <1>1, <1>2
<1> QED
  BY <1>1, <1>2, <1>3, <1>4

\* The counters stay inside their width.
LEMMA CounterRange ==
    ASSUME NEW n \in 0 .. Npos
    PROVE  Plus1(n) \in 0 .. Npos /\ Minus1(n) \in 0 .. Npos /\ Npos \in Nat
BY DEF Plus1, Minus1, Npos

\* A turn of the loop keeps the types of what it writes.
LEMMA TurnTypes ==
    ASSUME NotifierTypeOK, NEW t \in Invokers, NEW i \in 0 .. Npos, NEW limit,
           NEW before \in [Tokens -> 0 .. 2], Turn(t, i, limit, before)
    PROVE  /\ index' \in 0 .. Npos
           /\ calling' \in [Invokers -> Tokens \cup {None}]
           /\ overrun' \in BOOLEAN
           /\ times' \in [Invokers -> [Tokens -> 0 .. 2]]
<1>1. Npos \in 0 .. Npos
  BY DEF Npos
<1>2. CASE CallNext(t, i, limit, before)
  <2> DEFINE cb == callbacks[i + 1]
             after == [before EXCEPT ![cb] = IF @ = 0 THEN 1 ELSE 2]
  <2>1. cb \in Tokens
    BY <1>2, Npos \in Nat DEF CallNext, NotifierTypeOK, Size, Npos
  <2>2. after \in [Tokens -> 0 .. 2]
    <3> DEFINE more == IF before[cb] = 0 THEN 1 ELSE 2
    <3>1. after = [before EXCEPT ![cb] = more] /\ more \in 0 .. 2
      OBVIOUS
    <3> HIDE DEF more, cb
    <3> QED
      BY <3>1
  <2>3. times' = [times EXCEPT ![t] = after]
    BY <1>2 DEF CallNext
  <2>4. calling' = [calling EXCEPT ![t] = cb] /\ index' = i /\ overrun' = overrun
    BY <1>2 DEF CallNext
  <2> HIDE DEF after, cb
  <2> QED
    BY <2>1, <2>2, <2>3, <2>4 DEF NotifierTypeOK
<1>3. CASE EndLoop(t, i, limit, before)
  BY <1>1, <1>3 DEF EndLoop, NotifierTypeOK
<1>4. CASE ReadPastEnd(t, i, limit, before)
  BY <1>4 DEF ReadPastEnd, NotifierTypeOK
<1> QED
  BY <1>2, <1>3, <1>4 DEF Turn

\* Type correctness: cursor and bound stay inside a size_t, tokens are ones handed out.
THEOREM NotifierTypeCorrect == NotifierSpec => []NotifierTypeOK
<1>1. NotifierInit => NotifierTypeOK
  <2> SUFFICES ASSUME NotifierInit PROVE NotifierTypeOK
    OBVIOUS
  <2>1. callbacks \in Seq(Tokens) /\ Size = 0 /\ nextToken = 0
    BY DEF NotifierInit, Size
  <2>2. index \in 0 .. Npos /\ count \in 0 .. Npos
    BY DEF NotifierInit, Npos
  <2>3. owed \in [Invokers -> SUBSET Tokens]
    BY DEF NotifierInit
  <2>4. times \in [Invokers -> [Tokens -> 0 .. 2]]
    <3>1. NotCalled \in [Tokens -> 0 .. 2]
      BY DEF NotCalled
    <3> QED
      BY <3>1 DEF NotifierInit
  <2>5. calling \in [Invokers -> Tokens \cup {None}] /\ overrun \in BOOLEAN
    BY DEF NotifierInit
  <2>6. newcomerRemoved \in BOOLEAN /\ overlapped \in BOOLEAN
    BY DEF NotifierInit
  <2> QED
    BY <2>1, <2>2, <2>3, <2>4, <2>5, <2>6 DEF NotifierTypeOK
<1>2. NotifierTypeOK /\ [NotifierNext]_notifierVars => NotifierTypeOK'
  <2> SUFFICES ASSUME NotifierTypeOK, [NotifierNext]_notifierVars PROVE NotifierTypeOK'
    OBVIOUS
  <2>0. /\ callbacks \in Seq(Tokens) /\ Size <= nextToken /\ Size \in Nat
        /\ index \in 0 .. Npos /\ count \in 0 .. Npos /\ nextToken \in 0 .. MaxTokens
    BY DEF NotifierTypeOK, Size
  <2> DEFINE Same == UNCHANGED <<calling, overrun, times>>
             Vector == callbacks' \in Seq(Tokens) /\ Size' <= nextToken' /\ nextToken' \in 0 .. MaxTokens
             Cursor == index' \in 0 .. Npos /\ count' \in 0 .. Npos
             Turns == /\ calling' \in [Invokers -> Tokens \cup {None}]
                      /\ overrun' \in BOOLEAN
                      /\ times' \in [Invokers -> [Tokens -> 0 .. 2]]
             Owed == owed' \in [Invokers -> SUBSET Tokens]
             History == newcomerRemoved' \in BOOLEAN /\ overlapped' \in BOOLEAN
  <2>s. ASSUME Same PROVE Turns
    BY <2>s DEF NotifierTypeOK
  <2>1. CASE AddCallback
    <3>1. nextToken \in Tokens
      BY <2>0, <2>1 DEF AddCallback, Tokens
    <3>2. Vector
      BY <2>0, <2>1, <3>1 DEF AddCallback, Size, Tokens
    <3>3. Cursor /\ Owed /\ Same
      BY <2>0, <2>1 DEF AddCallback, NotifierTypeOK
    <3>4. History
      BY <2>1 DEF AddCallback, NotifierTypeOK, history
    <3> QED
      BY <2>s, <3>2, <3>3, <3>4 DEF NotifierTypeOK
  <2>2. ASSUME NEW idx \in 0 .. MaxTokens - 1, RemoveCallback(idx) PROVE NotifierTypeOK'
    <3>1. idx + 1 \in 1 .. Len(callbacks)
      BY <2>0, <2>2 DEF RemoveCallback, Size
    <3>2. callbacks' \in Seq(Tokens) /\ Len(callbacks') = Len(callbacks) - 1
      BY <2>0, <2>2, <3>1, RemovalShrinks DEF RemoveCallback
    <3>3. Vector
      BY <2>0, <2>2, <3>2 DEF RemoveCallback, Size
    <3>4. Cursor
      BY <2>0, <2>2, CounterRange DEF RemoveCallback, CursorAfterRemoval, BoundAfterRemoval
    <3>5. Owed
      BY <2>2 DEF RemoveCallback, NotifierTypeOK
    <3>6. History
      BY <2>2 DEF RemoveCallback, NotifierTypeOK
    <3>7. Same
      BY <2>2 DEF RemoveCallback
    <3> QED
      BY <2>s, <3>3, <3>4, <3>5, <3>6, <3>7 DEF NotifierTypeOK
  <2>3. ASSUME NEW t \in Invokers, BeginInvoke(t) PROVE NotifierTypeOK'
    <3>1. NotCalled \in [Tokens -> 0 .. 2] /\ Plus1(index) \in 0 .. Npos
      BY <2>0, CounterRange DEF NotCalled
    <3>2. Turn(t, Plus1(index), Size, NotCalled)
      BY <2>3 DEF BeginInvoke
    <3>3. index' \in 0 .. Npos /\ Turns
      BY <3>1, <3>2, TurnTypes
    <3>4. ToSet(callbacks) \in SUBSET Tokens
      BY <2>0 DEF ToSet
    <3>5. Owed
      BY <2>3, <3>4 DEF BeginInvoke, NotifierTypeOK
    <3>6. count' \in 0 .. Npos
      BY <2>0, <2>3 DEF BeginInvoke, Npos
    <3>7. Vector
      BY <2>0, <2>3 DEF BeginInvoke, Size
    <3>8. History
      BY <2>3 DEF BeginInvoke, NotifierTypeOK
    <3> QED
      BY <3>3, <3>5, <3>6, <3>7, <3>8 DEF NotifierTypeOK
  <2>4. ASSUME NEW t \in Invokers, CallbackReturns(t) PROVE NotifierTypeOK'
    <3>1. times[t] \in [Tokens -> 0 .. 2] /\ Plus1(index) \in 0 .. Npos
      BY <2>0, CounterRange DEF NotifierTypeOK
    <3>2. Turn(t, Plus1(index), count, times[t])
      BY <2>4 DEF CallbackReturns
    <3>3. index' \in 0 .. Npos /\ Turns
      BY <3>1, <3>2, TurnTypes
    <3>4. Owed /\ Vector /\ count' \in 0 .. Npos
      BY <2>0, <2>4 DEF CallbackReturns, NotifierTypeOK, Size
    <3>5. History
      BY <2>4 DEF CallbackReturns, NotifierTypeOK, history
    <3> QED
      BY <3>3, <3>4, <3>5 DEF NotifierTypeOK
  <2>5. CASE UNCHANGED notifierVars
    <3>1. Vector /\ Cursor /\ Owed /\ Same
      BY <2>0, <2>5 DEF notifierVars, NotifierTypeOK, Size
    <3>2. History
      BY <2>5 DEF notifierVars, history, NotifierTypeOK
    <3> QED
      BY <2>s, <3>1, <3>2 DEF NotifierTypeOK
  <2> QED
    BY <2>1, <2>2, <2>3, <2>4, <2>5 DEF NotifierNext, Overrun
<1> QED
  BY <1>1, <1>2, PTL DEF NotifierSpec

\* However many threads run the loop and whatever is added and removed meanwhile,
\* it never reads past the end of m_callbacks as long as no callback registered
\* during a loop is removed during it: its bound never exceeds the vector's size.
THEOREM OverrunsOnlyForNewcomersHolds == NotifierSpec => []OverrunsOnlyForNewcomers
<1> DEFINE IInv == OverrunsOnlyForNewcomers /\ BoundInside
<1>1. NotifierInit => IInv
  BY DEF NotifierInit, OverrunsOnlyForNewcomers, BoundInside, InLoop
<1>2. NotifierTypeOK /\ IInv /\ [NotifierNext]_notifierVars => IInv'
  <2> SUFFICES ASSUME NotifierTypeOK, OverrunsOnlyForNewcomers, BoundInside, [NotifierNext]_notifierVars
               PROVE  OverrunsOnlyForNewcomers' /\ BoundInside'
    OBVIOUS
  <2>0. callbacks \in Seq(Tokens) /\ Size \in Nat /\ count \in Nat /\ index \in 0 .. Npos
    BY DEF NotifierTypeOK, Size, Npos
  <2>1. CASE AddCallback
    <3>1. /\ Size' = Size + 1 /\ InLoop' = InLoop /\ count' = count
          /\ overrun' = overrun /\ newcomerRemoved' = newcomerRemoved
      BY <2>0, <2>1 DEF AddCallback, Size, InLoop, history
    <3> QED
      BY <2>0, <3>1 DEF OverrunsOnlyForNewcomers, BoundInside
  <2>2. ASSUME NEW idx \in 0 .. MaxTokens - 1, RemoveCallback(idx)
        PROVE  OverrunsOnlyForNewcomers' /\ BoundInside'
    <3>1. InLoop' = InLoop
      BY <2>2 DEF RemoveCallback, InLoop
    <3>2. overrun' = overrun /\ (newcomerRemoved => newcomerRemoved')
      BY <2>2 DEF RemoveCallback
    <3>3. Size' = Size - 1
      <4>1. idx + 1 \in 1 .. Len(callbacks)
        BY <2>0, <2>2 DEF RemoveCallback, Size
      <4> QED
        BY <2>0, <2>2, <4>1, RemovalShrinks DEF RemoveCallback, Size
    <3>4. ASSUME InLoop, ~newcomerRemoved' PROVE count' = count - 1
      <4>1. ~(idx >= count)
        BY <2>2, <3>4 DEF RemoveCallback
      <4> QED
        BY <2>0, <2>2, <4>1 DEF RemoveCallback, BoundAfterRemoval, Minus1
    <3>5. OverrunsOnlyForNewcomers'
      BY <3>2 DEF OverrunsOnlyForNewcomers
    <3>6. BoundInside'
      <4> SUFFICES ASSUME ~newcomerRemoved', InLoop' PROVE count' <= Size'
        BY DEF BoundInside
      <4>1. count <= Size
        BY <3>1, <3>2 DEF BoundInside
      <4> QED
        BY <2>0, <3>1, <3>3, <3>4, <4>1
    <3> QED
      BY <3>5, <3>6
  <2>3. ASSUME NEW t \in Invokers, BeginInvoke(t)
        PROVE  OverrunsOnlyForNewcomers' /\ BoundInside'
    <3>1. ~ReadPastEnd(t, Plus1(index), Size, NotCalled)
      <4>1. Plus1(index) \in 0 .. Npos /\ Npos \in Nat
        BY <2>0, CounterRange
      <4> QED
        BY <2>0, <4>1 DEF ReadPastEnd
    <3>2. overrun' = overrun /\ newcomerRemoved' = newcomerRemoved
      BY <2>3, <3>1 DEF BeginInvoke, Turn, CallNext, EndLoop
    <3>3. count' = Size /\ Size' = Size
      BY <2>3 DEF BeginInvoke, Size
    <3> QED
      BY <2>0, <3>2, <3>3 DEF OverrunsOnlyForNewcomers, BoundInside
  <2>4. ASSUME NEW t \in Invokers, CallbackReturns(t)
        PROVE  OverrunsOnlyForNewcomers' /\ BoundInside'
    <3>1. newcomerRemoved' = newcomerRemoved
      BY <2>4 DEF CallbackReturns, history
    <3>2. count' = count /\ Size' = Size
      BY <2>4 DEF CallbackReturns, Size
    <3>3. ~newcomerRemoved => count <= Size
      BY <2>4 DEF CallbackReturns, BoundInside, InLoop
    <3>4. ~newcomerRemoved => ~ReadPastEnd(t, Plus1(index), count, times[t])
      <4>1. Plus1(index) \in 0 .. Npos /\ Npos \in Nat
        BY <2>0, CounterRange
      <4> QED
        BY <2>0, <3>3, <4>1 DEF ReadPastEnd
    <3>5. ~newcomerRemoved => overrun' = overrun
      BY <2>4, <3>4 DEF CallbackReturns, Turn, CallNext, EndLoop
    <3> QED
      BY <3>1, <3>2, <3>3, <3>5 DEF OverrunsOnlyForNewcomers, BoundInside
  <2>5. CASE UNCHANGED notifierVars
    BY <2>5 DEF notifierVars, history, OverrunsOnlyForNewcomers, BoundInside, InLoop, Size
  <2> QED
    BY <2>1, <2>2, <2>3, <2>4, <2>5 DEF NotifierNext, Overrun
<1>3. IInv => OverrunsOnlyForNewcomers
  OBVIOUS
<1> QED
  BY <1>1, <1>2, <1>3, NotifierTypeCorrect, PTL DEF NotifierSpec

-----------------------------------------------------------------------------
(* What a loop that runs alone calls.                                      *)

\* Where the callbacks are after one was erased.
LEMMA RemovalMoves ==
    ASSUME NEW S, NEW s \in Seq(S), NEW i \in 1 .. Len(s), NEW j \in 1 .. Len(s) - 1
    PROVE  RemoveAt(s, i)[j] = IF j < i THEN s[j] ELSE s[j + 1]
<1> DEFINE front == SubSeq(s, 1, i - 1)
           back  == SubSeq(s, i + 1, Len(s))
<1>0. i \in Nat /\ j \in Nat /\ Len(s) \in Nat /\ 1 <= i /\ i <= Len(s) /\ 1 <= j /\ j <= Len(s) - 1
  OBVIOUS
<1>1. front \in Seq(S) /\ Len(front) = i - 1 /\ \A k \in 1 .. i - 1 : front[k] = s[k]
  OBVIOUS
<1>2. back \in Seq(S) /\ Len(back) = Len(s) - i /\ \A k \in 1 .. Len(s) - i : back[k] = s[k + i]
  <2>1. back \in Seq(S) /\ Len(back) = Len(s) - i
    OBVIOUS
  <2>2. \A k \in 1 .. Len(s) - i : back[k] = s[i + 1 + k - 1]
    OBVIOUS
  <2>3. \A k \in 1 .. Len(s) - i : i + 1 + k - 1 = k + i
    OBVIOUS
  <2> QED
    BY <2>1, <2>2, <2>3
<1>3. RemoveAt(s, i) = front \o back
  BY DEF RemoveAt
<1> HIDE DEF front, back
<1>4. CASE j < i
  <2>1. (front \o back)[j] = front[j]
    BY <1>0, <1>1, <1>2, <1>4
  <2> QED
    BY <1>0, <1>1, <1>3, <1>4, <2>1
<1>5. CASE ~(j < i)
  <2>1. (front \o back)[j] = back[j - (i - 1)]
    BY <1>0, <1>1, <1>2, <1>5
  <2>2. j - (i - 1) \in 1 .. Len(s) - i /\ j - (i - 1) + i = j + 1
    BY <1>0, <1>5
  <2> QED
    BY <1>2, <1>3, <1>5, <2>1, <2>2
<1> QED
  BY <1>4, <1>5

\* How far the loop has come.
Done == Plus1(index)

\* Tokens are not handed out twice.
Distinct ==
    /\ \A i \in 1 .. Size : callbacks[i] < nextToken
    /\ \A i, j \in 1 .. Size : callbacks[i] = callbacks[j] => i = j

\* A loop under way: what it owes is inside its bound, and of that it has called exactly
\* what is behind the cursor.
UnderWay(t) ==
    /\ count <= Size /\ Done <= count
    /\ \A k \in owed[t] : \E j \in 1 .. count : callbacks[j] = k
    /\ \A j \in 1 .. count : times[t][callbacks[j]] = IF j <= Done THEN 1 ELSE 0

Over(t) == \A k \in owed[t] : times[t][k] = 1

Alone ==
    /\ \A s, t \in Invokers : calling[s] # None /\ calling[t] # None => s = t
    /\ ~InLoop => index = Npos
    /\ \A t \in Invokers : IF calling[t] = None THEN Over(t) ELSE UnderWay(t)

CallsInv == Distinct /\ (~overlapped /\ ~newcomerRemoved => Alone)

\* The numbers of the loop.
LEMMA Numbers ==
    ASSUME NotifierTypeOK
    PROVE  /\ callbacks \in Seq(Tokens) /\ Size \in Nat /\ Size < Npos /\ Npos \in Nat
           /\ index \in 0 .. Npos /\ count \in Nat /\ Done \in Nat /\ nextToken \in Nat
           /\ Done = IF index = Npos THEN 0 ELSE index + 1
  BY DEF NotifierTypeOK, Size, Npos, Done, Plus1

LEMMA DistinctNext == NotifierTypeOK /\ Distinct /\ [NotifierNext]_notifierVars => Distinct'
<1> SUFFICES ASSUME NotifierTypeOK, Distinct, [NotifierNext]_notifierVars PROVE Distinct'
  OBVIOUS
<1>0. callbacks \in Seq(Tokens) /\ Size \in Nat /\ nextToken \in Nat
  BY Numbers
<1>1. CASE AddCallback
  <2>1. callbacks' = Append(callbacks, nextToken) /\ nextToken' = nextToken + 1
    BY <1>1 DEF AddCallback
  <2>2. Size' = Size + 1
    BY <1>0, <2>1 DEF Size
  <2>3. \A i \in 1 .. Size : callbacks'[i] = callbacks[i]
    BY <1>0, <2>1 DEF Size
  <2>4. callbacks'[Size + 1] = nextToken
    BY <1>0, <2>1 DEF Size
  <2>5. \A i \in 1 .. Size' : i = Size + 1 \/ i \in 1 .. Size
    BY <1>0, <2>2
  <2>6. \A i \in 1 .. Size : callbacks[i] \in Nat /\ callbacks[i] < nextToken
    BY <1>0 DEF Distinct, Size, Tokens
  <2>7. \A i \in 1 .. Size' : callbacks'[i] < nextToken'
    BY <1>0, <2>1, <2>3, <2>4, <2>5, <2>6
  <2>8. ASSUME NEW i \in 1 .. Size', NEW j \in 1 .. Size', callbacks'[i] = callbacks'[j]
        PROVE  i = j
    <3>1. CASE i \in 1 .. Size /\ j \in 1 .. Size
      BY <2>3, <2>8, <3>1 DEF Distinct
    <3>2. CASE i = Size + 1 /\ j \in 1 .. Size
      BY <1>0, <2>3, <2>4, <2>6, <2>8, <3>2
    <3>3. CASE i \in 1 .. Size /\ j = Size + 1
      BY <1>0, <2>3, <2>4, <2>6, <2>8, <3>3
    <3> QED
      BY <2>5, <3>1, <3>2, <3>3
  <2> QED
    BY <2>7, <2>8 DEF Distinct
<1>2. ASSUME NEW idx \in 0 .. MaxTokens - 1, RemoveCallback(idx) PROVE Distinct'
  <2>1. idx + 1 \in 1 .. Size /\ callbacks' = RemoveAt(callbacks, idx + 1) /\ nextToken' = nextToken
    BY <1>0, <1>2 DEF RemoveCallback
  <2>2. Size' = Size - 1
    BY <1>0, <2>1, RemovalShrinks DEF Size
  <2>3. \A i \in 1 .. Size - 1 :
           callbacks'[i] = IF i < idx + 1 THEN callbacks[i] ELSE callbacks[i + 1]
    BY <1>0, <2>1, RemovalMoves DEF Size
  <2>4. \A i \in 1 .. Size - 1 : i \in 1 .. Size /\ i + 1 \in 1 .. Size
    BY <1>0
  <2> DEFINE from(i) == IF i < idx + 1 THEN i ELSE i + 1
  <2>5. \A i \in 1 .. Size' : from(i) \in 1 .. Size /\ callbacks'[i] = callbacks[from(i)]
    BY <2>2, <2>3, <2>4
  <2>6. \A i, j \in 1 .. Size' : from(i) = from(j) => i = j
    BY <1>0, <2>1, <2>2
  <2> HIDE DEF from
  <2> QED
    BY <2>1, <2>5, <2>6 DEF Distinct
<1>3. CASE UNCHANGED <<callbacks, nextToken>>
  BY <1>3 DEF Distinct, Size
<1> QED
  BY <1>1, <1>2, <1>3 DEF NotifierNext, BeginInvoke, CallbackReturns, Overrun, notifierVars

\* The call of the next callback.
LEMMA CallsNext ==
    ASSUME NotifierTypeOK, Distinct, NEW t \in Invokers, NEW i \in Nat, NEW before \in [Tokens -> 0 .. 2],
           NEW limit \in Nat, limit <= Size, i < limit,
           CallNext(t, i, limit, before), UNCHANGED callbacks, count' = limit,
           \A j \in 1 .. limit : before[callbacks[j]] = IF j <= i THEN 1 ELSE 0,
           \A k \in owed'[t] : \E j \in 1 .. limit : callbacks[j] = k
    PROVE  UnderWay(t)' /\ calling'[t] # None
<1> DEFINE cb == callbacks[i + 1]
<1>0. /\ callbacks \in Seq(Tokens) /\ Size \in Nat /\ Size < Npos /\ Npos \in Nat
  BY Numbers
<1>1. i + 1 \in 1 .. limit /\ i + 1 \in 1 .. Size /\ cb \in Tokens
  BY <1>0 DEF Size
<1>2. before[cb] = 0
  BY <1>1
<1>3. times'[t] = [before EXCEPT ![cb] = IF @ = 0 THEN 1 ELSE 2]
  BY DEF CallNext, NotifierTypeOK
<1>4. index' = i /\ calling'[t] = cb /\ Size' = Size
  BY DEF CallNext, NotifierTypeOK, Size
<1>5. Done' = i + 1
  BY <1>0, <1>4 DEF Done, Plus1, Npos
<1>6. ASSUME NEW j \in 1 .. limit
      PROVE  times'[t][callbacks[j]] = IF j <= i + 1 THEN 1 ELSE 0
  <2>1. callbacks[j] \in Tokens /\ j \in 1 .. Size
    BY <1>0 DEF Size
  <2>2. CASE j = i + 1
    <3>1. times'[t][cb] = 1
      BY <1>1, <1>2, <1>3
    <3> QED
      BY <2>2, <3>1
  <2>3. CASE j # i + 1
    <3>1. callbacks[j] # cb
      BY <1>1, <2>1, <2>3 DEF Distinct
    <3>2. times'[t][callbacks[j]] = before[callbacks[j]]
      BY <1>3, <2>1, <3>1
    <3>3. j <= i + 1 <=> j <= i
      BY <2>3
    <3> QED
      BY <3>2, <3>3
  <2> QED
    BY <2>2, <2>3
<1>7. cb # None
  BY <1>1 DEF Tokens, None
<1> HIDE DEF cb
<1> QED
  BY <1>0, <1>1, <1>4, <1>5, <1>6, <1>7 DEF UnderWay

LEMMA AloneNext ==
    ASSUME NotifierTypeOK, NotifierTypeOK', CallsInv, [NotifierNext]_notifierVars, ~overlapped', ~newcomerRemoved'
    PROVE  Alone'
<1>a. ~overlapped /\ ~newcomerRemoved
  <2>1. CASE AddCallback
    BY <2>1 DEF AddCallback, history
  <2>2. ASSUME NEW idx \in 0 .. MaxTokens - 1, RemoveCallback(idx)
        PROVE  ~overlapped /\ ~newcomerRemoved
    <3>1. overlapped' = overlapped /\ newcomerRemoved' = (newcomerRemoved \/ (InLoop /\ idx >= count))
      BY <2>2 DEF RemoveCallback
    <3> DEFINE behind == InLoop /\ idx >= count
    <3>2. newcomerRemoved' = (newcomerRemoved \/ behind)
      BY <3>1
    <3> HIDE DEF behind
    <3> QED
      BY <3>1, <3>2, Zenon
  <2>3. ASSUME NEW t \in Invokers, BeginInvoke(t) PROVE ~overlapped /\ ~newcomerRemoved
    <3>1. newcomerRemoved' = newcomerRemoved /\ overlapped' = (overlapped \/ InLoop)
      BY <2>3 DEF BeginInvoke
    <3> QED
      BY <3>1, Zenon
  <2>4. ASSUME NEW t \in Invokers, CallbackReturns(t) PROVE ~overlapped /\ ~newcomerRemoved
    BY <2>4 DEF CallbackReturns, history
  <2>5. CASE UNCHANGED notifierVars
    BY <2>5 DEF notifierVars, history
  <2> QED
    BY <2>1, <2>2, <2>3, <2>4, <2>5 DEF NotifierNext, Overrun
<1>b. Alone /\ Distinct
  BY <1>a DEF CallsInv
<1>0. /\ callbacks \in Seq(Tokens) /\ Size \in Nat /\ Size < Npos /\ Npos \in Nat
      /\ index \in 0 .. Npos /\ count \in Nat /\ Done \in Nat
      /\ Done = IF index = Npos THEN 0 ELSE index + 1
  BY Numbers
<1>1. CASE AddCallback
  <2>1. /\ callbacks' = Append(callbacks, nextToken)
        /\ UNCHANGED <<index, count, calling, owed, times>>
    BY <1>1 DEF AddCallback
  <2>2. Size' = Size + 1 /\ \A i \in 1 .. Size : callbacks'[i] = callbacks[i]
    BY <1>0, <2>1 DEF Size
  <2>3. \A t \in Invokers : UnderWay(t) => UnderWay(t)'
    <3> SUFFICES ASSUME NEW t \in Invokers, UnderWay(t) PROVE UnderWay(t)'
      OBVIOUS
    <3>1. Done' = Done /\ count <= Size /\ Done <= count
      BY <2>1 DEF Done, UnderWay, Plus1
    <3>2. \A j \in 1 .. count : callbacks'[j] = callbacks[j]
      BY <1>0, <2>2, <3>1
    <3>3. \A k \in owed[t] : \E j \in 1 .. count : callbacks'[j] = k
      BY <3>2 DEF UnderWay
    <3>4. \A j \in 1 .. count : times[t][callbacks'[j]] = IF j <= Done THEN 1 ELSE 0
      BY <3>2 DEF UnderWay
    <3>5. count <= Size'
      BY <1>0, <2>2, <3>1
    <3> QED
      BY <2>1, <3>1, <3>3, <3>4, <3>5 DEF UnderWay
  <2>4. \A t \in Invokers : Over(t) => Over(t)'
    BY <2>1 DEF Over
  <2>5. InLoop' = InLoop
    BY <2>1 DEF InLoop
  <2> QED
    BY <1>b, <2>1, <2>3, <2>4, <2>5 DEF Alone
<1>2. ASSUME NEW idx \in 0 .. MaxTokens - 1, RemoveCallback(idx) PROVE Alone'
  <2>1. /\ idx + 1 \in 1 .. Size /\ idx \in Nat /\ callbacks' = RemoveAt(callbacks, idx + 1)
        /\ index' = CursorAfterRemoval(idx) /\ count' = Minus1(count)
        /\ UNCHANGED <<calling, times>>
    BY <1>0, <1>2 DEF RemoveCallback, BoundAfterRemoval
  <2>a. ~(InLoop /\ idx >= count)
    <3> DEFINE behind == InLoop /\ idx >= count
    <3>1. newcomerRemoved' = (newcomerRemoved \/ behind)
      BY <1>2 DEF RemoveCallback
    <3>2. ~behind
      <4> HIDE DEF behind
      <4> QED
        BY <3>1, Zenon
    <3> QED
      BY <3>2
  <2>2. \A t \in Invokers : owed'[t] = owed[t] \ {callbacks[idx + 1]}
    BY <1>2 DEF RemoveCallback
  <2>3. Size' = Size - 1
    BY <1>0, <2>1, RemovalShrinks DEF Size
  <2>4. \A i \in 1 .. Size - 1 :
           callbacks'[i] = IF i < idx + 1 THEN callbacks[i] ELSE callbacks[i + 1]
    BY <1>0, <2>1, RemovalMoves DEF Size
  <2>5. InLoop' = InLoop /\ (~InLoop => index' = Npos)
    BY <1>b, <2>1 DEF Alone, InLoop, CursorAfterRemoval
  <2>6. \A t \in Invokers : Over(t) => Over(t)'
    BY <2>1, <2>2 DEF Over
  <2>7. ASSUME NEW t \in Invokers, calling[t] # None, UnderWay(t) PROVE UnderWay(t)'
    <3>1. count <= Size /\ Done <= count /\ idx < count
      BY <1>0, <2>1, <2>a, <2>7 DEF UnderWay, InLoop
    <3>2. count' = count - 1
      BY <1>0, <2>1, <3>1 DEF Minus1
    <3>3. Done' = IF idx < Done THEN Done - 1 ELSE Done
      <4>1. CASE index # Npos /\ index >= idx
        <5>1. index' = Minus1(index) /\ idx < Done
          BY <1>0, <2>1, <4>1 DEF CursorAfterRemoval
        <5>2. CASE index = 0
          BY <1>0, <4>1, <5>1, <5>2 DEF Minus1, Done, Plus1
        <5>3. CASE index # 0
          <6>1. index' = index - 1 /\ index - 1 # Npos
            BY <1>0, <5>1, <5>3 DEF Minus1
          <6> QED
            BY <1>0, <4>1, <5>1, <6>1 DEF Done, Plus1
        <5> QED
          BY <5>2, <5>3
      <4>2. CASE ~(index # Npos /\ index >= idx)
        <5>1. index' = index /\ ~(idx < Done)
          BY <1>0, <2>1, <4>2 DEF CursorAfterRemoval
        <5> QED
          BY <5>1 DEF Done, Plus1
      <4> QED
        BY <4>1, <4>2
    <3>4. Done' <= count' /\ count' <= Size'
      BY <1>0, <2>1, <2>3, <3>1, <3>2, <3>3
    <3>5. \A j \in 1 .. count - 1 : j \in 1 .. Size - 1 /\ j \in 1 .. count /\ j + 1 \in 1 .. count
      BY <1>0, <3>1
    <3>6. ASSUME NEW k \in owed'[t] PROVE \E j \in 1 .. count' : callbacks'[j] = k
      <4>1. k \in owed[t] /\ k # callbacks[idx + 1]
        BY <2>2
      <4>2. PICK j \in 1 .. count : callbacks[j] = k
        BY <2>7, <4>1 DEF UnderWay
      <4>3. j # idx + 1
        BY <4>1, <4>2
      <4>4. CASE j < idx + 1
        <5>1. j \in 1 .. count' /\ j \in 1 .. Size - 1
          BY <1>0, <2>1, <3>1, <3>2, <4>4
        <5>2. callbacks'[j] = k
          BY <2>4, <4>2, <4>4, <5>1
        <5> QED
          BY <5>1, <5>2
      <4>5. CASE ~(j < idx + 1)
        <5>1. j - 1 \in 1 .. count' /\ j - 1 \in 1 .. Size - 1 /\ ~(j - 1 < idx + 1) /\ j - 1 + 1 = j
          BY <1>0, <2>1, <3>1, <3>2, <4>3, <4>5
        <5>2. callbacks'[j - 1] = k
          BY <2>4, <4>2, <5>1
        <5> QED
          BY <5>1, <5>2
      <4> QED
        BY <4>4, <4>5
    <3>7. ASSUME NEW j \in 1 .. count'
          PROVE  times'[t][callbacks'[j]] = IF j <= Done' THEN 1 ELSE 0
      <4>1. j \in 1 .. count - 1 /\ j \in Nat
        BY <3>2
      <4>2. CASE j < idx + 1
        <5>1. callbacks'[j] = callbacks[j] /\ j \in 1 .. count
          BY <2>4, <3>5, <4>1, <4>2
        <5>2. j <= Done' <=> j <= Done
          BY <1>0, <2>1, <3>3, <4>1, <4>2
        <5> QED
          BY <2>1, <2>7, <5>1, <5>2 DEF UnderWay
      <4>3. CASE ~(j < idx + 1)
        <5>1. callbacks'[j] = callbacks[j + 1] /\ j + 1 \in 1 .. count
          BY <2>4, <3>5, <4>1, <4>3
        <5>2. j <= Done' <=> j + 1 <= Done
          BY <1>0, <2>1, <3>3, <4>1, <4>3
        <5> QED
          BY <2>1, <2>7, <5>1, <5>2 DEF UnderWay
      <4> QED
        BY <4>2, <4>3
    <3> QED
      BY <3>4, <3>6, <3>7 DEF UnderWay
  <2> QED
    BY <1>b, <2>1, <2>5, <2>6, <2>7 DEF Alone
<1>3. ASSUME NEW t \in Invokers, BeginInvoke(t) PROVE Alone'
  <2>1. /\ ~InLoop /\ index = Npos /\ Plus1(index) = 0 /\ count' = Size /\ UNCHANGED callbacks
        /\ Turn(t, Plus1(index), Size, NotCalled)
    <3>1. ~InLoop
      BY <1>3 DEF BeginInvoke
    <3> QED
      BY <1>3, <1>b, <3>1 DEF BeginInvoke, Alone, Plus1
  <2>2. owed'[t] = ToSet(callbacks) /\ \A s \in Invokers \ {t} : owed'[s] = owed[s]
    BY <1>3 DEF BeginInvoke, NotifierTypeOK
  <2>3. \A k \in owed'[t] : \E j \in 1 .. Size : callbacks[j] = k
    BY <1>0, <2>2 DEF ToSet, Size
  <2>4. \A s \in Invokers : calling[s] = None /\ Over(s)
    BY <1>b, <2>1 DEF Alone, InLoop
  <2>5. CASE CallNext(t, 0, Size, NotCalled)
    <3>1. NotCalled \in [Tokens -> 0 .. 2] /\ \A j \in 1 .. Size : NotCalled[callbacks[j]] = 0
      BY <1>0 DEF NotCalled, Size
    <3>2. \A j \in 1 .. Size : NotCalled[callbacks[j]] = IF j <= 0 THEN 1 ELSE 0
      BY <1>0, <3>1
    <3>3. 0 \in Nat /\ 0 < Size /\ Size <= Size
      BY <1>0, <2>5 DEF CallNext
    <3>4. UnderWay(t)' /\ calling'[t] # None
      BY <1>0, <1>b, <2>1, <2>3, <2>5, <3>1, <3>2, <3>3, CallsNext
    <3>5. \A s \in Invokers \ {t} : calling'[s] = calling[s] /\ times'[s] = times[s]
      BY <2>5 DEF CallNext, NotifierTypeOK
    <3>6. \A s \in Invokers \ {t} : calling'[s] = None /\ Over(s)'
      BY <2>2, <2>4, <3>5 DEF Over
    <3>7. InLoop'
      BY <3>4 DEF InLoop
    <3> QED
      BY <3>4, <3>6, <3>7 DEF Alone
  <2>6. CASE EndLoop(t, 0, Size, NotCalled)
    <3>1. Size = 0 /\ index' = Npos /\ calling' = [calling EXCEPT ![t] = None]
          /\ times' = [times EXCEPT ![t] = NotCalled]
      BY <1>0, <2>6 DEF EndLoop
    <3>2. owed'[t] = {}
      BY <2>3, <3>1
    <3>3. \A s \in Invokers \ {t} : Over(s)'
      BY <2>2, <2>4, <3>1 DEF Over, NotifierTypeOK
    <3>4. \A s \in Invokers : calling'[s] = None
      BY <2>4, <3>1 DEF NotifierTypeOK
    <3>5. \A s \in Invokers : Over(s)'
      BY <3>2, <3>3 DEF Over
    <3> QED
      BY <3>1, <3>4, <3>5 DEF Alone
  <2>7. ~ReadPastEnd(t, 0, Size, NotCalled)
    BY <1>0 DEF ReadPastEnd
  <2> QED
    BY <2>1, <2>5, <2>6, <2>7 DEF Turn
<1>4. ASSUME NEW t \in Invokers, CallbackReturns(t) PROVE Alone'
  <2>1. /\ calling[t] # None /\ UNCHANGED <<callbacks, count, owed>>
        /\ Turn(t, Done, count, times[t])
    BY <1>4 DEF CallbackReturns, Done
  <2>2. UnderWay(t) /\ \A s \in Invokers \ {t} : calling[s] = None /\ Over(s)
    BY <1>b, <2>1 DEF Alone
  <2>3. count <= Size /\ Done <= count
    BY <2>2 DEF UnderWay
  <2>4. CASE CallNext(t, Done, count, times[t])
    <3>1. Done < count /\ times[t] \in [Tokens -> 0 .. 2]
      BY <2>4 DEF CallNext, NotifierTypeOK
    <3>2. /\ \A j \in 1 .. count : times[t][callbacks[j]] = IF j <= Done THEN 1 ELSE 0
          /\ \A k \in owed'[t] : \E j \in 1 .. count : callbacks[j] = k
      BY <2>1, <2>2 DEF UnderWay
    <3>3. UnderWay(t)' /\ calling'[t] # None
      BY <1>0, <1>b, <2>1, <2>3, <2>4, <3>1, <3>2, CallsNext
    <3>4. \A s \in Invokers \ {t} : calling'[s] = calling[s] /\ times'[s] = times[s]
      BY <2>4 DEF CallNext, NotifierTypeOK
    <3>5. \A s \in Invokers \ {t} : calling'[s] = None /\ Over(s)'
      BY <2>1, <2>2, <3>4 DEF Over
    <3>6. InLoop'
      BY <3>3 DEF InLoop
    <3> QED
      BY <3>3, <3>5, <3>6 DEF Alone
  <2>5. CASE EndLoop(t, Done, count, times[t])
    <3>1. Done >= count /\ index' = Npos /\ calling' = [calling EXCEPT ![t] = None]
          /\ times' = [times EXCEPT ![t] = times[t]]
      BY <2>5 DEF EndLoop
    <3>2. times' = times
      BY <3>1 DEF NotifierTypeOK
    <3>3. \A j \in 1 .. count : j <= Done
      BY <1>0, <3>1
    <3>4. Over(t)'
      BY <2>1, <2>2, <3>2, <3>3 DEF Over, UnderWay
    <3>5. \A s \in Invokers : calling'[s] = None
      BY <2>2, <3>1 DEF NotifierTypeOK
    <3>6. \A s \in Invokers : Over(s)'
      BY <2>1, <2>2, <3>2, <3>4 DEF Over
    <3> QED
      BY <3>1, <3>5, <3>6 DEF Alone
  <2>6. ~ReadPastEnd(t, Done, count, times[t])
    BY <1>0, <2>3 DEF ReadPastEnd
  <2> QED
    BY <2>1, <2>4, <2>5, <2>6 DEF Turn
<1>5. CASE UNCHANGED notifierVars
  <2>1. UNCHANGED <<callbacks, index, count, calling, owed, times>>
    BY <1>5 DEF notifierVars
  <2> QED
    BY <1>b, <2>1 DEF Alone, InLoop, Over, UnderWay, Done, Plus1, Size
<1> QED
  BY <1>1, <1>2, <1>3, <1>4, <1>5 DEF NotifierNext, Overrun

\* A loop that runs alone, when it is over, has called each callback that was there when it
\* began and still is exactly once, whatever was added and removed meanwhile, for any number
\* of threads and callbacks.
THEOREM EachCalledOnceHolds == NotifierSpec => []EachCalledOnce
<1>1. NotifierInit => CallsInv
  <2> SUFFICES ASSUME NotifierInit PROVE CallsInv
    OBVIOUS
  <2>1. Size = 0 /\ ~InLoop
    BY DEF NotifierInit, Size, InLoop
  <2>2. Distinct
    BY <2>1 DEF Distinct
  <2>3. Alone
    BY <2>1 DEF NotifierInit, Alone, Over, InLoop
  <2> QED
    BY <2>2, <2>3 DEF CallsInv
<1>2. NotifierTypeOK /\ NotifierTypeOK' /\ CallsInv /\ [NotifierNext]_notifierVars => CallsInv'
  BY DistinctNext, AloneNext DEF CallsInv
<1>3. CallsInv => EachCalledOnce
  BY DEF CallsInv, Alone, Over, EachCalledOnce
<1> QED
  BY <1>1, <1>2, <1>3, NotifierTypeCorrect, PTL DEF NotifierSpec

HIDE WidthAssumption

-----------------------------------------------------------------------------
\* SyncSession

\* Every identifier of a sync::Session in use was handed out by create_sync_session.
IdsCreated ==
    /\ session \in 0 .. created
    /\ terminating \subseteq 1 .. created
    /\ \A c \in clientWaits : c.session \in 1 .. created
    /\ \A d \in deathWaits : d.session \in 1 .. created

\* TypeOK is not inductive on its own: an upload wait is registered with the
\* session at hand, which the contract says exists.
SessionInv == TypeOK /\ ClientContract /\ IdsCreated

USE ThreadsAssumption, PoliciesAssumption, ErrorsAssumption, BoundsAssumption

\* A new session satisfies the invariant, also with m_session_has_been_bound uninitialized.
LEMMA SessionInit == Init => SessionInv
<1> SUFFICES ASSUME Init PROVE SessionInv
  OBVIOUS
<1>1. TypeOK
  <2>1. /\ aborting \in [AllThreads -> SUBSET Waiters]
        /\ notifying \in [Threads -> 0 .. MaxVersion]
        /\ calls \in [Waiters -> Nat]
    BY DEF Init
  <2>2. pc \in [AllThreads ->
                  {"idle", "bind", "disconnect", "abort", "notify", "handle", "classify"}]
    BY DEF Init
  <2>3. error \in [kind : ErrorKinds, fatal : BOOLEAN]
    BY DEF Init, ErrorKinds
  <2>4. /\ state \in {"waiting", "active", "dying", "inactive"}
        /\ stopPolicy \in StopPolicies
        /\ connState \in {"disconnected", "connecting", "connected"}
        /\ {deferredClose, bound, serverUrl, aborted, clientBound, expired, asked} \subseteq BOOLEAN
    BY DEF Init
  <2>5. /\ deathCount \in 0 .. MaxDeaths
        /\ {session, created} \subseteq 0 .. MaxSessions
        /\ {deferredCommit, announced, version, uploaded} \subseteq 0 .. MaxVersion
    BY DEF Init, NoSession
  <2>6. /\ pending \subseteq Waiters
        /\ terminating \subseteq SessionIds
        /\ clientWaits \subseteq [waiter : Waiters, session : SessionIds]
        /\ deathWaits \subseteq [session : SessionIds, count : 1 .. MaxDeaths, target : 0 .. MaxVersion]
        /\ registered \subseteq Waiters
    BY DEF Init
  <2> QED
    BY <2>1, <2>2, <2>3, <2>4, <2>5, <2>6 DEF TypeOK
<1>2. ClientContract
  BY DEF Init, ClientContract
<1>3. IdsCreated
  BY DEF Init, IdsCreated, NoSession
<1> QED
  BY <1>1, <1>2, <1>3 DEF SessionInv

\* A stuttering step keeps the invariant.
LEMMA SessionStutter == SessionInv /\ UNCHANGED vars => SessionInv'
  BY DEF SessionInv, TypeOK, ClientContract, IdsCreated, vars, machine, dying, handle,
         handlers, commits, loop

\* Going Inactive keeps the session invariant, whichever thread does it.
LEMMA EnterInactiveSession ==
  ASSUME SessionInv, NEW t \in AllThreads, EnterInactive(t), UNCHANGED error
  PROVE  SessionInv'
  BY DEF SessionInv, TypeOK, ClientContract, IdsCreated, EnterInactive, TakeHandlers,
         machine, dying, handle, handlers, commits, loop, NoSession, SessionIds

\* Every action keeps the session invariant.
LEMMA SessionNext == SessionInv /\ [Next]_vars => SessionInv'
<1> SUFFICES ASSUME SessionInv, [Next]_vars PROVE SessionInv'
  OBVIOUS
<1> USE DEF machine, dying, handle, handlers, commits, loop
<1>1. ASSUME NEW t \in AllThreads, CallBindHandler(t) PROVE SessionInv'
  BY <1>1 DEF CallBindHandler, SessionInv, TypeOK, ClientContract, IdsCreated, NoSession, SessionIds, AllThreads
<1>2. ASSUME NEW t \in AllThreads, SetDisconnected(t) PROVE SessionInv'
  BY <1>2 DEF SetDisconnected, AfterDisconnect, SessionInv, TypeOK, ClientContract, IdsCreated, NoSession, SessionIds, AllThreads
<1>3. ASSUME NEW t \in AllThreads, NEW w \in Waiters, AbortHandler(t, w) PROVE SessionInv'
  BY <1>3 DEF AbortHandler, SessionInv, TypeOK, ClientContract, IdsCreated, NoSession, SessionIds, AllThreads
<1>4. ASSUME NEW t \in Threads, ReviveInactive(t) PROVE SessionInv'
  BY <1>4 DEF ReviveInactive, EnterWaiting, AskBinding, SessionInv, TypeOK, ClientContract, IdsCreated, NoSession, SessionIds, AllThreads
<1>5. ASSUME NEW t \in Threads, ReviveWaiting(t) PROVE SessionInv'
  BY ZenonT(60), <1>5 DEF ReviveWaiting, SessionInv, TypeOK, ClientContract, IdsCreated, NoSession, SessionIds, AllThreads
<1>6. ASSUME NEW t \in Threads, ReviveDying(t) PROVE SessionInv'
  BY <1>6 DEF ReviveDying, SessionInv, TypeOK, ClientContract, IdsCreated, NoSession, SessionIds, AllThreads
<1>7. ASSUME NEW t \in Threads, HandleReconnect(t) PROVE SessionInv'
  BY <1>7 DEF HandleReconnect, AskBinding, SessionInv, TypeOK, ClientContract, IdsCreated, NoSession, SessionIds, AllThreads
<1>8. ASSUME NEW t \in Threads, NEW url \in BOOLEAN, RefreshWaiting(t, url) PROVE SessionInv'
  <2> DEFINE fresh == session = NoSession
             id    == IF fresh THEN created + 1 ELSE session
  <2>1. /\ session' = id /\ id \in 1 .. created' /\ id \notin terminating
        /\ created' \in 0 .. MaxSessions /\ created \in 0 .. created'
    BY <1>8 DEF RefreshWaiting, SessionInv, TypeOK, ClientContract, IdsCreated, NoSession, SessionIds, AllThreads
  <2>2. AnnouncedOnRefresh \in 0 .. MaxVersion
    BY DEF AnnouncedOnRefresh, SessionInv, TypeOK
  <2>3. clientBound'
    BY <1>8 DEF RefreshWaiting, WasBound, SessionInv, ClientContract, TypeOK
  <2>4. /\ clientWaits' \subseteq [waiter : Waiters, session : 1 .. created']
        /\ pending' = {}
    BY <1>8, <2>1 DEF RefreshWaiting, HandOver, SessionInv, TypeOK, ClientContract, IdsCreated, NoSession, SessionIds, AllThreads
  <2>5. /\ deathWaits' \subseteq
               [session : 1 .. created', count : 1 .. MaxDeaths, target : 0 .. MaxVersion]
        /\ deathCount' \in 0 .. MaxDeaths
        /\ state' \in {"active", "dying"}
    <3>1. CASE UNCHANGED dying /\ state' = "active"
      BY <3>1, <2>1 DEF SessionInv, TypeOK, ClientContract, IdsCreated, NoSession, SessionIds, AllThreads
    <3>2. CASE EnterDying(id, AnnouncedOnRefresh)
      BY <3>2, <2>1, <2>2 DEF EnterDying, SessionInv, TypeOK, ClientContract, IdsCreated, NoSession, SessionIds, AllThreads
    <3> QED
      BY <1>8, <3>1, <3>2 DEF RefreshWaiting
  <2>6. TypeOK'
    <3>1. /\ session' \in 0 .. MaxSessions
          /\ clientWaits' \subseteq [waiter : Waiters, session : SessionIds]
          /\ deathWaits' \subseteq
                 [session : SessionIds, count : 1 .. MaxDeaths, target : 0 .. MaxVersion]
      BY <2>1, <2>4, <2>5 DEF SessionIds
    <3>2. bound' \in BOOLEAN /\ serverUrl' \in BOOLEAN /\ expired' \in BOOLEAN
      BY <1>8 DEF RefreshWaiting
    <3>3. announced' \in 0 .. MaxVersion /\ deferredCommit' \in 0 .. MaxVersion
      <4>1. announced' = AnnouncedOnRefresh /\ deferredCommit' = 0
        BY <1>8 DEF RefreshWaiting
      <4> QED
        BY <4>1, <2>2
    <3>4. clientBound' \in BOOLEAN
      BY <1>8 DEF RefreshWaiting
    <3>5. UNCHANGED <<deferredClose, asked, terminating, aborting, registered, calls, notifying,
                      version, uploaded, error, aborted, pc, stopPolicy, connState>>
      BY <1>8 DEF RefreshWaiting
    <3> QED
      BY <2>1, <2>4, <2>5, <3>1, <3>2, <3>3, <3>4, <3>5 DEF SessionInv, TypeOK
  <2>7. IdsCreated'
    BY <1>8, <2>1, <2>4, <2>5 DEF RefreshWaiting, SessionInv, IdsCreated, TypeOK
  <2>8. ClientContract'
    BY <1>8, <2>1, <2>3, <2>5 DEF RefreshWaiting, ClientContract, NoSession
  <2> QED
    BY <2>6, <2>7, <2>8 DEF SessionInv
<1>9. ASSUME NEW t \in Threads, RefreshActive(t) PROVE SessionInv'
  BY <1>9 DEF RefreshActive, SessionInv, TypeOK, ClientContract, IdsCreated, NoSession, SessionIds, AllThreads
<1>10. ASSUME NEW t \in Threads, LogOut(t) PROVE SessionInv'
  BY <1>10, EnterInactiveSession DEF LogOut, AllThreads
<1>11. ASSUME NEW t \in Threads, CloseImmediately(t) PROVE SessionInv'
  BY <1>11, EnterInactiveSession DEF CloseImmediately, AllThreads
<1>12. ASSUME NEW t \in Threads, CloseWaiting(t) PROVE SessionInv'
  BY <1>12 DEF CloseWaiting, SessionInv, TypeOK, ClientContract, IdsCreated, NoSession, SessionIds, AllThreads
<1>13. ASSUME NEW t \in Threads, CloseActive(t) PROVE SessionInv'
  BY <1>13 DEF CloseActive, EnterDying, SessionInv, TypeOK, ClientContract, IdsCreated, NoSession, SessionIds, AllThreads
<1>14. ASSUME NEW t \in Threads, NEW w \in Waiters, WaitForCompletion(t, w) PROVE SessionInv'
  BY <1>14 DEF WaitForCompletion, SessionInv, TypeOK, ClientContract, IdsCreated, NoSession, SessionIds, AllThreads
<1>15. ASSUME NEW t \in Threads, Commit(t) PROVE SessionInv'
  BY <1>15 DEF Commit, SessionInv, TypeOK, ClientContract, IdsCreated, NoSession, SessionIds, AllThreads
<1>16. ASSUME NEW t \in Threads, NonsyncTransactNotify(t) PROVE SessionInv'
  BY <1>16 DEF NonsyncTransactNotify, SessionInv, TypeOK, ClientContract, IdsCreated, NoSession, SessionIds, AllThreads
<1>17. ASSUME HandleErrorDying PROVE SessionInv'
  <2>1. CASE EnterInactive(Loop)
    BY <1>17, <2>1, EnterInactiveSession DEF HandleErrorDying, AllThreads
  <2>2. CASE ~EnterInactive(Loop)
    <3>1. /\ pc' = [pc EXCEPT ![Loop] = "idle"]
          /\ UNCHANGED <<machine, dying, handle, handlers, commits, aborted, error,
                         stopPolicy, connState, expired>>
      BY <1>17, <2>2 DEF HandleErrorDying
    <3> QED
      BY <3>1 DEF SessionInv, TypeOK, ClientContract, IdsCreated, NoSession, SessionIds, AllThreads
  <2> QED
    BY <2>1, <2>2
<1>18. ASSUME HandleErrorOther PROVE SessionInv'
  BY <1>18 DEF HandleErrorOther, SessionInv, TypeOK, ClientContract, IdsCreated, NoSession, SessionIds, AllThreads
<1>19. ASSUME IgnoreError PROVE SessionInv'
  BY <1>19 DEF IgnoreError, SessionInv, TypeOK, ClientContract, IdsCreated, NoSession, SessionIds, AllThreads
<1>20. ASSUME TokenExpired PROVE SessionInv'
  <2>1. CASE EnterWaiting(Loop)
    <3> USE DEF EnterWaiting, AskBinding
    <3>1. TypeOK'
      BY <1>20, <2>1 DEF TokenExpired, SessionInv, TypeOK, AllThreads
    <3>2. ClientContract' /\ IdsCreated'
      BY <1>20, <2>1 DEF TokenExpired, SessionInv, ClientContract, IdsCreated
    <3> QED
      BY <3>1, <3>2 DEF SessionInv
  <2>2. CASE ~EnterWaiting(Loop)
    <3>1. /\ pc' = [pc EXCEPT ![Loop] = "idle"]
          /\ UNCHANGED <<machine, dying, handle, handlers, commits, aborted, error,
                         stopPolicy, connState, expired>>
      BY <1>20, <2>2 DEF TokenExpired
    <3> QED
      BY <3>1 DEF SessionInv, TypeOK, ClientContract, IdsCreated, NoSession, SessionIds, AllThreads
  <2> QED
    BY <2>1, <2>2
<1>21. ASSUME CancelPendingWaits PROVE SessionInv'
  BY <1>21 DEF CancelPendingWaits, TakeHandlers, SessionInv, TypeOK, ClientContract, IdsCreated, NoSession, SessionIds, AllThreads
<1>22. ASSUME DeactivateOnError PROVE SessionInv'
  <2>1. CASE state = "inactive"
    <3>1. FailAssertion
      BY <1>22, <2>1 DEF DeactivateOnError
    <3> QED
      BY <3>1 DEF FailAssertion, SessionInv, TypeOK, ClientContract, IdsCreated, NoSession, SessionIds, AllThreads
  <2>2. CASE state # "inactive"
    <3>1. EnterInactive(Loop) /\ UNCHANGED error
      BY <1>22, <2>2 DEF DeactivateOnError
    <3> QED
      BY <3>1, EnterInactiveSession DEF AllThreads
  <2> QED
    BY <2>1, <2>2
<1>23. ASSUME NEW s \in Reporting, NEW new \in {"connecting", "connected"}, ConnectionChanged(s, new) PROVE SessionInv'
  BY <1>23 DEF ConnectionChanged, SessionInv, TypeOK, ClientContract, IdsCreated, NoSession, SessionIds, AllThreads
<1>24. ASSUME NEW s \in Reporting, NEW e \in Errors, ErrorReported(s, e) PROVE SessionInv'
  BY <1>24 DEF ErrorReported, SessionInv, TypeOK, ClientContract, IdsCreated, NoSession, SessionIds, AllThreads
<1>25. ASSUME NEW c \in clientWaits, CompleteWait(c) PROVE SessionInv'
  BY <1>25 DEF CompleteWait, SessionInv, TypeOK, ClientContract, IdsCreated, NoSession, SessionIds, AllThreads
<1>26. ASSUME NEW d \in deathWaits, DeathComplete(d) PROVE SessionInv'
  BY <1>26 DEF DeathComplete, TakeHandlers, StillDying, SessionInv, TypeOK, ClientContract, IdsCreated, NoSession, SessionIds, AllThreads
<1>27. ASSUME NEW d \in deathWaits, DeathSuperseded(d) PROVE SessionInv'
  BY <1>27 DEF DeathSuperseded, SessionInv, TypeOK, ClientContract, IdsCreated, NoSession, SessionIds, AllThreads
<1>28. ASSUME NEW s \in terminating, Terminate(s) PROVE SessionInv'
  BY <1>28 DEF Terminate, SessionInv, TypeOK, ClientContract, IdsCreated, NoSession, SessionIds, AllThreads
<1>29. ASSUME Upload PROVE SessionInv'
  BY <1>29 DEF Upload, SessionInv, TypeOK, ClientContract, IdsCreated, NoSession, SessionIds, AllThreads
<1>30. CASE UNCHANGED vars
  BY <1>30, SessionStutter
<1> QED
  BY <1>1, <1>2, <1>3, <1>4, <1>5, <1>6, <1>7, <1>8, <1>9, <1>10, <1>11, <1>12, <1>13, <1>14, <1>15, <1>16, <1>17, <1>18, <1>19, <1>20, <1>21, <1>22, <1>23, <1>24, <1>25, <1>26, <1>27, <1>28, <1>29, <1>30 DEF Next, ThreadStep, AppCall, ErrorStep, ClientCallback, Aborted

\* Every reachable state is well typed, whatever the callers and the client do.
THEOREM TypeCorrect == Spec => []TypeOK
<1>1. Init => SessionInv
  BY SessionInit
<1>2. SessionInv /\ [Next]_vars => SessionInv'
  BY SessionNext
<1>3. SessionInv => TypeOK
  BY DEF SessionInv
<1> QED
  BY <1>1, <1>2, <1>3, PTL DEF Spec

\* The sync::Session contract is never broken: Active and Dying have a bound
\* sync::Session, Inactive has none.
THEOREM ContractKept == Spec => []ClientContract
<1>1. Init => SessionInv
  BY SessionInit
<1>2. SessionInv /\ [Next]_vars => SessionInv'
  BY SessionNext
<1>3. SessionInv => ClientContract
  BY DEF SessionInv
<1> QED
  BY <1>1, <1>2, <1>3, PTL DEF Spec

-----------------------------------------------------------------------------
(* The uploads of a death.                                                 *)

\* An upload wait belongs to a death that has begun; the one of the current
\* death waits for every commit the current sync::Session was told of.
DeathInv ==
    \A d \in deathWaits :
        /\ d.count \in Nat /\ d.count <= deathCount
        /\ state = "dying" /\ d.count = deathCount
             => d.session = session /\ announced <= d.target

LEMMA DeathNext == SessionInv /\ DeathInv /\ [Next]_vars => DeathInv'
<1> SUFFICES ASSUME SessionInv, DeathInv, [Next]_vars PROVE DeathInv'
  OBVIOUS
<1> USE DEF machine, dying, handle, handlers, commits, loop
<1>0. /\ deathCount \in Nat /\ announced \in Nat /\ version \in Nat /\ deferredCommit \in Nat
      /\ notifying \in [Threads -> Nat] /\ state \in {"waiting", "active", "dying", "inactive"}
  BY DEF SessionInv, TypeOK
<1>1. ASSUME NEW t \in AllThreads, CallBindHandler(t) PROVE DeathInv'
  BY <1>0, <1>1 DEF CallBindHandler, DeathInv
<1>2. ASSUME NEW t \in AllThreads, SetDisconnected(t) PROVE DeathInv'
  BY <1>0, <1>2 DEF SetDisconnected, DeathInv
<1>3. ASSUME NEW t \in AllThreads, NEW w \in Waiters, AbortHandler(t, w) PROVE DeathInv'
  BY <1>0, <1>3 DEF AbortHandler, DeathInv
<1>4. ASSUME NEW t \in Threads, ReviveInactive(t) PROVE DeathInv'
  BY <1>0, <1>4 DEF ReviveInactive, EnterWaiting, DeathInv
<1>5. ASSUME NEW t \in Threads, ReviveWaiting(t) PROVE DeathInv'
  BY <1>0, <1>5 DEF ReviveWaiting, DeathInv
<1>6. ASSUME NEW t \in Threads, ReviveDying(t) PROVE DeathInv'
  BY <1>0, <1>6 DEF ReviveDying, DeathInv
<1>7. ASSUME NEW t \in Threads, HandleReconnect(t) PROVE DeathInv'
  BY <1>0, <1>7 DEF HandleReconnect, DeathInv
<1>8. ASSUME NEW t \in Threads, NEW url \in BOOLEAN, RefreshWaiting(t, url) PROVE DeathInv'
  BY <1>0, <1>8 DEF RefreshWaiting, AnnouncedOnRefresh, EnterDying, DeathInv
<1>9. ASSUME NEW t \in Threads, RefreshActive(t) PROVE DeathInv'
  BY <1>0, <1>9 DEF RefreshActive, DeathInv
<1>10. ASSUME NEW t \in Threads, LogOut(t) PROVE DeathInv'
  BY <1>0, <1>10 DEF LogOut, EnterInactive, DeathInv
<1>11. ASSUME NEW t \in Threads, CloseImmediately(t) PROVE DeathInv'
  BY <1>0, <1>11 DEF CloseImmediately, EnterInactive, DeathInv
<1>12. ASSUME NEW t \in Threads, CloseWaiting(t) PROVE DeathInv'
  BY <1>0, <1>12 DEF CloseWaiting, DeathInv
<1>13. ASSUME NEW t \in Threads, CloseActive(t) PROVE DeathInv'
  BY <1>0, <1>13 DEF CloseActive, EnterDying, DeathInv
<1>14. ASSUME NEW t \in Threads, NEW w \in Waiters, WaitForCompletion(t, w) PROVE DeathInv'
  BY <1>0, <1>14 DEF WaitForCompletion, DeathInv
<1>15. ASSUME NEW t \in Threads, Commit(t) PROVE DeathInv'
  BY <1>0, <1>15 DEF Commit, DeathInv
<1>16. ASSUME NEW t \in Threads, NonsyncTransactNotify(t) PROVE DeathInv'
  BY <1>0, <1>16 DEF NonsyncTransactNotify, DeathInv
<1>17. ASSUME HandleErrorDying PROVE DeathInv'
  BY <1>0, <1>17 DEF HandleErrorDying, EnterInactive, DeathInv
<1>18. ASSUME HandleErrorOther PROVE DeathInv'
  BY <1>0, <1>18 DEF HandleErrorOther, DeathInv
<1>19. ASSUME IgnoreError PROVE DeathInv'
  BY <1>0, <1>19 DEF IgnoreError, DeathInv
<1>20. ASSUME TokenExpired PROVE DeathInv'
  BY <1>0, <1>20 DEF TokenExpired, EnterWaiting, DeathInv
<1>21. ASSUME CancelPendingWaits PROVE DeathInv'
  BY <1>0, <1>21 DEF CancelPendingWaits, DeathInv
<1>22. ASSUME DeactivateOnError PROVE DeathInv'
  BY <1>0, <1>22 DEF DeactivateOnError, FailAssertion, EnterInactive, DeathInv
<1>23. ASSUME NEW s \in Reporting, NEW new \in {"connecting", "connected"}, ConnectionChanged(s, new) PROVE DeathInv'
  BY <1>0, <1>23 DEF ConnectionChanged, DeathInv
<1>24. ASSUME NEW s \in Reporting, NEW e \in Errors, ErrorReported(s, e) PROVE DeathInv'
  BY <1>0, <1>24 DEF ErrorReported, DeathInv
<1>25. ASSUME NEW c \in clientWaits, CompleteWait(c) PROVE DeathInv'
  BY <1>0, <1>25 DEF CompleteWait, DeathInv
<1>26. ASSUME NEW d \in deathWaits, DeathComplete(d) PROVE DeathInv'
  BY <1>0, <1>26 DEF DeathComplete, StillDying, DeathInv
<1>27. ASSUME NEW d \in deathWaits, DeathSuperseded(d) PROVE DeathInv'
  BY <1>0, <1>27 DEF DeathSuperseded, DeathInv
<1>28. ASSUME NEW s \in terminating, Terminate(s) PROVE DeathInv'
  BY <1>0, <1>28 DEF Terminate, DeathInv
<1>29. ASSUME Upload PROVE DeathInv'
  BY <1>0, <1>29 DEF Upload, DeathInv
<1>30. CASE UNCHANGED vars
  BY <1>30 DEF DeathInv, vars
<1> QED
  BY <1>1, <1>2, <1>3, <1>4, <1>5, <1>6, <1>7, <1>8, <1>9, <1>10, <1>11, <1>12, <1>13, <1>14, <1>15, <1>16, <1>17, <1>18, <1>19, <1>20, <1>21, <1>22, <1>23, <1>24, <1>25, <1>26, <1>27, <1>28, <1>29, <1>30 DEF Next, ThreadStep, AppCall, ErrorStep, ClientCallback, Aborted

\* An upload completion closes a Dying session only when every commit the client
\* was told of has been acknowledged: completions of earlier deaths do not.
THEOREM UploadsBeforeClose == Spec => ClosesAfterUpload
<1> DEFINE Inv == SessionInv /\ DeathInv
<1>1. Init => Inv
  BY SessionInit DEF Init, DeathInv
<1>2. Inv /\ [Next]_vars => Inv'
  BY SessionNext, DeathNext
<1>3. Inv => [\A d \in deathWaits : DeathComplete(d) => uploaded >= announced]_vars
  <2> SUFFICES ASSUME Inv, NEW d \in deathWaits, DeathComplete(d) PROVE uploaded >= announced
    OBVIOUS
  <2>1. d.session = session /\ announced <= d.target
    BY DEF DeathComplete, StillDying, DeathInv
  <2>2. session \notin terminating
    BY DEF DeathComplete, StillDying, SessionInv, ClientContract
  <2>3. uploaded >= d.target
    BY <2>1, <2>2 DEF DeathComplete, DeathWaitDone
  <2> QED
    BY <2>1, <2>3 DEF SessionInv, TypeOK
<1> QED
  BY <1>1, <1>2, <1>3, PTL DEF Spec, ClosesAfterUpload

-----------------------------------------------------------------------------
(* The completion handlers.                                                *)

HandlersInv == HandlersAccounted /\ HandlersReachable

\* Moving the queue to a thread that holds no handlers loses and copies none.
LEMMA TakeHandlersAccounted ==
  ASSUME SessionInv, HandlersAccounted, NEW t \in AllThreads, aborting[t] = {},
         TakeHandlers(t), UNCHANGED <<clientWaits, registered, calls>>
  PROVE  HandlersAccounted'
<1>1. /\ aborting \in [AllThreads -> SUBSET Waiters]
      /\ pending \subseteq Waiters
      /\ \A u \in AllThreads : aborting'[u] = IF u = t THEN pending ELSE aborting[u]
      /\ pending' = {}
  BY DEF SessionInv, TypeOK, TakeHandlers
<1>2. \A w \in Waiters : Queued(w)' = FALSE
  BY <1>1 DEF Queued
<1>3. \A w \in Waiters : BeingAborted(w)' <=> BeingAborted(w) \/ Queued(w)
  BY <1>1 DEF BeingAborted, Queued
<1>4. \A w \in Waiters : (WithClient(w)' <=> WithClient(w)) /\ (Called(w)' <=> Called(w))
  BY DEF WithClient, Called
<1>5. ASSUME NEW u \in AllThreads, NEW v \in AllThreads, u # v
      PROVE  aborting'[u] \cap aborting'[v] = {}
  <2>1. \A w \in pending : \A x \in AllThreads : w \notin aborting[x]
    BY <1>1 DEF HandlersAccounted, Queued, BeingAborted, WithClient, Called
  <2>2. aborting[u] \cap aborting[v] = {}
    BY <1>5 DEF HandlersAccounted
  <2> QED
    BY <1>1, <1>5, <2>1, <2>2
<1> QED
  BY <1>2, <1>3, <1>4, <1>5 DEF HandlersAccounted

\* The same for a session that goes Inactive, where its thread leaves off.
LEMMA EnterInactiveHandlers ==
  ASSUME SessionInv, HandlersInv, NEW t \in AllThreads, aborting[t] = {}, EnterInactive(t)
  PROVE  HandlersInv'
<1>1. HandlersAccounted'
  BY TakeHandlersAccounted DEF EnterInactive, HandlersInv
<1>2. HandlersReachable'
  <2>1. pending' = {} /\ UNCHANGED clientWaits
    BY DEF EnterInactive, TakeHandlers
  <2>2. Reporting \subseteq Reporting'
    BY DEF EnterInactive, Reporting, NoSession
  <2>3. ASSUME NEW u \in AllThreads, aborting'[u] # {} PROVE pc'[u] \in {"disconnect", "abort"}
    <3>1. CASE u = t
      BY <3>1 DEF EnterInactive, SessionInv, TypeOK
    <3>2. CASE u # t
      BY <2>3, <3>2 DEF EnterInactive, TakeHandlers, SessionInv, TypeOK, HandlersInv, HandlersReachable
    <3> QED
      BY <3>1, <3>2
  <2> QED
    BY <2>1, <2>2, <2>3 DEF HandlersInv, HandlersReachable
<1> QED
  BY <1>1, <1>2 DEF HandlersInv

\* Every action keeps the handlers accounted for and reachable.
LEMMA HandlersNext == SessionInv /\ HandlersInv /\ [Next]_vars => HandlersInv'
<1> SUFFICES ASSUME SessionInv, HandlersInv, [Next]_vars PROVE HandlersInv'
  OBVIOUS
<1> USE DEF machine, dying, handle, handlers, commits, loop
<1>a. /\ aborting \in [AllThreads -> SUBSET Waiters] /\ Loop \in AllThreads /\ Threads \subseteq AllThreads
      /\ pc \in [AllThreads ->
             {"idle", "bind", "disconnect", "abort", "notify", "handle", "classify"}]
  BY DEF SessionInv, TypeOK, AllThreads
\* A thread that is not about to abort handlers holds none.
<1>b. ASSUME NEW t \in AllThreads, NEW s, At(t, s), s \notin {"disconnect", "abort"}
      PROVE  aborting[t] = {}
  BY <1>b DEF At, HandlersInv, HandlersReachable
\* Most actions touch no handler: only where threads and sessions are matters.
<1>c. ASSUME UNCHANGED handlers, Reporting \subseteq Reporting',
             state' \in {"active", "dying"} => state \in {"active", "dying"},
             \A t \in AllThreads : aborting[t] # {} => pc'[t] \in {"disconnect", "abort"}
      PROVE  HandlersInv'
  <2>1. HandlersAccounted'
    BY <1>c DEF HandlersInv, HandlersAccounted, Queued, BeingAborted, WithClient, Called
  <2>2. HandlersReachable'
    BY <1>c DEF HandlersInv, HandlersReachable
  <2> QED
    BY <2>1, <2>2 DEF HandlersInv
<1>1. ASSUME NEW t \in AllThreads, CallBindHandler(t) PROVE HandlersInv'
  BY <1>a, <1>b, <1>c, <1>1 DEF CallBindHandler, At, Reporting, HandlersInv, HandlersReachable
<1>2. ASSUME NEW t \in AllThreads, SetDisconnected(t) PROVE HandlersInv'
  BY <1>a, <1>b, <1>c, <1>2 DEF SetDisconnected, AfterDisconnect, At, Reporting, HandlersInv, HandlersReachable
<1>3. ASSUME NEW t \in AllThreads, NEW w \in Waiters, AbortHandler(t, w) PROVE HandlersInv'
  <2>1. /\ \A u \in AllThreads : aborting'[u] = IF u = t THEN aborting[t] \ {w} ELSE aborting[u]
        /\ \A x \in Waiters : calls'[x] = IF x = w THEN calls[w] + 1 ELSE calls[x]
        /\ w \in aborting[t] /\ UNCHANGED <<pending, clientWaits, registered>>
        /\ calls \in [Waiters -> Nat]
    BY <1>a, <1>3 DEF AbortHandler, SessionInv, TypeOK
  <2>2. HandlersAccounted'
    <3>1. calls[w] = 0 /\ ~Queued(w) /\ ~WithClient(w) /\ w \in registered
      BY <2>1 DEF HandlersInv, HandlersAccounted, Queued, BeingAborted, WithClient, Called
    <3>2. \A u \in AllThreads : u # t => w \notin aborting[u]
      BY <2>1 DEF HandlersInv, HandlersAccounted
    <3> QED
      BY <2>1, <3>1, <3>2 DEF HandlersInv, HandlersAccounted, Queued, BeingAborted, WithClient, Called
  <2>3. HandlersReachable'
    BY <1>a, <2>1, <1>3 DEF AbortHandler, At, Reporting, HandlersInv, HandlersReachable
  <2> QED
    BY <2>2, <2>3 DEF HandlersInv
<1>4. ASSUME NEW t \in Threads, ReviveInactive(t) PROVE HandlersInv'
  BY <1>a, <1>b, <1>c, <1>4 DEF ReviveInactive, EnterWaiting, AskBinding, At, Reporting, HandlersInv, HandlersReachable
<1>5. ASSUME NEW t \in Threads, ReviveWaiting(t) PROVE HandlersInv'
  BY <1>a, <1>b, <1>c, <1>5 DEF ReviveWaiting, At, Reporting, HandlersInv, HandlersReachable
<1>6. ASSUME NEW t \in Threads, ReviveDying(t) PROVE HandlersInv'
  BY <1>a, <1>b, <1>c, <1>6 DEF ReviveDying, At, Reporting, HandlersInv, HandlersReachable
<1>7. ASSUME NEW t \in Threads, HandleReconnect(t) PROVE HandlersInv'
  BY <1>a, <1>b, <1>c, <1>7 DEF HandleReconnect, AskBinding, At, Reporting, HandlersInv, HandlersReachable
<1>8. ASSUME NEW t \in Threads, NEW url \in BOOLEAN, RefreshWaiting(t, url) PROVE HandlersInv'
  <2> DEFINE id == IF session = NoSession THEN created + 1 ELSE session
  <2>1. /\ HandOver(id) /\ UNCHANGED <<aborting, registered, calls, pc, terminating>>
        /\ session' = id /\ id # NoSession /\ (session # NoSession => session' = session)
    BY <1>8 DEF RefreshWaiting, SessionInv, TypeOK, NoSession
  <2>2. HandlersAccounted'
    <3>1. \A w \in Waiters : ~Queued(w)'
      BY <2>1 DEF HandOver, Queued
    <3>2. \A w \in Waiters : WithClient(w)' <=> WithClient(w) \/ Queued(w)
      <4> DEFINE moved == {[waiter |-> w, session |-> id] : w \in pending}
      <4>1. clientWaits' = clientWaits \cup moved
        BY <2>1 DEF HandOver
      <4>2. ASSUME NEW w \in pending PROVE \E c \in moved : c.waiter = w
        <5>1. [waiter |-> w, session |-> id] \in moved
          OBVIOUS
        <5> QED
          BY <5>1
      <4>3. ASSUME NEW c \in moved PROVE c.waiter \in pending
        OBVIOUS
      <4> HIDE DEF moved
      <4> QED
        BY <4>1, <4>2, <4>3 DEF WithClient, Queued
    <3>3. \A w \in Waiters : (BeingAborted(w)' <=> BeingAborted(w)) /\ (Called(w)' <=> Called(w))
      BY <2>1 DEF BeingAborted, Called
    <3>4. ASSUME NEW c \in clientWaits', NEW d \in clientWaits', c.waiter = d.waiter PROVE c = d
      <4>1. \A w \in pending : ~WithClient(w) /\ w \in Waiters
        BY DEF HandlersInv, HandlersAccounted, Queued, SessionInv, TypeOK
      <4> QED
        BY <2>1, <3>4, <4>1 DEF HandOver, WithClient, HandlersInv, HandlersAccounted
    <3> QED
      BY <2>1, <3>1, <3>2, <3>3, <3>4 DEF HandlersInv, HandlersAccounted
  <2>3. HandlersReachable'
    <3>1. pending' = {}
      BY <2>1 DEF HandOver
    <3>2. id \in Reporting' /\ Reporting \subseteq Reporting'
      BY <2>1 DEF Reporting, NoSession
    <3>3. \A c \in clientWaits' : c.session \in Reporting'
      BY <2>1, <3>2 DEF HandOver, HandlersInv, HandlersReachable
    <3> QED
      BY <2>1, <3>1, <3>3 DEF HandlersInv, HandlersReachable
  <2> QED
    BY <2>2, <2>3 DEF HandlersInv
<1>9. ASSUME NEW t \in Threads, RefreshActive(t) PROVE HandlersInv'
  BY <1>a, <1>b, <1>c, <1>9 DEF RefreshActive, At, Reporting, HandlersInv, HandlersReachable
<1>10. ASSUME NEW t \in Threads, LogOut(t) PROVE HandlersInv'
  BY <1>a, <1>b, <1>10, EnterInactiveHandlers DEF LogOut
<1>11. ASSUME NEW t \in Threads, CloseImmediately(t) PROVE HandlersInv'
  BY <1>a, <1>b, <1>11, EnterInactiveHandlers DEF CloseImmediately
<1>12. ASSUME NEW t \in Threads, CloseWaiting(t) PROVE HandlersInv'
  BY <1>a, <1>b, <1>c, <1>12 DEF CloseWaiting, At, Reporting, HandlersInv, HandlersReachable
<1>13. ASSUME NEW t \in Threads, CloseActive(t) PROVE HandlersInv'
  BY <1>a, <1>b, <1>c, <1>13 DEF CloseActive, EnterDying, At, Reporting, HandlersInv, HandlersReachable
<1>14. ASSUME NEW t \in Threads, NEW w \in Waiters, WaitForCompletion(t, w) PROVE HandlersInv'
  <2>1. ~Queued(w) /\ ~BeingAborted(w) /\ ~WithClient(w) /\ ~Called(w) /\ w \notin registered
    BY <1>14 DEF WaitForCompletion, HandlersInv, HandlersAccounted, Queued, BeingAborted, WithClient, Called, SessionInv, TypeOK
  <2>2. /\ registered' = registered \cup {w} /\ UNCHANGED <<aborting, calls, pc, session, terminating, state>>
    BY <1>14 DEF WaitForCompletion
  <2>3. CASE pending' = pending \cup {w} /\ clientWaits' = clientWaits /\ state \in {"waiting", "inactive"}
    <3>1. HandlersAccounted'
      BY <2>1, <2>2, <2>3 DEF HandlersInv, HandlersAccounted, Queued, BeingAborted, WithClient, Called
    <3>2. HandlersReachable'
      BY <2>2, <2>3 DEF Reporting, HandlersInv, HandlersReachable
    <3> QED
      BY <3>1, <3>2 DEF HandlersInv
  <2>4. CASE /\ clientWaits' = clientWaits \cup {[waiter |-> w, session |-> session]}
             /\ pending' = pending /\ state \in {"active", "dying"}
    <3>1. HandlersAccounted'
      <4>1. \A x \in Waiters : WithClient(x)' <=> WithClient(x) \/ x = w
        <5> DEFINE new == [waiter |-> w, session |-> session]
        <5>1. new.waiter = w /\ clientWaits' = clientWaits \cup {new}
          BY <2>4
        <5> HIDE DEF new
        <5> QED
          BY <5>1 DEF WithClient
      <4>2. \A x \in Waiters : /\ Queued(x)' <=> Queued(x)
                               /\ BeingAborted(x)' <=> BeingAborted(x)
                               /\ Called(x)' <=> Called(x)
        BY <2>2, <2>4 DEF Queued, BeingAborted, Called
      <4>3. \A c, d \in clientWaits' : c.waiter = d.waiter => c = d
        BY <2>1, <2>4 DEF WithClient, HandlersInv, HandlersAccounted
      <4> QED
        BY <2>1, <2>2, <4>1, <4>2, <4>3 DEF HandlersInv, HandlersAccounted
    <3>2. session \in Reporting'
      BY <2>2, <2>4 DEF Reporting, SessionInv, ClientContract
    <3>3. HandlersReachable'
      BY <2>2, <2>4, <3>2 DEF Reporting, HandlersInv, HandlersReachable
    <3> QED
      BY <3>1, <3>3 DEF HandlersInv
  <2> QED
    BY <1>14, <2>3, <2>4 DEF WaitForCompletion
<1>15. ASSUME NEW t \in Threads, Commit(t) PROVE HandlersInv'
  BY <1>a, <1>b, <1>c, <1>15 DEF Commit, At, Reporting, HandlersInv, HandlersReachable
<1>16. ASSUME NEW t \in Threads, NonsyncTransactNotify(t) PROVE HandlersInv'
  BY <1>a, <1>b, <1>c, <1>16 DEF NonsyncTransactNotify, At, Reporting, HandlersInv, HandlersReachable
<1>17. ASSUME HandleErrorDying PROVE HandlersInv'
  <2>1. CASE EnterInactive(Loop)
    BY <1>a, <1>b, <1>17, <2>1, EnterInactiveHandlers DEF HandleErrorDying
  <2>2. CASE ~EnterInactive(Loop)
    BY <1>a, <1>b, <1>c, <1>17, <2>2 DEF HandleErrorDying, At, Reporting
  <2> QED
    BY <2>1, <2>2
<1>18. ASSUME HandleErrorOther PROVE HandlersInv'
  BY <1>a, <1>b, <1>c, <1>18 DEF HandleErrorOther, At, Reporting, HandlersInv, HandlersReachable
<1>19. ASSUME IgnoreError PROVE HandlersInv'
  BY <1>a, <1>b, <1>c, <1>19 DEF IgnoreError, At, Reporting, HandlersInv, HandlersReachable
<1>20. ASSUME TokenExpired PROVE HandlersInv'
  <2>1. CASE EnterWaiting(Loop)
    BY <1>a, <1>b, <1>c, <1>20, <2>1 DEF TokenExpired, At, EnterWaiting, AskBinding, Reporting, HandlersInv, HandlersReachable
  <2>2. CASE ~EnterWaiting(Loop)
    BY <1>a, <1>b, <1>c, <1>20, <2>2 DEF TokenExpired, At, Reporting, HandlersInv, HandlersReachable
  <2> QED
    BY <2>1, <2>2
<1>21. ASSUME CancelPendingWaits PROVE HandlersInv'
  <2>1. HandlersAccounted'
    BY <1>a, <1>b, <1>21, TakeHandlersAccounted DEF CancelPendingWaits, HandlersInv
  <2>2. HandlersReachable'
    BY <1>a, <1>b, <1>21 DEF CancelPendingWaits, TakeHandlers, At, Reporting, HandlersInv, HandlersReachable
  <2> QED
    BY <2>1, <2>2 DEF HandlersInv
<1>22. ASSUME DeactivateOnError PROVE HandlersInv'
  <2>1. CASE EnterInactive(Loop)
    BY <1>a, <1>b, <1>22, <2>1, EnterInactiveHandlers DEF DeactivateOnError
  <2>2. CASE FailAssertion
    BY <1>a, <1>c, <2>2 DEF FailAssertion, Reporting, HandlersInv, HandlersReachable
  <2> QED
    BY <1>22, <2>1, <2>2 DEF DeactivateOnError
<1>23. ASSUME NEW s \in Reporting, NEW new \in {"connecting", "connected"}, ConnectionChanged(s, new) PROVE HandlersInv'
  BY <1>a, <1>b, <1>c, <1>23 DEF ConnectionChanged, At, Reporting, HandlersInv, HandlersReachable
<1>24. ASSUME NEW s \in Reporting, NEW e \in Errors, ErrorReported(s, e) PROVE HandlersInv'
  BY <1>a, <1>b, <1>c, <1>24 DEF ErrorReported, At, Reporting, HandlersInv, HandlersReachable
<1>25. ASSUME NEW c \in clientWaits, CompleteWait(c) PROVE HandlersInv'
  <2>1. /\ clientWaits' = clientWaits \ {c} /\ UNCHANGED <<pending, aborting, registered, pc, session, terminating, state>>
        /\ c.waiter \in Waiters /\ calls \in [Waiters -> Nat]
        /\ \A x \in Waiters : calls'[x] = IF x = c.waiter THEN calls[x] + 1 ELSE calls[x]
    BY <1>25 DEF CompleteWait, SessionInv, TypeOK
  <2>2. HandlersAccounted'
    <3>1. /\ calls[c.waiter] = 0 /\ ~Queued(c.waiter) /\ ~BeingAborted(c.waiter)
          /\ c.waiter \in registered
      BY <2>1 DEF HandlersInv, HandlersAccounted, Queued, BeingAborted, WithClient, Called
    <3>2. \A d \in clientWaits : d # c => d.waiter # c.waiter
      BY DEF HandlersInv, HandlersAccounted
    <3>3. \A x \in Waiters : WithClient(x)' <=> WithClient(x) /\ x # c.waiter
      BY <2>1, <3>2 DEF WithClient
    <3>4. \A x \in Waiters : (Queued(x)' <=> Queued(x)) /\ (BeingAborted(x)' <=> BeingAborted(x))
      BY <2>1 DEF Queued, BeingAborted
    <3>5. \A x \in Waiters : Called(x)' <=> Called(x) \/ x = c.waiter
      BY <2>1 DEF Called
    <3>6. \A x \in Waiters : calls'[x] <= 1
      BY <2>1, <3>1 DEF HandlersInv, HandlersAccounted
    <3> QED
      BY <2>1, <3>1, <3>3, <3>4, <3>5, <3>6 DEF HandlersInv, HandlersAccounted
  <2>3. HandlersReachable'
    BY <2>1 DEF Reporting, HandlersInv, HandlersReachable
  <2> QED
    BY <2>2, <2>3 DEF HandlersInv
<1>26. ASSUME NEW d \in deathWaits, DeathComplete(d) PROVE HandlersInv'
  <2>1. HandlersAccounted'
    BY <1>a, <1>b, <1>26, TakeHandlersAccounted DEF DeathComplete, HandlersInv
  <2>2. Reporting \subseteq Reporting'
    BY <1>26 DEF DeathComplete, Reporting, NoSession
  <2>3. HandlersReachable'
    BY <1>a, <1>b, <1>26, <2>2 DEF DeathComplete, TakeHandlers, At, HandlersInv, HandlersReachable
  <2> QED
    BY <2>1, <2>3 DEF HandlersInv
<1>27. ASSUME NEW d \in deathWaits, DeathSuperseded(d) PROVE HandlersInv'
  BY <1>a, <1>b, <1>c, <1>27 DEF DeathSuperseded, At, Reporting, HandlersInv, HandlersReachable
<1>28. ASSUME NEW s \in terminating, Terminate(s) PROVE HandlersInv'
  <2>1. HandlersAccounted'
    BY <1>28 DEF Terminate, HandlersInv, HandlersAccounted, Queued, BeingAborted, WithClient, Called
  <2>2. HandlersReachable'
    BY <1>28 DEF Terminate, Reporting, HandlersInv, HandlersReachable
  <2> QED
    BY <2>1, <2>2 DEF HandlersInv
<1>29. ASSUME Upload PROVE HandlersInv'
  BY <1>a, <1>b, <1>c, <1>29 DEF Upload, At, Reporting, HandlersInv, HandlersReachable
<1>30. CASE UNCHANGED vars
  BY <1>30, <1>c DEF vars, Reporting, HandlersInv, HandlersReachable
<1> QED
  BY <1>1, <1>2, <1>3, <1>4, <1>5, <1>6, <1>7, <1>8, <1>9, <1>10, <1>11, <1>12, <1>13, <1>14, <1>15, <1>16, <1>17, <1>18, <1>19, <1>20, <1>21, <1>22, <1>23, <1>24, <1>25, <1>26, <1>27, <1>28, <1>29, <1>30 DEF Next, ThreadStep, AppCall, ErrorStep, ClientCallback, Aborted

\* An accepted completion handler is in exactly one place and is called at most
\* once, for any number of handlers, threads and sync::Sessions.
THEOREM HandlersCorrect == Spec => []HandlersAccounted
<1> DEFINE Inv == SessionInv /\ HandlersInv
<1>1. Init => Inv
  BY SessionInit DEF Init, HandlersInv, HandlersAccounted, HandlersReachable, Queued,
     BeingAborted, WithClient, Called
<1>2. Inv /\ [Next]_vars => Inv'
  BY SessionNext, HandlersNext
<1>3. Inv => HandlersAccounted
  BY DEF HandlersInv
<1> QED
  BY <1>1, <1>2, <1>3, PTL DEF Spec

\* No accepted handler is stranded where neither a thread nor the client would
\* come to call it.
THEOREM HandlersNotStranded == Spec => []HandlersReachable
<1> DEFINE Inv == SessionInv /\ HandlersInv
<1>1. Init => Inv
  BY SessionInit DEF Init, HandlersInv, HandlersAccounted, HandlersReachable, Queued,
     BeingAborted, WithClient, Called
<1>2. Inv /\ [Next]_vars => Inv'
  BY SessionNext, HandlersNext
<1>3. Inv => HandlersReachable
  BY DEF HandlersInv
<1> QED
  BY <1>1, <1>2, <1>3, PTL DEF Spec

-----------------------------------------------------------------------------
(* The session implements its abstract specifications.                     *)

\* A step that accepts and calls no handler.
Quiet == UNCHANGED <<registered, calls>>

\* Every step of the session accepts one handler, calls one accepted handler for the first
\* time, or is a stutter to the callers.
LEMMA PromiseNext == SessionInv /\ HandlersInv /\ [Next]_vars => [Promise!Next]_(Promise!vars)
<1> SUFFICES ASSUME SessionInv, HandlersInv, [Next]_vars PROVE [Promise!Next]_(Promise!vars)
  OBVIOUS
<1> USE DEF machine, dying, handle, handlers, commits, loop
<1>0. Quiet => UNCHANGED Promise!vars
  BY DEF Quiet, Promise!vars
<1>1. ASSUME NEW t \in AllThreads, CallBindHandler(t) PROVE Quiet
  BY <1>1 DEF CallBindHandler, Quiet
<1>2. ASSUME NEW t \in AllThreads, SetDisconnected(t) PROVE Quiet
  BY <1>2 DEF SetDisconnected, Quiet
<1>3. ASSUME NEW t \in AllThreads, NEW w \in Waiters, AbortHandler(t, w) PROVE Promise!Call(w)
  <2>1. w \in registered /\ calls[w] = 0
    BY <1>3 DEF AbortHandler, HandlersInv, HandlersAccounted, BeingAborted, Called, SessionInv, TypeOK
  <2> QED
    BY <1>3, <2>1 DEF AbortHandler, Promise!Call
<1>4. ASSUME NEW t \in Threads, ReviveInactive(t) PROVE Quiet
  BY <1>4 DEF ReviveInactive, EnterWaiting, Quiet
<1>5. ASSUME NEW t \in Threads, ReviveWaiting(t) PROVE Quiet
  BY <1>5 DEF ReviveWaiting, Quiet
<1>6. ASSUME NEW t \in Threads, ReviveDying(t) PROVE Quiet
  BY <1>6 DEF ReviveDying, Quiet
<1>7. ASSUME NEW t \in Threads, HandleReconnect(t) PROVE Quiet
  BY <1>7 DEF HandleReconnect, Quiet
<1>8. ASSUME NEW t \in Threads, NEW url \in BOOLEAN, RefreshWaiting(t, url) PROVE Quiet
  BY <1>8 DEF RefreshWaiting, EnterDying, Quiet
<1>9. ASSUME NEW t \in Threads, RefreshActive(t) PROVE Quiet
  BY <1>9 DEF RefreshActive, Quiet
<1>10. ASSUME NEW t \in Threads, LogOut(t) PROVE Quiet
  BY <1>10 DEF LogOut, EnterInactive, Quiet
<1>11. ASSUME NEW t \in Threads, CloseImmediately(t) PROVE Quiet
  BY <1>11 DEF CloseImmediately, EnterInactive, Quiet
<1>12. ASSUME NEW t \in Threads, CloseWaiting(t) PROVE Quiet
  BY <1>12 DEF CloseWaiting, Quiet
<1>13. ASSUME NEW t \in Threads, CloseActive(t) PROVE Quiet
  BY <1>13 DEF CloseActive, EnterDying, Quiet
<1>14. ASSUME NEW t \in Threads, NEW w \in Waiters, WaitForCompletion(t, w) PROVE Promise!Accept(w)
  BY <1>14 DEF WaitForCompletion, Promise!Accept
<1>15. ASSUME NEW t \in Threads, Commit(t) PROVE Quiet
  BY <1>15 DEF Commit, Quiet
<1>16. ASSUME NEW t \in Threads, NonsyncTransactNotify(t) PROVE Quiet
  BY <1>16 DEF NonsyncTransactNotify, Quiet
<1>17. ASSUME HandleErrorDying PROVE Quiet
  BY <1>17 DEF HandleErrorDying, EnterInactive, Quiet
<1>18. ASSUME HandleErrorOther PROVE Quiet
  BY <1>18 DEF HandleErrorOther, Quiet
<1>19. ASSUME IgnoreError PROVE Quiet
  BY <1>19 DEF IgnoreError, Quiet
<1>20. ASSUME TokenExpired PROVE Quiet
  BY <1>20 DEF TokenExpired, EnterWaiting, Quiet
<1>21. ASSUME CancelPendingWaits PROVE Quiet
  BY <1>21 DEF CancelPendingWaits, Quiet
<1>22. ASSUME DeactivateOnError PROVE Quiet
  BY <1>22 DEF DeactivateOnError, EnterInactive, FailAssertion, Quiet
<1>23. ASSUME NEW s \in Reporting, NEW new \in {"connecting", "connected"}, ConnectionChanged(s, new) PROVE Quiet
  BY <1>23 DEF ConnectionChanged, Quiet
<1>24. ASSUME NEW s \in Reporting, NEW e \in Errors, ErrorReported(s, e) PROVE Quiet
  BY <1>24 DEF ErrorReported, Quiet
<1>25. ASSUME NEW c \in clientWaits, CompleteWait(c) PROVE c.waiter \in Waiters /\ Promise!Call(c.waiter)
  <2>1. c.waiter \in Waiters /\ WithClient(c.waiter)
    BY DEF WithClient, SessionInv, TypeOK
  <2>2. c.waiter \in registered /\ calls[c.waiter] = 0
    BY <2>1 DEF HandlersInv, HandlersAccounted, Called, SessionInv, TypeOK
  <2> QED
    BY <1>25, <2>1, <2>2 DEF CompleteWait, Promise!Call
<1>26. ASSUME NEW d \in deathWaits, DeathComplete(d) PROVE Quiet
  BY <1>26 DEF DeathComplete, Quiet
<1>27. ASSUME NEW d \in deathWaits, DeathSuperseded(d) PROVE Quiet
  BY <1>27 DEF DeathSuperseded, Quiet
<1>28. ASSUME NEW s \in terminating, Terminate(s) PROVE Quiet
  BY <1>28 DEF Terminate, Quiet
<1>29. ASSUME Upload PROVE Quiet
  BY <1>29 DEF Upload, Quiet
<1>30. ASSUME UNCHANGED vars PROVE Quiet
  BY <1>30 DEF vars, Quiet
<1>31. ASSUME NEW w \in Waiters, Promise!Accept(w) \/ Promise!Call(w) PROVE Promise!Next
  BY <1>31 DEF Promise!Next
<1> QED
  BY <1>0, <1>1, <1>2, <1>3, <1>4, <1>5, <1>6, <1>7, <1>8, <1>9, <1>10, <1>11, <1>12, <1>13, <1>14, <1>15, <1>16, <1>17, <1>18, <1>19, <1>20, <1>21, <1>22, <1>23, <1>24, <1>25, <1>26, <1>27, <1>28, <1>29, <1>30, <1>31 DEF Next, ThreadStep, AppCall, ErrorStep, ClientCallback, Aborted

\* The session keeps its promise to the callers of wait_for_*_completion (sync_session.hpp
\* 142-152): it implements CompletionPromise, for any threads, handlers and bounds.
THEOREM PromiseRefined == Spec => PromiseKept
<1> DEFINE Inv == SessionInv /\ HandlersInv
<1>1. Init => Inv
  BY SessionInit DEF Init, HandlersInv, HandlersAccounted, HandlersReachable, Queued,
     BeingAborted, WithClient, Called
<1>2. Init => Promise!Init
  BY DEF Init, Promise!Init
<1>3. Inv /\ [Next]_vars => Inv'
  BY SessionNext, HandlersNext
<1>4. Inv /\ [Next]_vars => [Promise!Next]_(Promise!vars)
  BY PromiseNext
<1> QED
  BY <1>1, <1>2, <1>3, <1>4, PTL DEF Spec, PromiseKept, Promise!Spec

\* A step that leaves the documented state as it is.
SameState == UNCHANGED <<state, session>>

\* Every step of the session is a documented transition or leaves the state alone.
LEMMA StatesNext == SessionInv /\ [Next]_vars => [States!Next]_(States!vars)
<1> SUFFICES ASSUME SessionInv, [Next]_vars PROVE [States!Next]_(States!vars)
  OBVIOUS
<1> USE DEF machine, dying, handle, handlers, commits, loop
<1>0. SameState => UNCHANGED States!vars
  BY DEF SameState, States!vars
<1>1. ASSUME NEW t \in AllThreads, CallBindHandler(t) PROVE SameState
  BY <1>1 DEF CallBindHandler, SameState
<1>2. ASSUME NEW t \in AllThreads, SetDisconnected(t) PROVE SameState
  BY <1>2 DEF SetDisconnected, SameState
<1>3. ASSUME NEW t \in AllThreads, NEW w \in Waiters, AbortHandler(t, w) PROVE SameState
  BY <1>3 DEF AbortHandler, SameState
<1>4. ASSUME NEW t \in Threads, ReviveInactive(t) PROVE States!Revive
  BY <1>4 DEF ReviveInactive, EnterWaiting, States!Revive
<1>5. ASSUME NEW t \in Threads, ReviveWaiting(t) PROVE SameState
  BY <1>5 DEF ReviveWaiting, SameState
<1>6. ASSUME NEW t \in Threads, ReviveDying(t) PROVE States!Revive
  BY <1>6 DEF ReviveDying, States!Revive
<1>7. ASSUME NEW t \in Threads, HandleReconnect(t) PROVE SameState
  BY <1>7 DEF HandleReconnect, SameState
<1>8. ASSUME NEW t \in Threads, NEW url \in BOOLEAN, RefreshWaiting(t, url) PROVE States!TokenRefreshed
  <2>1. session' # NoSession
    BY <1>8 DEF RefreshWaiting, SessionInv, TypeOK, NoSession
  <2>2. state = "waiting" /\ state' \in {"active", "dying"}
    BY <1>8 DEF RefreshWaiting, EnterDying
  <2> QED
    BY <2>1, <2>2 DEF States!TokenRefreshed
<1>9. ASSUME NEW t \in Threads, RefreshActive(t) PROVE SameState
  BY <1>9 DEF RefreshActive, SameState
<1>10. ASSUME NEW t \in Threads, LogOut(t) PROVE States!Deactivate
  BY <1>10 DEF LogOut, EnterInactive, States!Deactivate
<1>11. ASSUME NEW t \in Threads, CloseImmediately(t) PROVE States!Deactivate
  BY <1>11 DEF CloseImmediately, EnterInactive, States!Deactivate
<1>12. ASSUME NEW t \in Threads, CloseWaiting(t) PROVE SameState
  BY <1>12 DEF CloseWaiting, SameState
<1>13. ASSUME NEW t \in Threads, CloseActive(t) PROVE States!Close
  BY <1>13 DEF CloseActive, EnterDying, States!Close
<1>14. ASSUME NEW t \in Threads, NEW w \in Waiters, WaitForCompletion(t, w) PROVE SameState
  BY <1>14 DEF WaitForCompletion, SameState
<1>15. ASSUME NEW t \in Threads, Commit(t) PROVE SameState
  BY <1>15 DEF Commit, SameState
<1>16. ASSUME NEW t \in Threads, NonsyncTransactNotify(t) PROVE SameState
  BY <1>16 DEF NonsyncTransactNotify, SameState
<1>17. ASSUME HandleErrorDying PROVE States!Deactivate \/ SameState
  BY <1>17 DEF HandleErrorDying, EnterInactive, States!Deactivate, SameState
<1>18. ASSUME HandleErrorOther PROVE SameState
  BY <1>18 DEF HandleErrorOther, SameState
<1>19. ASSUME IgnoreError PROVE SameState
  BY <1>19 DEF IgnoreError, SameState
<1>20. ASSUME TokenExpired PROVE States!TokenExpired \/ SameState
  BY <1>20 DEF TokenExpired, EnterWaiting, States!TokenExpired, SameState
<1>21. ASSUME CancelPendingWaits PROVE SameState
  BY <1>21 DEF CancelPendingWaits, SameState
<1>22. ASSUME DeactivateOnError PROVE States!Deactivate \/ SameState
  BY <1>22 DEF DeactivateOnError, FailAssertion, EnterInactive, States!Deactivate, SameState
<1>23. ASSUME NEW s \in Reporting, NEW new \in {"connecting", "connected"}, ConnectionChanged(s, new) PROVE SameState
  BY <1>23 DEF ConnectionChanged, SameState
<1>24. ASSUME NEW s \in Reporting, NEW e \in Errors, ErrorReported(s, e) PROVE SameState
  BY <1>24 DEF ErrorReported, SameState
<1>25. ASSUME NEW c \in clientWaits, CompleteWait(c) PROVE SameState
  BY <1>25 DEF CompleteWait, SameState
<1>26. ASSUME NEW d \in deathWaits, DeathComplete(d) PROVE States!Deactivate
  BY <1>26 DEF DeathComplete, StillDying, States!Deactivate
<1>27. ASSUME NEW d \in deathWaits, DeathSuperseded(d) PROVE SameState
  BY <1>27 DEF DeathSuperseded, SameState
<1>28. ASSUME NEW s \in terminating, Terminate(s) PROVE SameState
  BY <1>28 DEF Terminate, SameState
<1>29. ASSUME Upload PROVE SameState
  BY <1>29 DEF Upload, SameState
<1>30. ASSUME UNCHANGED vars PROVE SameState
  BY <1>30 DEF vars, SameState
<1>31. ASSUME \/ States!Revive \/ States!TokenRefreshed \/ States!TokenExpired
              \/ States!Close \/ States!Deactivate
       PROVE  States!Next
  BY <1>31 DEF States!Next
<1> QED
  BY <1>0, <1>1, <1>2, <1>3, <1>4, <1>5, <1>6, <1>7, <1>8, <1>9, <1>10, <1>11, <1>12, <1>13, <1>14, <1>15, <1>16, <1>17, <1>18, <1>19, <1>20, <1>21, <1>22, <1>23, <1>24, <1>25, <1>26, <1>27, <1>28, <1>29, <1>30, <1>31 DEF Next, ThreadStep, AppCall, ErrorStep, ClientCallback, Aborted

\* The session implements the documented state machine (the comment above
\* SyncSession::State, sync_session.cpp 41-82), whichever threads drive it.
THEOREM DocumentedStatesRefined == Spec => DocumentedStates
<1>1. Init => SessionInv /\ States!Init
  BY SessionInit DEF Init, States!Init
<1>2. SessionInv /\ [Next]_vars => SessionInv'
  BY SessionNext
<1>3. SessionInv /\ [Next]_vars => [States!Next]_(States!vars)
  BY StatesNext
<1> QED
  BY <1>1, <1>2, <1>3, PTL DEF Spec, DocumentedStates, States!Spec

-----------------------------------------------------------------------------
(* The token.                                                              *)

\* Every action keeps a waiting session's token asked for: nobody takes a thread off its way to
\* the bind handler.
LEMMA AskedNext == SessionInv /\ AskedForToken /\ [Next]_vars => AskedForToken'
<1> SUFFICES ASSUME SessionInv, AskedForToken, [Next]_vars PROVE AskedForToken'
  OBVIOUS
<1> USE DEF machine, dying, handle, handlers, commits, loop
<1>a. /\ Loop \in AllThreads /\ Threads \subseteq AllThreads
      /\ pc \in [AllThreads ->
             {"idle", "bind", "disconnect", "abort", "notify", "handle", "classify"}]
  BY DEF SessionInv, TypeOK, AllThreads
\* A step that takes no thread off its way to the bind handler.
<1>b. ASSUME UNCHANGED <<state, asked>>,
             \A t \in AllThreads : pc[t] = "bind" => pc'[t] = "bind"
      PROVE  AskedForToken'
  BY <1>b DEF AskedForToken
<1>1. ASSUME NEW t \in AllThreads, CallBindHandler(t) PROVE AskedForToken'
  BY <1>1 DEF CallBindHandler, AskedForToken
<1>2. ASSUME NEW t \in AllThreads, SetDisconnected(t) PROVE AskedForToken'
  BY <1>a, <1>b, <1>2 DEF SetDisconnected, At
<1>3. ASSUME NEW t \in AllThreads, NEW w \in Waiters, AbortHandler(t, w) PROVE AskedForToken'
  BY <1>a, <1>b, <1>3 DEF AbortHandler, At
<1>4. ASSUME NEW t \in Threads, ReviveInactive(t) PROVE AskedForToken'
  BY <1>a, <1>4 DEF ReviveInactive, EnterWaiting, AskBinding, AskedForToken
<1>5. ASSUME NEW t \in Threads, ReviveWaiting(t) PROVE AskedForToken'
  BY <1>a, <1>b, <1>5 DEF ReviveWaiting, At
<1>6. ASSUME NEW t \in Threads, ReviveDying(t) PROVE AskedForToken'
  BY <1>6 DEF ReviveDying, AskedForToken
<1>7. ASSUME NEW t \in Threads, HandleReconnect(t) PROVE AskedForToken'
  BY <1>a, <1>7 DEF HandleReconnect, AskBinding, AskedForToken
<1>8. ASSUME NEW t \in Threads, NEW url \in BOOLEAN, RefreshWaiting(t, url) PROVE AskedForToken'
  BY <1>8 DEF RefreshWaiting, EnterDying, AskedForToken
<1>9. ASSUME NEW t \in Threads, RefreshActive(t) PROVE AskedForToken'
  BY <1>a, <1>b, <1>9 DEF RefreshActive, At
<1>10. ASSUME NEW t \in Threads, LogOut(t) PROVE AskedForToken'
  BY <1>10 DEF LogOut, EnterInactive, AskedForToken
<1>11. ASSUME NEW t \in Threads, CloseImmediately(t) PROVE AskedForToken'
  BY <1>11 DEF CloseImmediately, EnterInactive, AskedForToken
<1>12. ASSUME NEW t \in Threads, CloseWaiting(t) PROVE AskedForToken'
  BY <1>a, <1>b, <1>12 DEF CloseWaiting, At
<1>13. ASSUME NEW t \in Threads, CloseActive(t) PROVE AskedForToken'
  BY <1>13 DEF CloseActive, EnterDying, AskedForToken
<1>14. ASSUME NEW t \in Threads, NEW w \in Waiters, WaitForCompletion(t, w) PROVE AskedForToken'
  BY <1>a, <1>b, <1>14 DEF WaitForCompletion, At
<1>15. ASSUME NEW t \in Threads, Commit(t) PROVE AskedForToken'
  BY <1>a, <1>b, <1>15 DEF Commit, At
<1>16. ASSUME NEW t \in Threads, NonsyncTransactNotify(t) PROVE AskedForToken'
  BY <1>a, <1>b, <1>16 DEF NonsyncTransactNotify, At
<1>17. ASSUME HandleErrorDying PROVE AskedForToken'
  <2>1. state = "dying" /\ state' \in {"inactive", "dying"}
    BY <1>17 DEF HandleErrorDying, EnterInactive
  <2> QED
    BY <2>1 DEF AskedForToken
<1>18. ASSUME HandleErrorOther PROVE AskedForToken'
  BY <1>a, <1>b, <1>18 DEF HandleErrorOther, At
<1>19. ASSUME IgnoreError PROVE AskedForToken'
  BY <1>a, <1>b, <1>19 DEF IgnoreError, At
<1>20. ASSUME TokenExpired PROVE AskedForToken'
  <2>1. CASE EnterWaiting(Loop)
    BY <1>a, <2>1 DEF EnterWaiting, AskBinding, AskedForToken
  <2>2. CASE ~EnterWaiting(Loop)
    <3>1. At(Loop, "classify") /\ pc' = [pc EXCEPT ![Loop] = "idle"] /\ UNCHANGED machine
      BY <1>20, <2>2 DEF TokenExpired
    <3> QED
      BY <1>a, <1>b, <3>1 DEF At
  <2> QED
    BY <2>1, <2>2
<1>21. ASSUME CancelPendingWaits PROVE AskedForToken'
  BY <1>a, <1>b, <1>21 DEF CancelPendingWaits, At
<1>22. ASSUME DeactivateOnError PROVE AskedForToken'
  <2>1. state' = "inactive"
    BY <1>22 DEF DeactivateOnError, FailAssertion, EnterInactive
  <2> QED
    BY <2>1 DEF AskedForToken
<1>23. ASSUME NEW s \in Reporting, NEW new \in {"connecting", "connected"}, ConnectionChanged(s, new) PROVE AskedForToken'
  BY <1>a, <1>b, <1>23 DEF ConnectionChanged, At
<1>24. ASSUME NEW s \in Reporting, NEW e \in Errors, ErrorReported(s, e) PROVE AskedForToken'
  BY <1>a, <1>b, <1>24 DEF ErrorReported, At
<1>25. ASSUME NEW c \in clientWaits, CompleteWait(c) PROVE AskedForToken'
  BY <1>a, <1>b, <1>25 DEF CompleteWait, At
<1>26. ASSUME NEW d \in deathWaits, DeathComplete(d) PROVE AskedForToken'
  BY <1>26 DEF DeathComplete, AskedForToken
<1>27. ASSUME NEW d \in deathWaits, DeathSuperseded(d) PROVE AskedForToken'
  BY <1>a, <1>b, <1>27 DEF DeathSuperseded, At
<1>28. ASSUME NEW s \in terminating, Terminate(s) PROVE AskedForToken'
  BY <1>a, <1>b, <1>28 DEF Terminate, At
<1>29. ASSUME Upload PROVE AskedForToken'
  BY <1>a, <1>b, <1>29 DEF Upload, At
<1>30. CASE UNCHANGED vars
  BY <1>30 DEF vars, AskedForToken
<1> QED
  BY <1>1, <1>2, <1>3, <1>4, <1>5, <1>6, <1>7, <1>8, <1>9, <1>10, <1>11, <1>12, <1>13, <1>14, <1>15, <1>16, <1>17, <1>18, <1>19, <1>20, <1>21, <1>22, <1>23, <1>24, <1>25, <1>26, <1>27, <1>28, <1>29, <1>30 DEF Next, ThreadStep, AppCall, ErrorStep, ClientCallback, Aborted

\* A session never waits for a token nobody was asked for.
THEOREM TokenAskedFor == Spec => []AskedForToken
<1>1. Init => SessionInv /\ AskedForToken
  BY SessionInit DEF Init, AskedForToken
<1>2. SessionInv /\ AskedForToken /\ [Next]_vars => SessionInv' /\ AskedForToken'
  BY SessionNext, AskedNext
<1> QED
  BY <1>1, <1>2, PTL DEF Spec

=============================================================================
