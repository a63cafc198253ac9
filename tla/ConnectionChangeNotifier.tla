----------------------- MODULE ConnectionChangeNotifier -----------------------
(***************************************************************************)
(* SyncSession::ConnectionChangeNotifier (sync_session.cpp 985-1029): the  *)
(* list of connection state callbacks of a session and the loop that calls *)
(* them.                                                                   *)
(*                                                                         *)
(* The mutex is released around every call of a callback, and the cursor   *)
(* of the loop (m_callback_index) and its bound (m_callback_count) are     *)
(* members, so that remove_callback can correct them while a loop is under *)
(* way.  Two threads run the loop: the event loop thread, which reports    *)
(* the changes the sync client sees, and an application thread that makes  *)
(* the session Inactive.  A callback is a token; adding and removing from  *)
(* inside a callback is an Add or a Remove while a loop is under way.      *)
(***************************************************************************)
EXTENDS Integers, FiniteSets, SequencesExt

CONSTANTS
    Invokers,        \* threads that run invoke_callbacks
    MaxTokens,       \* bound: callbacks ever registered
    SizeT            \* how many values a size_t has

ASSUME InvokersAssumption == IsFiniteSet(Invokers)
ASSUME WidthAssumption == MaxTokens \in Nat /\ SizeT \in Nat /\ SizeT > MaxTokens + 1

VARIABLES
    callbacks,  \* m_callbacks: their tokens, oldest first
    index,      \* m_callback_index
    count,      \* m_callback_count
    nextToken,  \* m_next_token
    calling,    \* the callback each thread is inside of, or None
    overrun,    \* a loop has read past the end of m_callbacks
    \* what the callbacks see
    owed,       \* registered when the thread's loop began, and not removed since
    times,      \* how often the thread's loop has called each; 2 stands for more
    \* what the callers have done so far
    newcomerRemoved,  \* removed, during a loop, a callback that the loop does not cover
    overlapped        \* begun a loop while another was under way

history == <<newcomerRemoved, overlapped>>
notifierVars == <<callbacks, index, count, nextToken, calling, overrun, owed, times, history>>

Tokens == 0 .. MaxTokens - 1
None == -1
Npos == SizeT - 1   \* std::vector::npos, also what the initializer -1 becomes

\* ++ and -- of a size_t
Plus1(n)  == IF n = Npos THEN 0 ELSE n + 1
Minus1(n) == IF n = 0 THEN Npos ELSE n - 1
Size == Len(callbacks)
InLoop == \E t \in Invokers : calling[t] # None
NotCalled == [k \in Tokens |-> 0]

NotifierTypeOK ==
    /\ callbacks \in Seq(Tokens) /\ Size <= nextToken
    /\ index \in 0 .. Npos
    /\ count \in 0 .. Npos
    /\ nextToken \in 0 .. MaxTokens
    /\ calling \in [Invokers -> Tokens \cup {None}]
    /\ overrun \in BOOLEAN
    /\ owed \in [Invokers -> SUBSET Tokens]
    /\ times \in [Invokers -> [Tokens -> 0 .. 2]]
    /\ newcomerRemoved \in BOOLEAN /\ overlapped \in BOOLEAN

NotifierInit ==
    /\ callbacks = <<>>
    /\ index = Npos
    /\ count = Npos
    /\ nextToken = 0
    /\ calling = [t \in Invokers |-> None]
    /\ overrun = FALSE
    /\ owed = [t \in Invokers |-> {}]
    /\ times = [t \in Invokers |-> NotCalled]
    /\ newcomerRemoved = FALSE /\ overlapped = FALSE

-----------------------------------------------------------------------------
\* add_callback
AddCallback ==
    /\ ~overrun /\ nextToken < MaxTokens
    /\ callbacks' = Append(callbacks, nextToken)
    /\ nextToken' = nextToken + 1
    /\ UNCHANGED <<index, count, calling, overrun, owed, times, history>>

\* What remove_callback does to the cursor: the callbacks behind idx move up.
\* The loop's own callback is at index, so it steps back when that one goes.
CursorAfterRemoval_Strict(idx) ==
    IF index # Npos /\ index > idx THEN Minus1(index) ELSE index
CursorAfterRemoval(idx) ==
    IF index # Npos /\ index >= idx THEN Minus1(index) ELSE index

\* ... and to the bound of the loop.
BoundAfterRemoval_Kept == count
BoundAfterRemoval == Minus1(count)

\* remove_callback of the callback at idx; of an unknown token it does nothing
RemoveCallback(idx) ==
    /\ ~overrun /\ idx < Size
    /\ index' = CursorAfterRemoval(idx)
    /\ count' = BoundAfterRemoval
    /\ callbacks' = RemoveAt(callbacks, idx + 1)
    /\ owed' = [t \in Invokers |-> owed[t] \ {callbacks[idx + 1]}]
    /\ newcomerRemoved' = (newcomerRemoved \/ (InLoop /\ idx >= count))
    /\ UNCHANGED <<nextToken, calling, overrun, times, overlapped>>

-----------------------------------------------------------------------------
\* One turn of the loop of thread t, up to the next place where it lets the
\* mutex go: the cursor moves on and the callback there is copied and called,
\* or the loop is over, or the cursor is past the end of the vector.
CallNext(t, i, bound, before) ==
    /\ i < bound /\ i < Size
    /\ index' = i
    /\ calling' = [calling EXCEPT ![t] = callbacks[i + 1]]
    /\ times' = [times EXCEPT ![t] =
                   [before EXCEPT ![callbacks[i + 1]] = IF @ = 0 THEN 1 ELSE 2]]
    /\ UNCHANGED overrun

EndLoop(t, i, bound, before) ==
    /\ i >= bound
    /\ index' = Npos
    /\ calling' = [calling EXCEPT ![t] = None]
    /\ times' = [times EXCEPT ![t] = before]
    /\ UNCHANGED overrun

ReadPastEnd(t, i, bound, before) ==
    /\ i < bound /\ i >= Size
    /\ overrun' = TRUE
    /\ UNCHANGED <<index, calling, times>>

Turn(t, i, bound, before) ==
    \/ CallNext(t, i, bound, before)
    \/ EndLoop(t, i, bound, before)
    \/ ReadPastEnd(t, i, bound, before)

\* invoke_callbacks up to its first call
BeginInvoke(t) ==
    /\ ~overrun /\ calling[t] = None
    /\ count' = Size
    /\ owed' = [owed EXCEPT ![t] = ToSet(callbacks)]
    /\ Turn(t, Plus1(index), Size, NotCalled)
    /\ overlapped' = (overlapped \/ InLoop)
    /\ UNCHANGED <<callbacks, nextToken, newcomerRemoved>>

\* the callback returns, the mutex is taken again, and the loop goes on
CallbackReturns(t) ==
    /\ ~overrun /\ calling[t] # None
    /\ Turn(t, Plus1(index), count, times[t])
    /\ UNCHANGED <<callbacks, count, nextToken, owed, history>>

\* The vector was read past its end: what happens then is undefined.
Overrun == overrun /\ UNCHANGED notifierVars

NotifierNext ==
    \/ AddCallback
    \/ \E idx \in 0 .. MaxTokens - 1 : RemoveCallback(idx)
    \/ \E t \in Invokers : BeginInvoke(t)
    \/ \E t \in Invokers : CallbackReturns(t)
    \/ Overrun

NotifierSpec == NotifierInit /\ [][NotifierNext]_notifierVars

-----------------------------------------------------------------------------
\* The loop never reads past the end of m_callbacks, whatever is added and removed
\* while it runs and however many threads run it, unless a callback registered
\* during a loop is also removed during it.
OverrunsOnlyForNewcomers == overrun => newcomerRemoved

\* Why a loop stays inside the vector: while any loop runs, its bound is at most
\* the size.  The inductive part of OverrunsOnlyForNewcomers.
BoundInside == ~newcomerRemoved /\ InLoop => count <= Size

\* When a loop that ran alone is over, every callback that was registered when it
\* began, and still is, was called by it once: removals, of the running callback
\* included, and additions made while it ran skip and repeat nothing.
EachCalledOnce ==
    ~overlapped /\ ~newcomerRemoved =>
        \A t \in Invokers : calling[t] = None =>
            \A k \in owed[t] : times[t][k] = 1

=============================================================================
