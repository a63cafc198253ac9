------------------------ MODULE CollectionCallbacks ------------------------
(***************************************************************************)
(* The callbacks of one _impl::CollectionNotifier (collection_notifier.cpp *)
(* 184-421): the worker thread computes and accumulates changes for every  *)
(* callback, the Realm's thread packages them and calls the callbacks in   *)
(* two rounds, before and after it advances the Realm.                     *)
(*                                                                         *)
(* m_callback_mutex is released around every call, so callbacks are added  *)
(* and removed in between, from inside the call or (removals) from any     *)
(* thread.  A change is the version that brought it.  What the Realm and   *)
(* the coordinator do around a delivery is in NotifierHandover.            *)
(***************************************************************************)
EXTENDS Integers, SequencesExt

CONSTANTS
    MaxTokens,       \* bound: callbacks ever registered
    MaxVersion,      \* bound: commits
    SizeT            \* how many values a size_t has

ASSUME CallbackBounds ==
    /\ MaxTokens \in Nat /\ MaxVersion \in Nat /\ SizeT \in Nat
    /\ SizeT > MaxTokens + 1

VARIABLES
    callbacks,  \* m_callbacks: records of Callback
    index,      \* m_callback_index
    count,      \* m_callback_count
    haveCbs,    \* m_have_callbacks
    nextToken,  \* m_next_token
    hasRun,     \* m_has_run
    failed,     \* the coordinator's m_async_error is set, nothing ever runs
    phase,      \* where the Realm's thread is in a delivery
    calling,    \* the callback it is inside of, or None
    overrun,    \* a loop has read past the end of m_callbacks
    latest,     \* newest commit
    seen,       \* newest commit whose changes the worker has computed
    change,     \* the computed changes, until add_changes hands them out
    working,    \* the worker is between run and prepare_handover
    woken,      \* wake_up_notifier_worker, or a commit, since the last run
    notified,   \* Realm::notify is due on the Realm's thread
    \* what was computed for each callback, and what it was told
    owed, told, announced,
    miscounted, \* a removal lowered the count for a callback it does not cover
    quiet       \* callbacks added from inside a callback

cursor  == <<index, count, calling, overrun>>
worker  == <<hasRun, latest, seen, change, working, woken>>
history == <<owed, told, announced, miscounted, quiet>>
vars == <<callbacks, nextToken, haveCbs, failed, phase, notified, cursor, worker, history>>

Tokens == 0 .. MaxTokens - 1
Versions == 1 .. MaxVersion
None == -1
Npos == SizeT - 1      \* size_t(-1)
Callback == [token : Tokens, acc : SUBSET Versions, due : SUBSET Versions, initial : BOOLEAN]

Plus1(n)  == (n + 1) % SizeT
Minus1(n) == (n + Npos) % SizeT
Size == Len(callbacks)
Registered == {callbacks[i].token : i \in 1 .. Size}

TypeOK ==
    /\ callbacks \in Seq(Callback) /\ Size <= nextToken
    /\ index \in 0 .. Npos /\ count \in 0 .. Npos
    /\ nextToken \in 0 .. MaxTokens
    /\ haveCbs \in BOOLEAN /\ hasRun \in BOOLEAN /\ failed \in BOOLEAN
    /\ phase \in {"idle", "packaged", "before", "advanced", "after", "available", "error"}
    /\ calling \in Tokens \cup {None}
    /\ overrun \in BOOLEAN /\ miscounted \in BOOLEAN
    /\ latest \in 0 .. MaxVersion /\ seen \in 0 .. latest
    /\ change \in SUBSET Versions
    /\ working \in BOOLEAN /\ woken \in BOOLEAN /\ notified \in BOOLEAN
    /\ owed \in [Tokens -> SUBSET Versions] /\ told \in [Tokens -> SUBSET Versions]
    /\ announced \in [Tokens -> SUBSET Versions]
    /\ quiet \subseteq Tokens

Init ==
    /\ callbacks = <<>> /\ index = Npos /\ count = Npos /\ nextToken = 0
    /\ haveCbs = FALSE /\ hasRun = FALSE
    /\ failed \in BOOLEAN
    /\ phase = "idle" /\ calling = None /\ overrun = FALSE
    /\ latest = 0 /\ seen = 0 /\ change = {} /\ working = FALSE
    /\ woken = TRUE /\ notified = FALSE
    /\ owed = [k \in Tokens |-> {}] /\ told = owed /\ announced = owed
    /\ miscounted = FALSE /\ quiet = {}

-----------------------------------------------------------------------------
\* The application.

\* add_callback.  Inside a loop it neither wakes the worker nor sets the flag.
OutsideLoop_First == index = Npos /\ callbacks = <<>>
OutsideLoop == index = Npos

AddCallback ==
    /\ ~overrun /\ nextToken < MaxTokens
    /\ callbacks' = Append(callbacks, [token |-> nextToken, acc |-> {}, due |-> {},
                                       initial |-> FALSE])
    /\ nextToken' = nextToken + 1
    /\ haveCbs' = (haveCbs \/ OutsideLoop)
    /\ woken' = (woken \/ OutsideLoop)
    /\ quiet' = IF index = Npos THEN quiet ELSE quiet \cup {nextToken}
    /\ UNCHANGED <<failed, phase, notified, cursor, hasRun, latest, seen, change, working,
                   owed, told, announced, miscounted>>

\* What remove_callback does to the cursor and the bound of the loop.
CursorAfterRemoval_Strict(idx) == IF index # Npos /\ index > idx THEN Minus1(index) ELSE index
CursorAfterRemoval(idx) == IF index # Npos /\ index >= idx THEN Minus1(index) ELSE index
BoundAfterRemoval_Kept == count
BoundAfterRemoval == Minus1(count)

Erase(idx) ==
    /\ index' = CursorAfterRemoval(idx)
    /\ count' = BoundAfterRemoval
    /\ callbacks' = RemoveAt(callbacks, idx + 1)
    /\ haveCbs' = (Size > 1)
    /\ miscounted' = (miscounted \/ (phase # "idle" /\ idx >= count))

\* remove_callback, from any thread; a token that is not there is ignored
RemoveCallback(idx) ==
    /\ ~overrun /\ idx < Size
    /\ Erase(idx)
    /\ UNCHANGED <<nextToken, failed, phase, notified, calling, overrun, worker, owed, told,
                   announced, quiet>>

-----------------------------------------------------------------------------
\* The worker thread.

\* Another Realm commits: the worker is woken.
Commit ==
    /\ ~overrun /\ latest < MaxVersion
    /\ latest' = latest + 1
    /\ woken' = TRUE
    /\ UNCHANGED <<callbacks, nextToken, haveCbs, failed, phase, notified, cursor, hasRun, seen,
                   change, working, history>>

\* ResultsNotifier::run: without callbacks the query is rerun only if the
\* results want background updates, and no change set is computed.
Compute(wants) ==
    /\ ~overrun /\ woken /\ ~working /\ ~failed
    /\ working' = TRUE /\ woken' = FALSE
    /\ change' = IF haveCbs /\ hasRun THEN (seen + 1) .. latest ELSE {}
    /\ seen' = IF haveCbs \/ wants \/ ~hasRun THEN latest ELSE seen
    /\ UNCHANGED <<callbacks, nextToken, haveCbs, failed, phase, notified, cursor, hasRun,
                   latest, history>>

\* A coordinator that could not open its file runs nothing, but still notifies.
RunFailed ==
    /\ failed /\ woken /\ ~overrun
    /\ woken' = FALSE /\ notified' = TRUE
    /\ UNCHANGED <<callbacks, nextToken, haveCbs, failed, phase, cursor, hasRun, latest, seen,
                   change, working, history>>

\* prepare_handover with add_changes; afterwards on_change notifies the Realms.
\* (The skip flag of a callback is part of NotifierHandover.)
PrepareHandover ==
    /\ working /\ ~overrun
    /\ working' = FALSE /\ change' = {} /\ hasRun' = TRUE
    /\ notified' = TRUE
    /\ callbacks' = [i \in 1 .. Size |-> [callbacks[i] EXCEPT !.acc = @ \cup change]]
    /\ owed' = [k \in Tokens |-> IF k \in Registered THEN owed[k] \cup change ELSE owed[k]]
    /\ UNCHANGED <<nextToken, haveCbs, failed, phase, cursor, latest, seen, woken, told,
                   announced, miscounted, quiet>>

-----------------------------------------------------------------------------
\* The delivery, on the Realm's thread.

\* package_for_delivery: what has accumulated moves to what is delivered
Packaged_Copied(c) == [c EXCEPT !.due = c.acc]
Packaged(c) == [c EXCEPT !.due = c.acc, !.acc = {}]

Package ==
    /\ ~overrun /\ phase = "idle" /\ hasRun
    /\ phase' = "packaged" /\ notified' = FALSE
    /\ callbacks' = [i \in 1 .. Size |-> Packaged(callbacks[i])]
    /\ count' = Size
    /\ announced' = [k \in Tokens |-> {}]
    /\ UNCHANGED <<nextToken, haveCbs, failed, index, calling, overrun, worker, owed, told,
                   miscounted, quiet>>

\* Which callbacks a round calls.
Calls(round, c) ==
    CASE round = "before" -> c.due # {}
      [] round \in {"after", "available"} -> ~c.initial \/ c.due # {}
      [] OTHER -> TRUE

\* for_each_callback: the callbacks from position i on that this round calls
Callable(cbs, round, i, bound) ==
    {j \in i .. bound - 1 : j >= Len(cbs) \/ Calls(round, cbs[j + 1])}

\* The call itself: what the callback is passed is copied or moved out first.
Call(cbs, round, j) ==
    LET c == cbs[j + 1]
        after == round \in {"after", "available"} IN
    /\ index' = j /\ calling' = c.token
    /\ callbacks' = IF after
                    THEN [cbs EXCEPT ![j + 1].initial = TRUE, ![j + 1].due = {}]
                    ELSE cbs
    /\ announced' = IF round = "before" THEN [announced EXCEPT ![c.token] = c.due]
                                        ELSE announced
    /\ told' = IF after THEN [told EXCEPT ![c.token] = @ \cup c.due] ELSE told
    /\ UNCHANGED overrun

\* One turn of the loop, up to where it lets the mutex go or is over.
Turn(cbs, round, i, bound, done) ==
    LET next == Callable(cbs, round, i, bound) IN
    \/ /\ next = {}
       /\ index' = Npos /\ calling' = None /\ phase' = done
       /\ callbacks' = cbs
       /\ UNCHANGED <<overrun, announced, told>>
    \/ \E j \in next :
         /\ \A k \in next : j <= k
         /\ phase' = round
         /\ \/ j < Len(cbs) /\ Call(cbs, round, j)
            \/ /\ j >= Len(cbs) /\ overrun' = TRUE
               /\ callbacks' = cbs
               /\ UNCHANGED <<index, calling, announced, told>>

Done(round) == IF round = "before" THEN "advanced" ELSE "idle"
Others == <<nextToken, failed, worker, owed, quiet>>

\* before_advance and after_advance up to the first call.  When the Realm is at
\* the notifier's version already there is only the second ("available").
BeginRound(round) ==
    /\ ~overrun
    /\ \/ round = "before" /\ phase = "packaged"
       \/ round = "after" /\ phase = "advanced"
       \/ round = "available" /\ phase = "packaged"
    /\ Turn(callbacks, round, Plus1(index), count, Done(round))
    /\ UNCHANGED <<count, haveCbs, notified, miscounted, Others>>

\* deliver_error
BeginError ==
    /\ ~overrun /\ failed /\ phase = "idle" /\ callbacks # <<>>
    /\ count' = Size /\ notified' = FALSE
    /\ Turn(callbacks, "error", Plus1(index), Size, "idle")
    /\ UNCHANGED <<haveCbs, miscounted, Others>>

\* The callback returns and the loop goes on.
CallbackReturns ==
    /\ ~overrun /\ calling # None /\ phase \in {"before", "after", "available"}
    /\ Turn(callbacks, phase, Plus1(index), count, Done(phase))
    /\ UNCHANGED <<count, haveCbs, notified, miscounted, Others>>

\* In deliver_error the callback is removed when it has returned, in a critical
\* section of its own, unless it was removed meanwhile.
ErrorReturns ==
    /\ ~overrun /\ phase = "error" /\ calling # None
    /\ IF calling \in Registered
       THEN \E idx \in 0 .. Size - 1 : callbacks[idx + 1].token = calling /\ Erase(idx)
       ELSE UNCHANGED <<index, count, callbacks, haveCbs, miscounted>>
    /\ calling' = None
    /\ UNCHANGED <<overrun, phase, told, announced, notified, Others>>

ErrorGoesOn ==
    /\ ~overrun /\ phase = "error" /\ calling = None
    /\ Turn(callbacks, "error", Plus1(index), count, "idle")
    /\ UNCHANGED <<count, haveCbs, notified, miscounted, Others>>

Deliver ==
    \/ Package
    \/ \E round \in {"before", "after", "available"} : BeginRound(round)
    \/ BeginError \/ CallbackReturns \/ ErrorReturns \/ ErrorGoesOn

Next ==
    \/ AddCallback
    \/ \E idx \in 0 .. MaxTokens - 1 : RemoveCallback(idx)
    \/ Commit
    \/ \E wants \in BOOLEAN : Compute(wants)
    \/ RunFailed \/ PrepareHandover
    \/ Deliver

Spec == Init /\ [][Next]_vars

\* The threads run, a callback returns, and the Realm's run loop gets round to a
\* notification; nobody has to commit, add or remove anything.
FairSpec ==
    /\ Spec
    /\ WF_vars(\E wants \in BOOLEAN : Compute(wants)) /\ WF_vars(PrepareHandover)
    /\ WF_vars(RunFailed)
    /\ WF_vars(notified /\ (Package \/ BeginError))
    /\ WF_vars(phase # "idle" /\ Deliver)

-----------------------------------------------------------------------------
\* The loops never read past the end of m_callbacks, unless a callback that was
\* added after the changes were packaged is removed before the delivery is over
\* (remove_callback lowers m_callback_count for it, lines 210-214).
OverrunsOnlyIfMiscounted == overrun => miscounted

\* No change is lost or told twice between add_changes and the callback: what was
\* computed for a callback is what it was told, what is packaged for it and what
\* still accumulates, however it was added, packaged and removed around.
NothingLost ==
    ~miscounted => \A i \in 1 .. Size :
        LET c == callbacks[i] IN
        /\ owed[c.token] = told[c.token] \cup c.due \cup c.acc
        /\ told[c.token] \cap (c.due \cup c.acc) = {} /\ c.due \cap c.acc = {}

\* m_have_callbacks, by which the worker decides whether to compute changes at all, is
\* never stale, although add_callback does not set it inside a loop: a loop that is
\* under way still has a callback, or its cursor is back at npos.
FlagExact == haveCbs = (callbacks # <<>>)

\* When a delivery is over, nothing that was packaged is left undelivered, although
\* callbacks were added and removed inside both rounds.
RoundsComplete ==
    phase = "idle" /\ ~miscounted => \A i \in 1 .. Size : callbacks[i].due = {}

\* A callback that hears of changes after the Realm advanced was told of the same
\* ones before, in the same delivery.
AnnouncedFirst ==
    [][phase' = "after" /\ ~miscounted =>
         \A k \in Tokens : told'[k] \subseteq told[k] \cup announced[k]]_vars

\* A callback added outside the loop gets its initial call, or the error, without
\* another commit: adding it wakes the worker.
Settled(k) ==
    \/ k \notin Registered \/ miscounted \/ overrun
    \/ \E i \in 1 .. Size : callbacks[i].token = k /\ callbacks[i].initial
InitialCallMade ==
    \A k \in Tokens : (k \in Registered /\ k \notin quiet) ~> Settled(k)

=============================================================================
