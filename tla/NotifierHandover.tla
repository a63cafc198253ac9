-------------------------- MODULE NotifierHandover --------------------------
(***************************************************************************)
(* How changes get from a commit to the collection notifiers of a Realm:   *)
(* RealmCoordinator's notifier thread (run_async_notifiers) pulls the      *)
(* notifiers forward from version to version, and each Realm's thread      *)
(* waits for them, packages them and advances to their version             *)
(* (realm_coordinator.cpp 397-905, NotifierPackage, shared_realm.cpp       *)
(* begin_transaction, commit_transaction, notify and refresh).             *)
(*                                                                         *)
(* What happens under m_notifier_mutex is one step; the notifiers are run  *)
(* and the callbacks are called outside of it.  A notifier has at most one *)
(* callback here (the vector of them is CollectionCallbacks).  A change is *)
(* the version that brought it.  Other Realms of other processes only      *)
(* commit.                                                                 *)
(***************************************************************************)
EXTENDS Integers, FiniteSets

CONSTANTS
    Realms,       \* Realm instances of this process, each on a thread of its own
    Notifiers,    \* CollectionNotifiers
    RealmOf,      \* the Realm each notifier is created for
    Lists,        \* those that do not override prepare_to_deliver: lists and objects
    MaxVersion    \* bound: versions of the file

ASSUME RealmOfAssumption == RealmOf \in [Notifiers -> Realms] /\ Lists \subseteq Notifiers
ASSUME VersionAssumption == MaxVersion \in Nat \ {0}

VARIABLES
    latest,      \* newest version of the file
    writer,      \* the Realm that holds the write lock, or NoRealm
    \* RealmCoordinator
    old, new,    \* m_notifiers, m_new_notifiers
    pin,         \* version m_advancer_sg holds on to, 0 for none
    sg,          \* version of m_notifier_sg
    skipVersion, \* m_notifier_skip_version
    woken,       \* the notifier thread is to run
    \* run_async_notifiers: where it is, and its locals
    stage, target, skip, olds, news,
    change,      \* m_change of each notifier, computed but not handed over
    \* the notifiers
    alive,       \* m_realm is set (not unregistered)
    version,     \* m_sg_version, 0 before it is created
    hasRun,      \* m_has_run
    callback,    \* it has a callback
    skipNext,    \* skip_next of the callback
    acc, due,    \* accumulated_changes and changes_to_deliver of the callback
    \* the Realms' threads
    pc, read,    \* what the thread does; version of the read transaction
    goal,        \* what it packages notifiers for
    package,     \* the NotifierPackage's notifiers
    upTo,        \* the version it may advance to, 0 for the latest
    notified,    \* Realm::notify is due
    \* history
    told,        \* the changes a callback knows of since its initial call
    excused,     \* a write was begun inside a callback, or cancelled after a callback was
                 \* suppressed for it, a skip version overwritten, or a dead notifier
                 \* packaged
    muted,       \* callbacks suppressed for the write that is open
    raced        \* the notifiers ran between the suppressing of a callback and the
                 \* end of its commit

file     == <<latest, writer>>
lists    == <<old, new, pin, sg, skipVersion>>
run      == <<stage, target, skip, olds, news, change>>
notifier == <<alive, version, hasRun>>
cbs      == <<callback, skipNext, acc, due, told>>
threads  == <<pc, read, goal, package, upTo>>
history  == <<excused, muted, raced>>
vars == <<file, lists, woken, run, notifier, cbs, threads, notified, history>>

NoRealm == "no Realm"
ASSUME NoRealmAssumption == NoRealm \notin Realms

Versions == 1 .. MaxVersion
Upto(a, b) == (a + 1) .. b     \* the changes between two versions

TypeOK ==
    /\ latest \in Versions /\ writer \in Realms \cup {NoRealm}
    /\ old \subseteq Notifiers /\ new \subseteq Notifiers
    /\ pin \in 0 .. latest /\ sg \in 0 .. latest /\ skipVersion \in 0 .. latest
    /\ woken \in BOOLEAN /\ stage \in {"idle", "skip", "rest", "failed"}
    /\ target \in 0 .. latest /\ skip \in 0 .. latest
    /\ olds \subseteq Notifiers /\ news \subseteq Notifiers
    /\ change \in [Notifiers -> SUBSET Versions]
    /\ alive \in [Notifiers -> BOOLEAN] /\ version \in [Notifiers -> 0 .. latest]
    /\ hasRun \in [Notifiers -> BOOLEAN] /\ callback \in [Notifiers -> BOOLEAN]
    /\ skipNext \in [Notifiers -> BOOLEAN]
    /\ acc \in [Notifiers -> SUBSET Versions] /\ due \in [Notifiers -> SUBSET Versions]
    /\ pc \in [Realms -> {"idle", "wait", "packaged", "notifying", "write"}]
    /\ read \in [Realms -> 1 .. latest]
    /\ goal \in [Realms -> {"refresh", "ready", "here", "write"}]
    /\ package \in [Realms -> SUBSET Notifiers] /\ upTo \in [Realms -> 0 .. latest]
    /\ notified \in [Realms -> BOOLEAN]
    /\ told \in [Notifiers -> SUBSET Versions]
    /\ excused \in BOOLEAN /\ muted \subseteq Notifiers /\ raced \in BOOLEAN

Init ==
    /\ latest = 1 /\ writer = NoRealm
    /\ old = {} /\ new = {} /\ pin = 0 /\ sg = 0 /\ skipVersion = 0
    /\ woken = FALSE /\ stage = "idle" /\ target = 0 /\ skip = 0 /\ olds = {} /\ news = {}
    /\ change = [n \in Notifiers |-> {}] /\ acc = change /\ due = change
    /\ told = change
    /\ alive = [n \in Notifiers |-> FALSE] /\ hasRun = alive /\ callback = alive
    /\ skipNext = alive
    /\ version = [n \in Notifiers |-> 0]
    /\ pc = [r \in Realms |-> "idle"] /\ read = [r \in Realms |-> 1]
    /\ goal = [r \in Realms |-> "here"] /\ package = [r \in Realms |-> {}]
    /\ upTo = [r \in Realms |-> 0] /\ notified = [r \in Realms |-> FALSE]
    /\ excused = FALSE /\ muted = {} /\ raced = FALSE

-----------------------------------------------------------------------------
\* The application: notifiers and callbacks come and go.

InUse(r) == pc[r] \in {"idle", "notifying"}

\* pin_version, under the mutex
Pinned_Last(v) == v
Pinned(v) == IF new = {} \/ v < pin THEN v ELSE pin

\* The constructor of a notifier, and register_notifier.
Register(n) ==
    /\ InUse(RealmOf[n]) /\ version[n] = 0
    /\ version' = [version EXCEPT ![n] = read[RealmOf[n]]]
    /\ alive' = [alive EXCEPT ![n] = TRUE]
    /\ pin' = Pinned(read[RealmOf[n]])
    /\ new' = new \cup {n}
    /\ UNCHANGED <<file, old, sg, skipVersion, woken, run, hasRun, cbs, threads, notified, history>>

\* wake_up_notifier_worker, and the wake-up after a commit
WakeUp_Lost == UNCHANGED woken
WakeUp == woken' = TRUE

\* add_callback wakes the worker
AddCallback(n) ==
    /\ InUse(RealmOf[n]) /\ alive[n] /\ ~callback[n]
    /\ callback' = [callback EXCEPT ![n] = TRUE]
    /\ WakeUp
    /\ UNCHANGED <<file, lists, run, notifier, skipNext, acc, due, told, threads, notified,
                   history>>

\* remove_callback, from any thread: what belongs to the callback goes with it
RemoveCallback(n) ==
    /\ callback[n]
    /\ callback' = [callback EXCEPT ![n] = FALSE]
    /\ skipNext' = [skipNext EXCEPT ![n] = FALSE]
    /\ acc' = [acc EXCEPT ![n] = {}] /\ due' = [due EXCEPT ![n] = {}]
    /\ told' = [told EXCEPT ![n] = {}]
    /\ muted' = muted \ {n}
    /\ UNCHANGED <<file, lists, woken, run, notifier, threads, notified, excused, raced>>

\* The collection goes away, on any thread (its callbacks hold on to it).
Unregister(n) ==
    /\ alive[n] /\ ~callback[n]
    /\ alive' = [alive EXCEPT ![n] = FALSE]
    /\ UNCHANGED <<file, lists, woken, run, version, hasRun, cbs, threads, notified, history>>

-----------------------------------------------------------------------------
\* The notifier thread.

Living(S) == {n \in S : alive[n]}

\* clean_up_dead_notifiers; the version to skip goes when nobody is left
SkipKept_Always == skipVersion
SkipKept == IF old # {} /\ Living(old) = {} THEN 0 ELSE skipVersion

\* run_async_notifiers up to where it releases the mutex: it takes the new
\* notifiers to the latest version and picks the version for all others.
StartRun ==
    /\ stage = "idle" /\ woken
    /\ woken' = FALSE
    /\ LET o == Living(old)
           n == Living(new) IN
       /\ new' = {} /\ old' = o \cup n /\ pin' = 0
       /\ IF o \cup n = {}
          THEN /\ sg' = 0 /\ skipVersion' = 0
               /\ notified' = [r \in Realms |-> TRUE]
               /\ UNCHANGED run
          ELSE LET s == SkipKept IN
               /\ skip' = s /\ skipVersion' = 0
               /\ target' = latest
               /\ olds' = o /\ news' = n
               /\ sg' = IF o = {} THEN latest ELSE sg
               /\ stage' = IF s = 0 THEN "rest" ELSE IF o = {} THEN "failed" ELSE "skip"
               /\ change' = [m \in Notifiers |->
                               CASE m \in n -> Upto(version[m], latest)
                                 [] m \in o -> Upto(sg, IF s = 0 THEN latest ELSE s)
                                 [] OTHER   -> {}]
               /\ UNCHANGED notified
    /\ UNCHANGED <<file, notifier, cbs, threads, history>>

\* prepare_handover with add_changes, for a set of notifiers
HandOver_NoSkip(S, v) ==
    /\ version' = [n \in Notifiers |-> IF n \in S THEN v ELSE version[n]]
    /\ hasRun' = [n \in Notifiers |-> hasRun[n] \/ n \in S]
    /\ acc' = [n \in Notifiers |->
                 IF n \in S /\ callback[n] THEN acc[n] \cup change[n] ELSE acc[n]]
    /\ skipNext' = [n \in Notifiers |-> skipNext[n] /\ n \notin S]

Observed(S) == {n \in S : callback[n]}
HandOver_Observed(S, v) ==
    /\ version' = [n \in Notifiers |-> IF n \in Observed(S) THEN v ELSE version[n]]
    /\ hasRun' = [n \in Notifiers |-> hasRun[n] \/ n \in S]
    /\ acc' = [n \in Notifiers |->
                 IF n \in S /\ callback[n] /\ ~skipNext[n] THEN acc[n] \cup change[n] ELSE acc[n]]
    /\ skipNext' = [n \in Notifiers |-> skipNext[n] /\ n \notin S]

HandOver(S, v) ==
    /\ version' = [n \in Notifiers |-> IF n \in S THEN v ELSE version[n]]
    /\ hasRun' = [n \in Notifiers |-> hasRun[n] \/ n \in S]
    /\ acc' = [n \in Notifiers |->
                 IF n \in S /\ callback[n] /\ ~skipNext[n] THEN acc[n] \cup change[n] ELSE acc[n]]
    /\ skipNext' = [n \in Notifiers |-> skipNext[n] /\ n \notin S]

\* The first part of a run that has a version to skip: the notifiers are handed
\* over at exactly that version.
FinishSkip ==
    /\ stage = "skip"
    /\ HandOver(olds, skip)
    /\ sg' = skip
    /\ change' = [n \in Notifiers |-> IF n \in olds THEN Upto(skip, target) ELSE change[n]]
    /\ stage' = "rest"
    /\ UNCHANGED <<file, old, new, pin, skipVersion, woken, target, skip, olds, news, alive,
                   callback, due, told, threads, notified, history>>

\* The end of the run; afterwards on_change notifies the Realms.
FinishRun ==
    /\ stage = "rest"
    /\ HandOver(olds \cup news, target)
    /\ stage' = "idle" /\ target' = 0 /\ skip' = 0 /\ olds' = {} /\ news' = {}
    /\ change' = [n \in Notifiers |-> {}]
    /\ old' = Living(old) /\ new' = Living(new) /\ skipVersion' = SkipKept
    /\ pin' = IF new' = {} THEN 0 ELSE pin
    /\ sg' = IF old' = {} THEN 0 ELSE target
    /\ notified' = [r \in Realms |-> TRUE]
    /\ UNCHANGED <<file, woken, alive, callback, due, told, threads, history>>

-----------------------------------------------------------------------------
\* The Realms' threads.

ForRealm(r) == {n \in old \cup new : alive[n] /\ RealmOf[n] = r}

\* notifiers_for_realm, and the wait that advance_to_latest and promote_to_write
\* do in package_and_wait; promote_to_write holds the write lock meanwhile.
Refresh(r) ==
    /\ pc[r] = "idle"
    /\ goal' = [goal EXCEPT ![r] = "refresh"]
    /\ UNCHANGED writer

BeginTransaction(r) ==
    /\ pc[r] = "idle" /\ writer = NoRealm
    /\ goal' = [goal EXCEPT ![r] = "write"]
    /\ writer' = r

StartWait(r) ==
    /\ Refresh(r) \/ BeginTransaction(r)
    /\ pc' = [pc EXCEPT ![r] = "wait"]
    /\ package' = [package EXCEPT ![r] = ForRealm(r)]
    /\ upTo' = [upTo EXCEPT ![r] = latest]
    /\ UNCHANGED <<latest, lists, woken, run, notifier, cbs, read, notified, history>>

Ready_Once(n, v) == ~callback[n] \/ hasRun[n]
Ready(n, v) == ~callback[n] \/ (hasRun[n] /\ version[n] >= v)

\* package_for_delivery of those that have run; the version is that of one of them
Take(r, S) ==
    /\ due' = [n \in Notifiers |-> IF n \in S THEN acc[n] ELSE due[n]]
    /\ acc' = [n \in Notifiers |-> IF n \in S THEN {} ELSE acc[n]]
    /\ pc' = [pc EXCEPT ![r] = "packaged"]
    /\ excused' = (excused \/ \E n \in S : ~alive[n])
    /\ UNCHANGED <<file, lists, woken, run, notifier, callback, skipNext, told, read, muted,
                   raced>>

Runnable(S) == {n \in S : hasRun[n] /\ (alive[n] \/ n \in Lists)}
VersionOf(S, v) == IF S = {} THEN v = 0 ELSE v \in {version[n] : n \in S}

PackageAndWait(r) ==
    /\ pc[r] = "wait" /\ \A n \in package[r] : Ready(n, upTo[r])
    /\ \E v \in 0 .. latest :
         /\ VersionOf(Runnable(package[r]), v)
         /\ LET tooOld == v < upTo[r] IN
            /\ package' = [package EXCEPT ![r] = IF tooOld THEN {} ELSE Runnable(@)]
            /\ upTo' = [upTo EXCEPT ![r] = IF tooOld \/ goal[r] = "write" THEN 0 ELSE v]
    /\ Take(r, Runnable(package[r]))
    /\ UNCHANGED <<goal, notified>>

\* The version of late notifications is discarded.
Late_Never(r, v) == FALSE
Late(r, v) == v # 0 /\ v < read[r]

\* Realm::notify.  When the Realm is at the latest version what is available at
\* that version is delivered (process_available_async), otherwise it advances to
\* the version of the notifiers, which may be older (advance_to_ready).
Notify(r) ==
    /\ pc[r] = "idle" /\ notified[r]
    /\ notified' = [notified EXCEPT ![r] = FALSE]
    /\ LET at == {n \in Runnable(ForRealm(r)) : version[n] = read[r]}
           ready == Runnable(ForRealm(r)) IN
       \/ /\ read[r] = latest
          /\ goal' = [goal EXCEPT ![r] = "here"]
          /\ package' = [package EXCEPT ![r] = at]
          /\ Take(r, at) /\ UNCHANGED upTo
       \/ \E v \in 0 .. latest :
          /\ read[r] < latest /\ VersionOf(ready, v)
          /\ goal' = [goal EXCEPT ![r] = IF v = read[r] THEN "here" ELSE "ready"]
          /\ package' = [package EXCEPT ![r] = IF Late(r, v) THEN {} ELSE ready]
          /\ upTo' = [upTo EXCEPT ![r] = IF Late(r, v) THEN read[r] ELSE v]
          /\ Take(r, ready)

NotifyIgnored(r) ==
    /\ pc[r] = "write" /\ notified[r]
    /\ notified' = [notified EXCEPT ![r] = FALSE]
    /\ UNCHANGED <<file, lists, woken, run, notifier, cbs, threads, history>>

\* Where advance_read takes the Realm: without a version, to the latest one
AdvancesTo(r) == IF goal[r] = "here" THEN read[r]
                 ELSE IF upTo[r] = 0 THEN latest ELSE upTo[r]

\* advance_read and the calls of the callbacks; in a write transaction the
\* callbacks are called too.
Deliver(r) ==
    /\ pc[r] = "packaged"
    /\ read' = [read EXCEPT ![r] = AdvancesTo(r)]
    /\ told' = [n \in Notifiers |->
                  IF n \notin package[r] \/ ~callback[n] THEN told[n]
                  ELSE IF told[n] = {} THEN 1 .. read'[r]   \* the initial call
                                       ELSE told[n] \cup due[n]]
    /\ due' = [n \in Notifiers |-> IF n \in package[r] THEN {} ELSE due[n]]
    /\ pc' = [pc EXCEPT ![r] = "notifying"]
    /\ UNCHANGED <<file, lists, woken, run, notifier, callback, skipNext, acc, goal, package,
                   upTo, notified, history>>

\* the NotifierPackage is gone
Forget(r) ==
    /\ package' = [package EXCEPT ![r] = {}] /\ upTo' = [upTo EXCEPT ![r] = 0]
    /\ goal' = [goal EXCEPT ![r] = "here"]

EndNotifying(r) ==
    /\ pc[r] = "notifying"
    /\ pc' = [pc EXCEPT ![r] = IF goal[r] = "write" THEN "write" ELSE "idle"]
    /\ Forget(r)
    /\ UNCHANGED <<file, lists, woken, run, notifier, cbs, read, notified, history>>

\* begin_transaction from inside a callback neither waits nor packages.
BeginInside(r) ==
    /\ pc[r] = "notifying" /\ goal[r] # "write" /\ writer = NoRealm
    /\ writer' = r /\ read' = [read EXCEPT ![r] = latest]
    /\ pc' = [pc EXCEPT ![r] = "write"] /\ Forget(r)
    /\ excused' = TRUE /\ UNCHANGED <<muted, raced>>
    /\ UNCHANGED <<latest, lists, woken, run, notifier, cbs, notified>>

\* suppress_next_notification, of a callback at a time; the notifier thread may run
\* between it and the commit.
Suppress(r, n) ==
    /\ pc[r] = "write" /\ callback[n] /\ RealmOf[n] = r
    /\ skipNext' = [skipNext EXCEPT ![n] = TRUE]
    /\ muted' = muted \cup {n}
    /\ UNCHANGED <<file, lists, woken, run, notifier, callback, acc, due, told, threads, notified,
                   excused, raced>>

\* commit_transaction: the skip version is set if a notifier of this Realm is in the
\* main list.  Whoever suppressed a callback knows of the change.
Commit(r) ==
    /\ pc[r] = "write" /\ latest < MaxVersion
    /\ latest' = latest + 1 /\ writer' = NoRealm
    /\ read' = [read EXCEPT ![r] = latest']
    /\ LET mine == \E n \in old : alive[n] /\ RealmOf[n] = r IN
       /\ skipVersion' = IF mine THEN latest' ELSE skipVersion
       /\ excused' = (excused \/ (mine /\ skipVersion # 0))
    /\ told' = [n \in Notifiers |->
                  IF n \in muted /\ told[n] # {} THEN told[n] \cup {latest'} ELSE told[n]]
    /\ raced' = (raced \/ \E n \in muted : stage # "idle" \/ ~skipNext[n])
    /\ muted' = {}
    /\ pc' = [pc EXCEPT ![r] = "idle"]
    /\ WakeUp
    /\ UNCHANGED <<old, new, pin, sg, run, notifier, callback, skipNext, acc, due, goal, package,
                   upTo, notified>>

\* A callback that was suppressed before the commit failed stays so.
Cancel(r) ==
    /\ pc[r] = "write"
    /\ pc' = [pc EXCEPT ![r] = "idle"] /\ writer' = NoRealm
    /\ excused' = (excused \/ muted # {}) /\ muted' = {}
    /\ UNCHANGED <<latest, lists, woken, run, notifier, cbs, read, goal, package, upTo, notified,
                   raced>>

\* A Realm of another process, or one without notifiers.
CommitElsewhere ==
    /\ writer = NoRealm /\ latest < MaxVersion
    /\ latest' = latest + 1 /\ WakeUp
    /\ UNCHANGED <<writer, lists, run, notifier, cbs, threads, notified, history>>

Worker == StartRun \/ FinishSkip \/ FinishRun
RealmStep(r) == StartWait(r) \/ PackageAndWait(r) \/ Notify(r) \/ NotifyIgnored(r)
                    \/ Deliver(r) \/ EndNotifying(r) \/ BeginInside(r) \/ Cancel(r)
                    \/ Commit(r) \/ \E n \in Notifiers : Suppress(r, n)
User(n) == Register(n) \/ AddCallback(n) \/ RemoveCallback(n) \/ Unregister(n)

Next ==
    \/ \E n \in Notifiers : User(n)
    \/ Worker
    \/ \E r \in Realms : RealmStep(r)
    \/ CommitElsewhere

Spec == Init /\ [][Next]_vars

-----------------------------------------------------------------------------
\* All notifiers that have run are at one version, the one a NotifierPackage takes from
\* whichever of them it packages last, also between the two halves of a run that has a
\* version to skip, and after new notifiers were merged in.
RunTogether ==
    \A m, n \in old : hasRun[m] /\ hasRun[n] => version[m] = version[n]

\* While notifiers wait for their first run, m_advancer_sg pins a version that is not
\* newer than any of theirs, and it pins none otherwise: whatever was registered out of
\* order, and died before it ran.
PinCoversNew ==
    IF new = {} THEN pin = 0 ELSE pin # 0 /\ \A n \in new : pin <= version[n]

\* The assertions of run_async_notifiers on the version to skip hold (708, 709), although
\* it was chosen by a commit and the notifiers have come and gone since.
NoFailedAssertion == stage # "failed" /\ (stage # "idle" => target >= skip)

\* A thread never waits in package_and_wait for a notifier that will not run: each one it
\* waits for is part of the run that is under way, or the notifier thread was woken.
NoLostWakeUp ==
    \A r \in Realms : pc[r] = "wait" => \A n \in package[r] :
        \/ Ready(n, upTo[r])
        \/ stage # "idle" /\ n \in olds \cup news /\ target >= upTo[r]
        \/ woken /\ alive[n] /\ n \in old \cup new

\* No Realm goes back to an older version, although notifications may be late.
NeverBack == [][\A r \in Realms : read'[r] >= read[r]]_vars

Called(r) == pc[r] = "packaged" /\ pc'[r] = "notifying"

\* The change sets a callback is called with lead exactly to the version its Realm is at:
\* none is missed, and none is ahead of what the Realm shows.
ToldMatchesView ==
    [][~excused => \A r \in Realms : Called(r) =>
         \A n \in Notifiers : RealmOf[n] = r /\ told[n] # {} =>
             \/ n \notin package[r] /\ read'[r] = read[r]
             \/ told'[n] = 1 .. read'[r]]_vars

Repeats(r) == Called(r) /\ \E n \in package[r] : callback[n] /\ due[n] \cap told[n] # {}

\* No change is delivered twice, nor one that was committed with the callback
\* suppressed, unless the notifiers ran at some time between the call that suppressed
\* the callback and the end of the commit.
NeverRepeated == [][~excused /\ ~raced => \A r \in Realms : ~Repeats(r)]_vars

\* RLMRealm.h: the tokens are those "which you do not want to be notified for the changes
\* made in this write transaction".  Refuted: a run
\* that is under way when a callback is suppressed, or the second half of one with a
\* version to skip, clears the flag, and the next run tells the callback of the write.
SuppressedNotTold == [][~excused => \A r \in Realms : ~Repeats(r)]_vars
=============================================================================
