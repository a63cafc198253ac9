# Verification of MockApp's sync and storage code

This directory holds TLA+ models of the concurrent core of the repository, the TLC
configurations that check them and the proofs about them. `PROJECT.json` lists the
components, the runs, the hazards and the theorems, and maps every definition to
the source lines it stands for.

Paths below are relative to `src/MockApp`; `OS/` is
`Pods/Realm/Realm/ObjectStore/src/`, `RLM/` is `Pods/Realm/Realm/`.

## 1. What the repository contains

The application itself (`MockApp/`) is a tab bar with four empty screens. It keeps no
state, and nothing in it runs concurrently. The program logic is in the libraries
committed with it under `Pods/`, above all the Realm object store: C++ classes whose
objects are called by application threads, by a notifier thread and by the event loop
of a sync client, all at once. That is where this project looks.

| Component | State | Operations | Talks to |
|---|---|---|---|
| `SyncSession` (`OS/sync/sync_session.cpp`) | one of four states, the `sync::Session`, queued completion handlers, deferred commit and close, death count | revive, token refresh, log out, close, wait for completion, commit notification, error handling | binding (bind handler), sync client, `SyncManager` |
| its `ConnectionChangeNotifier` | vector of callbacks, cursor and bound of the loop over it | add, remove, invoke | callbacks, which may call back |
| its `SyncProgressNotifier` | current progress, registered notifiers, local version | register, unregister, update, set local version | sync client, application blocks |
| `SyncManager` (`sync_manager.cpp`) | sessions and users by path and identity, metadata, files | get and unregister session, configure, run file actions, reset | `SyncUser`, `SyncSession`, metadata Realm |
| `SyncUser` (`sync_user.cpp`) | state, token, active and waiting sessions | register session, log in and out | `SyncManager`, `SyncSession` |
| metadata and files (`sync/impl/sync_metadata.cpp`, `sync_file.cpp`) | users marked for removal, pending file actions | create, perform, remove | the file system |
| token refresh (`RLM/RLMSyncSessionRefreshHandle.mm`, `RLMSyncUser.mm`) | one handle per user and path, with timer and request | register, fire, answer, invalidate | auth server, `SyncSession` |
| `RealmCoordinator` (`OS/impl/realm_coordinator.cpp`) | notifiers old and new, pinned version, skip version | register, run, hand over, commit, advance | Realm instances, notifier thread |
| `CollectionNotifier` (`OS/impl/collection_notifier.cpp`) | callbacks, their accumulated and packaged changes, cursor and bound | add, remove, package, call | coordinator, callbacks |
| `IndexSet`, `CollectionChangeBuilder`, list and results notifiers | sets of indices, moves | record, merge, compare | transaction log |
| `Realm` (`OS/shared_realm.cpp`) | read or write transaction, schema | begin, commit, cancel, notify, close | coordinator, binding callbacks |
| `WorkQueue`, partial sync | task queue, thread that ends when idle | enqueue, destroy | worker Realm |
| `ExternalCommitHelper` | pipe, kqueue thread | notify, listen | other processes |
| Alamofire (`Pods/Alamofire/Source`) | requests, tasks, retries | resume, cancel, retry | URL loading system |
| bindings, R.swift, schema, resources | little of their own | conversions | |
| realm-core, realm-sync | headers only | external | |

The hard behaviours:

* **Mutexes released around calls out.** `handle_error` asks the state, releases the
  mutex, and acts on the answer; `Inactive::enter_state` releases it before it calls the
  handlers; all three notifiers release it around the callbacks.
* **Late callbacks.** The sync client calls back after the object it calls about was
  destroyed, revived, or has begun to die a second time; a token is answered after its
  handle was replaced.
* **Reference counts as protocol.** The last external reference closes a session, in a
  destructor that may run on any thread and inside any call.
* **Two mutexes, three classes.** `SyncManager`, `SyncUser` and `SyncSession` call each
  other under their locks.
* **Crashes** between the steps of a file action, of a log in or of a log out.
* **A pipeline of versions.** A commit reaches a callback through a notifier thread that
  works unlocked, a package, and an advance of the Realm's thread, each at a version of
  its own.
* **Indices that mean something else at each version**, in change sets that are merged.

## 2. What is modelled

| Module | Models | Proofs in |
|---|---|---|
| `SyncSession` (with `MCSyncSession`) | one session: state machine, handlers, uploads, errors | `SyncSession_proofs` |
| `CompletionPromise`, `SessionStates` | abstract specifications that `SyncSession` implements | `SyncSession_proofs` |
| `ConnectionChangeNotifier` | the callback vector and the loops over it | `SyncSession_proofs` |
| `SyncProgressNotifier` | progress notifiers, the client's scan and transfers | `SyncProgressNotifier_proofs` |
| `SessionRegistry` | who keeps a session alive: manager entry, references, user's maps, two mutexes | `SyncManager_proofs` |
| `TokenRefresh` | refresh handles, requests, timers, log out and in | `TokenRefresh_proofs` |
| `SyncMetadata` (with `MCSyncMetadata`) | file actions and users on disk, crashes and launches | `SyncManager_proofs` |
| `CollectionCallbacks` | the callbacks of one collection notifier | `CollectionCallbacks_proofs` |
| `NotifierHandover` (with `MCNotifierHandover`) | notifier thread, hand over, Realms that write, wait and are notified | `NotifierHandover_proofs` |
| `IndexSets`, `CollectionChangeBuilder` | operations on index sets and change sets | `CollectionChanges_proofs` |
| `CollectionChanges` (with `MCCollectionChanges`) | what a callback is told, from the log to the delivery | `CollectionChanges_proofs`, `CollectionTables_proofs` |

How they fit together. `SyncSession` and `SessionRegistry` are two views of one system:
the first has the details of one session object and leaves its registration out; the
second has several objects for one path and reduces their states to live, closing (Dying,
or waiting with a deferred close) and inactive. `TokenRefresh` is the binding that
`SyncSession` calls and waits for. `CollectionCallbacks`, `NotifierHandover` and
`CollectionChanges` are three cuts through one pipeline: the vector of callbacks of one
notifier, the versions of several notifiers and Realms, and the content of the changes.
In the first two a change is the version that brought it.

### SyncSession

A critical section on `m_state_mutex` is one action. What the code does after it
unlocks is a later step of the same thread, told by `pc[t]`: call the bind handler,
write the disconnected state, call aborted handlers one by one, announce a commit, and
for the event loop the two halves of `handle_error`. So every interleaving the mutex
allows is explored. A failed `REALM_ASSERT` ends the process (`aborted`).

The sync client is external. It has callbacks on one event loop thread, from the
current `sync::Session` or one that is being terminated; waits that complete, or are
aborted when their session is gone; uploads of announced commits only, and none
with a refused token.

Left out: `override_server`, the multiplex identifier, the session's configuration other
than its stop policy, the metadata entry of a client reset (see `SyncMetadata`) and the
call of the application's error handler. The branch of `Dying::enter_state` without a
`sync::Session` has no caller that can take it. `m_session_has_been_bound` is
uninitialised at first, so `Init` takes either value.

Properties: `HandlersAccounted` and `HandlersReachable` (every accepted completion
handler is in exactly one of queue, a thread's local, client and called, is called at
most once, and is never where nobody will call it); `AskedForToken`; `ClientContract`;
`ClosesAfterUpload` (the upload completion that closes a Dying session is never one of an
earlier death, which is what `m_death_count` is for); `DyingEnds` and
`AbortedHandlersCalled` under fairness.

Two abstract specifications. `CompletionPromise` has handlers that are accepted and then
called at most once, and nothing else; `PromiseKept` says that the session implements it,
with the numbers of calls as the refinement mapping. `SessionStates` is the state
machine drawn in `sync_session.cpp:41-82`, with the `sync::Session` a state owns;
`DocumentedStates` says that the session implements it.

### ConnectionChangeNotifier

Callbacks are tokens; one action per add, remove, begin of a loop, and return from a
callback. Cursor and bound are members shared by all loops, and both are `size_t`, so
`++` and `--` wrap at `SizeT`. Reading past the end of the vector is undefined
behaviour: the model records it in `overrun` and the loop goes no further.
`OverrunsOnlyForNewcomers` says the only way there is to remove, during a loop, a
callback that was added during it. `EachCalledOnce` says that a loop that runs alone
calls each callback once. With two loops at once this does not hold, as they share the
cursor; nothing in the code says it would.

### SyncProgressNotifier

What happens under `m_mutex` is one action; calls of notifiers are prepared into
`outbox[t]` and made later in any order. A commit is worth zero or one byte. The
client scans commits in order, and its numbers only grow. A commit is announced outside
of the write lock, with the version that is the latest by then. `UploadsCovered` is the
purpose of the class: a notifier for outstanding uploads that is told "all
transferred" was told so after the commits up to the one it took for the last were
uploaded, even if the client had not scanned them at registration. `expected` records
the newest version announced before each registration: it is covered too, unless the
announcements had crossed (`overtaken`; section 5).
`CompletionReportedOnce` and `OutstandingWorkEnds` say that it hears this once, and some
time; `TotalKept`, that its total never changes, is proved.

### SessionRegistry

One path, one user, at most one reference per thread. A thread's stack is `pc`, the
session it works on, and what follows `Inactive::enter_state`. The manager's mutex
(across `get_session`, and `unregister_session` while its temporary reference lives) and
the user's (across `log_out`) are variables, since calls into other classes are made
under them. `m_state_mutex` is only held inside a step. Weak pointers can be locked
while the manager's entry, a reference or a thread's local keeps the object.

`OneSessionPerPath`: two `sync::Session`s never work on one file.
`ReferencedIsRegistered`: whoever opens a Realm that is in use gets the session in use.
`UnregisterFindsEntry` (proved): the assertion in `unregister_session` holds. All three
are stated up to the first *stray* revival: a session revived between becoming Inactive
and its `unregister_session`, or when neither registered nor referenced. The code has no
guard against those, and `stray` records them exactly.

### TokenRefresh

A session is revived, and its bind handler run, by a thread that let go of the user's
mutex before (`reviving`) and does not look at the user again; an answer is handled on a
thread of `NSURLSession`, timers fire on the main queue, and the application logs its user
out and in; only the mutex of the handle registry orders them. `stage[h]` is what a handle is at
(requesting, handling an answer, timed, with a block on the main queue, ...), and it
exists only while something holds it. Answers are a token, an error of the network
(retried), an invalid token, another error, something that cannot be parsed, or none.

`Served`: a session that needs a token always has a handle at work on it, whether its
user is logged in or not. `OneRefresher`: only the registered handle has a timer running.
`TokenArrives`: a waiting session gets its token, under fairness. `excused` and `detached`
record exactly the ways out the code leaves open (section 5): `detached` are the handles
that left the registry while they handled an answer or had a block queued, or that were
erased, with their timer running, at the end of another handle.

### SyncMetadata

Each transaction of the metadata Realm and each check or operation on a file is a step of
its own; `Crash` may come between any two of them and leaves only the variables on disk.
Then `Configure` and the steps after it run the launch: pending actions, users to be erased,
users to be loaded. The content of a Realm file is the number of its creation, so that a
Realm opened anew at a path differs from the one that failed there.

`runs` are the calls of `run_file_action` under way: one at a time in `configure`, one for
each thread of the application in `immediately_run_file_actions`, which takes no lock. A
run reads the action (`ReadAction`), looks whether there is an original and the name of the
copy is free (`RunBackUp`), opens the original (`OpenOriginal`), creates the copy or writes
over what is there by now (`CreateCopy`), writes it (`Copied`), deletes the original
(`DeleteOriginal`, or `RunDelete` without a copy) and removes a row (`ForgetNow`); each of
these can fail, and errors, other runs and new Realms come in between. When another thread
has removed the row a run holds, its accessor keeps the index (`attached` is FALSE), and
whatever row has that index by then is removed in its place, or `LogicError` is thrown.

`NeverLost`: a Realm of which a copy was asked for is at its place or completely copied,
wherever the process died and however runs interleave. `DeletesOnlyFailed`,
`ForgottenOnlyWhenDone`: file actions delete only failed Realms and are forgotten only when
carried out. These three are stated up to what the missing lock lets happen (section 5):
`crossed` are the files deleted by a run whose action was recorded no more, and those whose
copy a second run wrote over; `reopened` are the files created while the action of the path
was spent or a run of it under way. `ActiveRemembered`,
`LoggedOutForgotten`, `ErasedOnlyLoggedOut`: who is logged in is remembered, who logged
out is not, and only a logged out user's directory is erased.

Recovery names are unique (they are reserved with `mkstemp`). Encryption and reset
of the metadata Realm, its schema and the client's identifier are left out.

### CollectionCallbacks

`callbacks` is `m_callbacks` with the flags and the two change sets of each; `index` and
`count` are the shared cursor and bound, which wrap at `SizeT`. The worker computes a
change and hands it to every callback; the Realm's thread packages and calls them in two
rounds, releasing the mutex around each call, so that callbacks are added and removed in
between, from inside them or from other threads.

`NothingLost`: what was computed for a callback is what it was told, what is packaged and
what accumulates, and these are disjoint. `RoundsComplete`: nothing packaged is left when
a delivery is over. `FlagExact`: `m_have_callbacks` is never stale. `InitialCallMade`: a
callback gets its initial call without another commit. `AnnouncedFirst` (proved): `after`
tells of nothing that `before` did not. `OverrunsOnlyIfMiscounted` and the others are
stated up to `miscounted`: a removal lowered the bound for a callback it does not cover.

### NotifierHandover

What happens under `m_notifier_mutex` is one step. `run_async_notifiers` is three: take
the lists and the version to skip to, hand over the skipped changes, hand over the rest;
in between, other threads register, package and drop notifiers, and Realms commit. The
Realms' threads refresh, begin writes (also inside a notification), suppress callbacks,
commit, cancel, wait in `package_and_wait` and are notified late. Suppressing a callback
and committing are two critical sections, of different mutexes, and the notifier thread
may run in between; `muted` records who was suppressed for the write that is open.

`RunTogether`, `PinCoversNew`, `NoFailedAssertion`, `NoLostWakeUp` and `NeverBack` are the
invariants the coordinator lives by: one version for all notifiers that ran, a pinned
version for those that did not, its own assertions, a run for everyone who waits for one,
and a Realm that never goes back. `ToldMatchesView` ties both ends of the pipeline: what a
callback was told leads exactly to the version its Realm shows when it is called.
`NeverRepeated`: no change is told twice or although it was suppressed. `excused` and
`raced` record the cases in which the code does otherwise (section 5): `raced` that the
notifiers ran at some time between the suppressing call and the end of its commit.

A Realm here is always in a read transaction and refreshes itself; a notifier has one
callback; `StartWait` merges `notifiers_for_realm` and the reading of the target version,
which nothing can tell apart because the writer's own commit comes before both.

### IndexSets, CollectionChangeBuilder, CollectionChanges

An index set is a set of numbers; the operations are what `index_set.cpp` does to it,
without the chunks of ranges it is stored in. A change set is a record of deletions (old
indices), insertions and modifications (new indices), moves, and the move mapping of a
table. `CollectionChanges` is the state machine around them: a collection is a list, or
the rows of a table that match a query, in the table's order or sorted; instructions of
the log change it and the builder together; a run of the notifier takes the changes from
the log (a list) or compares two lists of rows (results); `Merge` adds them to what is not
delivered; and the log may be read in pieces when notifiers of several versions run
together.

`Applies`: taking the reported deletions out of the collection the callback knows and
putting the insertions in gives the collection of the last run, element by element.
`MovesAreTrue`: a reported move is one of a single element. `ModificationsAreTrue`: the
reported modifications, in old and in new indices, are exactly the elements modified since
the last call, of those not reported as inserted. None of the three mentions how the sets
are computed.

Left out: the sets of each column (they are treated as modifications are), inserting
several rows at once (the same as one after the other), subtables, primitive lists, and
links from other tables that count as modifications (`ModifyObject` stands for whatever
`get_modification_checker` finds in a list). One list is observed: that the log's handler
keeps the row of the owner of each of several lists up to date, in `find_list` and in the
loop of `erase_rows` that drops a deleted list by swapping the last one into its place and
does not look at that one again (`transact_log_handler.cpp:572-584`), is not modelled.

## 3. Runs

| Run | Instance | Shows |
|---|---|---|
| `session_handlers` | 2 threads + event loop, 1 handler, all stop policies, every kind of error, 2 `sync::Session`s | no handler lost, doubled or stranded; token asked for; client contract; promise and documented states implemented |
| `session_uploads` | 1 thread + event loop, 1 handler, 1 commit, 2 deaths, token loss and fatal error | no close by an earlier death; Dying ends; aborted handlers are called |
| `notifier` | 2 loops, 3 callbacks, 8-value `size_t` | overruns, repetitions, omissions |
| `progress` | 2 threads, 1 notifier of any kind, 2 commits, 1 byte to download | coverage, one completion, termination |
| `registry` | 2 threads + event loop, 3 session objects, every stop policy | one session per path |
| `tokens` | 2 handles, 2 session objects, 2 revivers at a time, 2 log outs | a waiting session is served, by one handle, and gets its token |
| `metadata` | 1 user, 2 Realms, 2 threads that run actions, 2 files, 2 errors, 2 crashes | nothing lost, nothing deleted or remembered wrongly |
| `callbacks` | 3 callbacks, 2 commits, 5-value `size_t` | nothing lost or repeated, initial calls made |
| `handover` | 1 Realm, 2 notifiers (one of a list), 3 versions | one version, no lost wake-up, never back, told what is seen |
| `changes` | list: 3 elements and 5 steps; unsorted results: 3 rows and 4 steps; sorted: 3 rows and 3 steps; 5 elements ever | change sets are right |
| `docs_deadlock`, `docs_handover` | as `registry` with 2 objects; as `handover` | two of the disagreements of section 5 |

Why the bounds are enough. Two application threads and the event loop are the least with
which a step of one can fall between two steps of another while a third is in the middle
of its own. A second death or `sync::Session` is what "an earlier one" needs; handlers
are independent of each other, so one shows what can happen to it, next to a queue
that is moved as a whole. Three callbacks give one before, at and after the cursor.
Two commits can be announced in the wrong order. A third session object is the
successor of a successor. A second refresh handle is the one that replaces the first. A
second crash may fall into the clean-up after the first, and a second error into the
action of the first. Three versions are one to start from, one to skip and one to be told.
Three elements and one to insert give every position relative to a deletion, an insertion
and a move; the last step of a sequence is always left for a run of the notifier, so that
the instructions before it are not wasted. (Instances with 5 rows and 4 steps, and with 4
rows, 2 new ones and 5 steps, found nothing beyond what section 5 lists. What is said there
of two `merge_rows` takes 7 elements, 3 of them in the results: an attempt at a proof found
it, not TLC.) The bounds are guards of the
counters and appear in the `CONSTANTS` with the word "bound"; `SYMMETRY` is used in
two safety runs only, over threads, and over Realms and the threads that run actions. The
proofs have no bounds on the size of anything.

Type invariants are not among the runs' invariants: they are proved.

Deadlock is checked for the session and the callback vector of connection changes. It is
off where the model may stop: `registry` (the lock cycle of section 5 is reachable), and
where the bounds run out with everything delivered, transferred or carried out.

Fairness. Weak for a thread inside a call and for the event loop's error handling,
because threads are scheduled and the event loop runs as long as the process. Weak for
uploads, the scan and the transfers of the client, because a connected client gets on
with its work; a session whose token was refused is excepted. Strong for the completion
of an upload wait, because the client queues a completion and runs it when its event
loop is free next, whatever else it does in between. `CollectionCallbacks`: weak for the
worker and for a delivery under way or due, because the notifier thread runs and run
loops get round to their sources. `TokenRefresh`: weak for threads, the main queue and its
timers, strong for an answer with a token, because the network does not fail for ever.
Nothing the application may or may not do is fair.

Every property has a mutant in `PROJECT.json`: a plausible slip in the code that makes it
fail under the same configuration.

## 4. Proofs

The theorems hold for any threads, handlers, notifiers, Realms, callbacks and counters.
They assume what the modules `ASSUME`: that the event loop is no application thread, that
bounds are naturals (`MaxElements` below the constant `NoRow`, which stands for the largest
index), that errors and policies have their types, that every Realm file and
every notifier has an owner, that a `size_t` can hold the number of callbacks, and that the
mark for a free mutex is no thread. Each module has its type theorem; the others:

* **SyncSession.** `ContractKept` comes from `SessionInv`: types, the client contract, and
  that identifiers of `sync::Session`s are fresh. `UploadsBeforeClose` needs `DeathInv`: a
  wait belongs to a session that was made, with a count no larger than the present one,
  and the wait of the present death belongs to the present `sync::Session` and aims at
  everything announced. `HandlersCorrect` and `HandlersNotStranded` are inductive only
  together (`HandlersInv`): that a thread outside the session holds no handlers is what
  lets it take the queue without losing any. `TokenAskedFor` is inductive on top of
  `SessionInv`. **Refinements:** `PromiseRefined` shows step by step, under `HandlersInv`,
  that each step of the session accepts a handler, calls one, or stutters;
  `DocumentedStatesRefined` that each is a transition of the documented diagram.
* **ConnectionChangeNotifier.** `OverrunsOnlyForNewcomersHolds` from `BoundInside`: while a
  loop runs, its bound is at most the size. `EachCalledOnceHolds` from `CallsInv`: tokens
  are distinct, and a loop that runs alone has called exactly the owed callbacks before
  its cursor.
* **SyncProgressNotifier.** `UploadsAreCovered` from `UploadInv`: what the notifier knows
  is a past of what the client knows, a captured target covers the notifier's commits,
  and a prepared call names that target; a notifier not registered yet needs a conjunct
  of its own (`UnusedUntouched`). `TargetIsNewest` adds that the commits it is about are all
  that were announced, unless announcements crossed. `TotalKeptHolds` and `CompletionReportedOnceHolds` from
  `TotalInv` and `OnceInv`, which follow a notifier's target and its last call through
  `outbox`.
* **SessionRegistry.** `RegistryInv`: whatever is referenced or at work is the registered
  session; at most one thread is on its way to `unregister_session`, about that very
  session; and those inside `get_session` and `unregister_session` hold the manager's
  mutex. `OneSession`, `ReferencedStayRegistered` and `EntryFound` follow. The conjuncts
  about threads forbid a second entry for the path while a thread is in between.
* **TokenRefresh.** `OneRefresherCorrect` from `HeldByRegistry`: a handle with a timer or a
  block to come is registered, about to be, or detached. `ServedCorrect` needs
  `BindingInv` (whoever revives or binds keeps the session; handles to be registered are
  the session's) and `ServedByRegistry`, which says which of the handles is at work: a
  handle outside the registry may be lost with its next request.
* **CollectionCallbacks.** `LoopInv` relates cursor, bound and size in each phase and gives
  `FlagCorrect` and `OverrunsCorrect`. `DeliveryInv` gives the rest: tokens are distinct,
  unused ones were told nothing, packaged changes lie ahead of the cursor only, and each
  callback's accounts balance.
* **SyncMetadata.** `UserInv` follows a user through log in, log out and launch.
  `NeverLostCorrect` needs `RunInv` (what is true of file, copy and recorded action at each
  step of a run, whatever the others do: the copy is one of the file that was opened, and if
  a wanted file is in its place by then, the action that was read is recorded no more, as
  each error has a name of its own) and `PathInv` (of a recorded action: a file that is
  wanted has none that only deletes). `DeletedIsSaved` combines them. The action properties
  follow from what each step removes (`Removes`, `Forgets`); runs exist only in the phases
  in which they may (`PassInv`), so nothing but the erasing of users deletes in theirs.
* **NotifierHandover.** `ListsInv` and `NotifiersInv` (where a notifier is in the lists, and
  what its version is there) give `RunTogetherCorrect`, `NoFailedAssertionCorrect` and,
  with the pin, `PinCorrect`. `RealmsInv` gives `NeverBackCorrect`.
  `NoLostWakeUpCorrect` combines `Awake` (a living notifier with a callback that is behind
  is in a run or will be) and `Expected` (what each thread waits for).
  `ToldMatchesViewCorrect` and `NeverRepeatedCorrect` need `Lead`, which follows the changes
  of a callback through all stages: what it was told leads to the version of its Realm, or
  to the one its Realm is committing; what was accumulated for it leads from there to the
  version of its notifier; what was packaged leads to the version its Realm advances to; and
  a skip flag belongs to the very version to skip (`SkippedOK`). `Lead` rests on who may be
  delivering (`CallbacksInv`), who may be writing (`WritersInv`) and on an order of the
  versions that makes all of these adjacent (`SkipAhead`). Assumed: the mark for no Realm is
  no Realm.
* **IndexSets, CollectionChangeBuilder.** A change leads indices of the old collection to
  indices of the new one: an index that is not deleted to where deletions and insertions
  shift it (`Where`), the source of a move to its destination. That relation is `Tracks`,
  and the builder is right when its operations compose it. `MergeComposes`,
  `InsertComposes`, `EraseComposes` and `MoveComposes` say that they do, for any well formed
  change sets (`IsChange`: moves are deletions and insertions, and share none of them):
  the result is well formed, `Tracks` of it is the one relation followed by the other, and it
  deletes and inserts no more than both. `CleanUpKeepsTracks`: what `clean_up_stale_moves`
  drops was void. `MergeKeepsModifications`, `StepsKeepModifications`, `OldModifications`: the
  modifications go with the rows. All equations between shifts come from one lemma,
  `WhereIsUnique`: there is only one map that keeps the order between what is outside of two
  finite sets of indices, so it is enough to show of both sides that they keep it and are
  onto. The loops of the code are recursive functions here; `Recursion` shows that each has
  a run, and `UpTo` is the induction over it, both from the least round that would fail
  (the induction theorems of the library take an operator and cannot be used).
* **CollectionChanges.** Lists are in `CollectionChanges_proofs`, the rest is in
  `CollectionTables_proofs`. `AppliesCorrect`, `MovesAreTrueCorrect` and
  `ModificationsAreTrueCorrect`: the three properties hold for lists, results and sorted
  results of any size, with any number of instructions, pieces of the log and runs. The
  properties speak of the delivered changes only and say nothing of the log they will be
  made of, so none is inductive. `CollectionInv` is `ListInv` for a list and `TableInv` for
  results; both contain `Accumulated`, that the changes not delivered yet make the
  collection that the callback knows to that of the last run (`Follows`: a change that leads
  each index to one of the same element) and mark just the modified elements. A run keeps
  it by `MergeComposes`, and `Applies` follows because a change that `Follows` leaves the
  same elements in the same order on both sides (`FollowsLeavesTheSame`).
  *Lists.* `ListInv` adds that there is a list in between such that the pieces of the log
  merged so far make the list of the last run to it, and the builder makes it to the list
  that is there now (`Read`). Each instruction is one of the composition theorems.
  *The log of a table.* The builder of a table is no composition of changes while it is
  filled, but a mapping of moved rows to old indices besides the sets. `TableLog` says how
  they stand for where each row was; each instruction keeps it, and `CompleteLeads` shows
  that `parse_complete` makes it a change that leads rows to themselves. `LeadOn` says that
  of the pieces read so far: whatever change the last piece will be, merging from the last
  on gives a change of the whole. `Follow` finds a row there, or takes it for gone
  (`FollowIsTracked`; that moves merged from two pieces are not sorted costs no more).
  *calculate.* What it returns is right when the rows that are neither deleted nor inserted
  are the same in both lists and in the same order (`Pairing`, `PairedCalculated`).
  `UnsortedCalculated` shows that of `calculate_moves_unsorted`: rows that could not have
  moved are in the order of the table, and the loop keeps those in place that are, unless
  two rows moved from before one that did not (`AsExpected`; that is all that `Unexpected`
  excuses). `SortedCalculated` shows it of `calculate_moves_sorted`, of whatever rows:
  `MatchInv` is the invariant of the dynamic program, that the best block so far
  and the one that ends here are blocks of equal rows within the bounds, and `MatchesFound`
  that the recursion on both sides gives blocks that are one after the other in both lists.
  That the matches are the longest possible is not needed for any property, and not proved.
  The recursion is a function on windows, and `Fixpoint` shows that it has a solution
  because the windows become smaller.

Only model-checked: everything under fairness (`DyingEnds`, `AbortedHandlersCalled`,
`OutstandingWorkEnds`, `TokenArrives`, `InitialCallMade`; liveness and `ENABLED` are out of
the proof system's reach). Every other property of the passing runs is a theorem.

## 5. Where code and text disagree

With a run:

* `docs_deadlock`: `SyncUser::log_out` and `SyncManager::get_session` take the two
  mutexes in opposite order (`sync_user.cpp:163`, `sync_manager.cpp:457`).
* `docs_handover`: a callback that a write suppresses is told of it all the same if the
  notifiers run for an earlier version at some time between the suppressing call and the
  end of the commit (`collection_notifier.cpp:223-237`, `:412`; `RLMRealm.h:284`).

Met while modelling; the models contain them, and properties are stated up to them:

* `handle_error` deactivates in a second critical section. After a log out in between it
  enters Inactive from Inactive, which `advance_state` asserts against
  (`sync_session.cpp:596`, `:702`). An error of a terminating `sync::Session` does too.
* A handler accepted while Inactive after `permission_denied` is never called, though
  nobody logged out (`sync_session.cpp:394`; `sync_session.hpp:144`).
* A callback that adds another and removes both lets the loop of connection changes run
  past the end of the vector (`sync_session.cpp:1009`, `:1021`). Collection callbacks have
  the same flaw: an older callback is passed over, though each is to be called
  (`collection_notifier.cpp:214`; `RLMResults.h:202`).
* Announcements of two threads may cross, as they are made after the write lock was
  released; if that of the older commit comes last, `m_local_transaction_version` goes back,
  and a progress notifier registered then is told that all is transferred before the newer
  commit is uploaded (`realm_coordinator.cpp:416-424`; `sync_session.hpp:97`).
* The first call of a progress notifier can arrive after a newer one and be the last
  (`sync_session.cpp:916`; `RLMSyncSession.h:78`).
* `unregister_session` erases a session that is in use if it was revived in time and is
  not referenced (`sync_manager.cpp:482`; `sync_manager.hpp:167`).
* `set_is_admin` un-marks the row of a user who logged out meanwhile, so the next launch
  restores him (`sync_user.cpp:190`; `RLMSyncUser.h:216-218`).
* A Realm opened anew between an action's effect and its removal from the metadata is
  deleted by the next launch; a crash between copy and removal leaves a backup action that
  can never run, as its name is taken (`sync_manager.cpp:189`); an exception leaves
  `m_metadata_manager` set, so that the next `configure` returns early (`:67`).
* `immediately_run_file_actions` takes no lock. A run that has read an action to delete goes
  on with it when an error has recorded a backup since, and the Realm is gone without the
  copy that was asked for (`sync_manager.cpp:159-180`). Two runs of one backup both find its
  name free, and the second writes over the copy of the first, perhaps with a Realm opened
  anew, and loses it if it fails (`sync_file.cpp:298-301`). A run that removes a row another
  run has removed removes the row of another Realm that has its index by then, or throws
  (`sync_metadata.cpp:462-471`).
* A refresh is cut off when the late answer of a replaced handle unregisters the new one
  (`RLMSyncSessionRefreshHandle.mm:139`; `RLMSyncUser.mm:77-81` erases the handle without
  stopping its timer, so that it may refresh on beside a successor), when the handles are
  invalidated after the session was revived, or when an answer cannot be parsed (`:230`), which is neither retried nor
  reported.
* A second commit overwrites `m_notifier_skip_version` before the worker used it
  (`realm_coordinator.cpp:413`); a callback that was suppressed for a
  write that is cancelled, because its commit failed, misses the next change instead
  (`collection_notifier.cpp:235`); a write begun inside a notification advances the Realm
  without telling the notifiers, as its comment admits (`shared_realm.cpp:647-650`); the notifier of a list that was dropped is packaged
  with a stale version (`collection_notifier.cpp:446-457`).
* `calculate_moves_unsorted` assumes that rows only move by `move_last_over`, from behind
  those that stay. Take a table of rows 1 to 5 and results 1, 2, 3; swap rows 1 and 3 of
  the table, and 0 and 4: the results are 3, 2, 1, row 2 is taken to be in place, and
  `REALM_ASSERT(rows == next_rows)` (`collection_change_builder.cpp:860`) fails in a debug
  build; a release build reports a wrong change set. Two `merge_rows` do the same: with
  rows 1 and 2 merged into new ones behind 3, the one of 2 first. One row that moved from before one that
  did not does no harm. `excused` is set by a run that meets two (`Unexpected`).
* A table clear records a deletion of as many indices as a `size_t` has; merged into
  earlier changes, `add_shifted_by` goes through them one by one (`index_set.cpp:396`).
  The model clears a table only in the first piece of a log.
* A list that is changed and then deleted with its owner between two runs is reported with
  insertions and moves of a list that is gone (`list_notifier.cpp:79`).
* Moves merged from two pieces of a log are searched with `lower_bound` although they are
  no longer sorted (`results_notifier.cpp:138`): a move is reported as a deletion and an
  insertion, which is harmless.

Behaviours the models contain without contradicting a text: commits made while Dying are
never announced, and of commits announced out of order while waiting the older one is
kept (`sync_session.cpp:197`); `token_expired` is swallowed in Dying, so that a revived
session is Active with a refused token; the listener of a destroyed `sync::Session` can
overwrite the disconnected state; a log out between `register_session`'s unlock and its
revival, or `update_refresh_token`'s, leaves a live session of a logged-out user
(`sync_user.cpp:221`, `:144`), whose refresh handle `invalidate_all_handles` may then take
away: if it waited for its token it does so for good, as the next log in revives only
sessions that are Inactive (`sync_session.cpp:178`); a session that is Inactive and
unreferenced can stay in `m_sessions`.

## 6. Not modelled

* **`WorkQueue` and partial sync**: one class with one mutex, whose thread ends after 500 ms
  without work and is started again, and subscription states that the sync client's
  binary writes.
* **The rest of `Realm`**: close and invalidate, schema changes and migrations, manual
  refresh, thread-safe references, object observation. They end or restart what
  `NotifierHandover` models, and most of their work is the storage engine's.
* **The rest of the object store**: modes of `Results`, lists, objects, the schema; they are
  called by one thread and translate calls to the storage engine. `IndexSet`'s chunked
  storage; subtables, columns and primitive lists in change sets.
* **The rest of `SyncManager` and `SyncUser`**: lookups of existing sessions, reconnect,
  the management and permission Realms.
* **Wake-up, reachability, keychain**: pipes, kqueue and calls of the operating system. The
  models allow a wake-up at any time after its cause.
* **Bindings** other than the token refresh: argument conversion and wrappers.
* **Alamofire, R.swift, the application shell**: not called by the application, generated
  names, or empty screens.
* **realm-core and realm-sync**: two thirds of the repository's implementation lines are
  their headers (`Pods/Realm/include/core`), whose code is in a binary that is not part of the source; the models
  treat what they do as external. The share of the repository the map can cover is
  therefore small: it covers the object store's concurrent classes, and little else.
