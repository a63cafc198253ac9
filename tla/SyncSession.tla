---------------------------- MODULE SyncSession ----------------------------
(***************************************************************************)
(* One SyncSession object of the Realm object store (sync_session.cpp):    *)
(* its four-state machine, driven concurrently by application threads and  *)
(* by the event loop thread of the sync client.                            *)
(*                                                                         *)
(* Every critical section on m_state_mutex is one atomic action.  What the *)
(* code does after it releases the mutex (calling the bind handler, writing*)
(* the connection state, running the aborted completion handlers) is done  *)
(* in later steps of the same thread, so that the critical sections of     *)
(* other threads can fall in between; pc[t] says which step is next.       *)
(*                                                                         *)
(* The sync client is external (realm-core headers only).  It is modelled  *)
(* from the contract of sync::Session: callbacks run on the event loop     *)
(* only, may still run after the sync::Session object is destroyed, and    *)
(* every wait completes, with operation_aborted when its session is gone.  *)
(***************************************************************************)
EXTENDS Naturals

CONSTANTS
    Threads,        \* application threads that call into the session
    Loop,           \* the event loop thread of the sync client
    Waiters,        \* completion handlers of wait_for_*_completion
    StopPolicies,   \* the values SyncConfig::stop_policy may have
    Errors,         \* the errors the connection listener may be passed
    MaxVersion,     \* bound: local commits
    MaxSessions,    \* bound: sync::Session objects created
    MaxDeaths       \* bound: entries into the Dying state

NoSession == 0

ErrorKinds == {"ignored", "expired", "bad_auth", "inactive", "other"}

ASSUME ThreadsAssumption == Loop \notin Threads
ASSUME PoliciesAssumption ==
    StopPolicies \subseteq {"Immediately", "LiveIndefinitely", "AfterChangesUploaded"}
ASSUME ErrorsAssumption == Errors \subseteq [kind : ErrorKinds, fatal : BOOLEAN]
ASSUME BoundsAssumption ==
    MaxVersion \in Nat /\ MaxSessions \in Nat /\ MaxDeaths \in Nat

VARIABLES
    \* m_state and the members that go with it
    state,          \* m_state
    stopPolicy,     \* m_config.stop_policy
    deferredClose,  \* m_deferred_close
    deathCount,     \* m_death_count
    session,        \* m_session: the id of the sync::Session, or NoSession
    bound,          \* m_session_has_been_bound
    serverUrl,      \* m_server_url is set
    pending,        \* m_completion_wait_packages
    deferredCommit, \* m_deferred_commit_notification, 0 for none
    connState,      \* m_connection_state
    \* threads
    pc,             \* what each thread does next, "idle" outside the session
    aborting,       \* the handlers each thread holds in a local to abort them
    notifying,      \* the version each committing thread is about to announce
    error,          \* the error the event loop is handling
    aborted,        \* a REALM_ASSERT has failed and the process is gone
    \* the sync client (external)
    created,        \* number of sync::Session objects made so far
    clientBound,    \* bind() was called on the current sync::Session
    terminating,    \* destroyed sync::Sessions whose termination is not complete
    clientWaits,    \* handlers registered with the client
    deathWaits,     \* upload waits registered by Dying::enter_state
    expired,        \* the server refused the token of the current sync::Session
    announced,      \* newest commit the current sync::Session knows of
    \* the Realm file, the server, and the callers
    version,        \* newest local commit
    uploaded,       \* newest commit the server has acknowledged
    asked,          \* the bind handler ran since the session began to wait
    registered,     \* handlers a caller has passed to wait_for_*_completion
    calls           \* how often each handler was called

machine  == <<state, deferredClose, asked>>
dying    == <<deathCount, deathWaits>>
handle   == <<session, bound, serverUrl, created, clientBound, terminating>>
handlers == <<pending, aborting, clientWaits, registered, calls>>
commits  == <<deferredCommit, notifying, announced, version, uploaded>>
loop     == <<error, aborted>>
vars == <<machine, dying, handle, handlers, commits, loop, pc, stopPolicy, connState, expired>>

AllThreads == Threads \cup {Loop}
SessionIds == 1 .. MaxSessions

TypeOK ==
    /\ state \in {"waiting", "active", "dying", "inactive"}
    /\ stopPolicy \in StopPolicies
    /\ deferredClose \in BOOLEAN
    /\ deathCount \in 0 .. MaxDeaths
    /\ session \in 0 .. MaxSessions
    /\ bound \in BOOLEAN
    /\ serverUrl \in BOOLEAN
    /\ pending \subseteq Waiters
    /\ deferredCommit \in 0 .. MaxVersion
    /\ connState \in {"disconnected", "connecting", "connected"}
    /\ pc \in [AllThreads ->
                 {"idle", "bind", "disconnect", "abort", "notify", "handle", "classify"}]
    /\ aborting \in [AllThreads -> SUBSET Waiters]
    /\ notifying \in [Threads -> 0 .. MaxVersion]
    /\ error \in [kind : ErrorKinds, fatal : BOOLEAN]
    /\ aborted \in BOOLEAN
    /\ created \in 0 .. MaxSessions
    /\ clientBound \in BOOLEAN
    /\ terminating \subseteq SessionIds
    /\ clientWaits \subseteq [waiter : Waiters, session : SessionIds]
    /\ deathWaits \subseteq [session : SessionIds, count : 1 .. MaxDeaths, target : 0 .. MaxVersion]
    /\ expired \in BOOLEAN
    /\ announced \in 0 .. MaxVersion
    /\ version \in 0 .. MaxVersion
    /\ uploaded \in 0 .. MaxVersion
    /\ asked \in BOOLEAN
    /\ registered \subseteq Waiters
    /\ calls \in [Waiters -> Nat]

Init ==
    /\ state = "inactive"
    /\ stopPolicy \in StopPolicies
    /\ deferredClose = FALSE
    /\ deathCount = 0
    /\ session = NoSession
    /\ bound \in BOOLEAN          \* uninitialized in the constructor
    /\ serverUrl = FALSE
    /\ pending = {}
    /\ deferredCommit = 0
    /\ connState = "disconnected"
    /\ pc = [t \in AllThreads |-> "idle"]
    /\ aborting = [t \in AllThreads |-> {}]
    /\ notifying = [t \in Threads |-> 0]
    /\ error = [kind |-> "ignored", fatal |-> FALSE]
    /\ aborted = FALSE
    /\ created = 0
    /\ clientBound = FALSE
    /\ terminating = {}
    /\ clientWaits = {}
    /\ deathWaits = {}
    /\ expired = FALSE
    /\ announced = 0
    /\ version = 0
    /\ uploaded = 0
    /\ asked = FALSE
    /\ registered = {}
    /\ calls = [w \in Waiters |-> 0]

-----------------------------------------------------------------------------
\* The process runs and the next step of thread t is s.
At(t, s) == ~aborted /\ pc[t] = s

(* State entry: what advance_state does for each target.                   *)

\* advance_state's REALM_ASSERT(&state != m_state): the process aborts.
FailAssertion ==
    /\ aborted' = TRUE
    /\ UNCHANGED <<machine, dying, handle, handlers, commits, error, pc, stopPolicy, connState, expired>>

\* The queue of handlers is moved to a local of the thread, to be aborted later.
TakeHandlers_Copied(t) ==
    /\ aborting' = [aborting EXCEPT ![t] = pending]
    /\ UNCHANGED pending

TakeHandlers(t) ==
    /\ aborting' = [aborting EXCEPT ![t] = pending]
    /\ pending' = {}

\* Inactive::enter_state up to the point where unregister() releases the mutex.
EnterInactive(t) ==
    /\ state' = "inactive"
    /\ TakeHandlers(t)
    /\ session' = NoSession
    /\ terminating' = IF session = NoSession THEN terminating ELSE terminating \cup {session}
    /\ pc' = [pc EXCEPT ![t] = "disconnect"]
    /\ UNCHANGED <<deferredClose, asked, dying, bound, serverUrl, created, clientBound,
                   clientWaits, registered, calls, commits, aborted, stopPolicy, connState, expired>>

\* The thread goes on to call the bind handler.
AskBinding_Never(t) == pc' = [pc EXCEPT ![t] = "idle"]

AskBinding(t) == pc' = [pc EXCEPT ![t] = "bind"]

\* WaitingForAccessToken::enter_state, then the bind handler is called unlocked.
EnterWaiting(t) ==
    /\ state' = "waiting"
    /\ deferredClose' = FALSE
    /\ asked' = FALSE
    /\ AskBinding(t)
    /\ UNCHANGED <<dying, handle, handlers, commits, aborted, stopPolicy, connState, expired>>

\* Dying::enter_state: a new death, which waits for the uploads announced so far.
\* (With no m_session it would go on to Inactive; no caller reaches it that way.)
EnterDying(id, target) ==
    /\ state' = "dying"
    /\ deathCount < MaxDeaths
    /\ deathCount' = deathCount + 1
    /\ deathWaits' = deathWaits \cup
           {[session |-> id, count |-> deathCount + 1, target |-> target]}

-----------------------------------------------------------------------------
(* The steps a thread takes after it has released the mutex.               *)

\* The binding is asked for a token (bind_session_handler).
CallBindHandler(t) ==
    /\ At(t, "bind")
    /\ asked' = TRUE
    /\ pc' = [pc EXCEPT ![t] = "idle"]
    /\ UNCHANGED <<state, deferredClose, dying, handle, handlers, commits, loop, stopPolicy, connState, expired>>

\* Where the unlocked tail of Inactive::enter_state goes on.
AfterDisconnect_Returns(t) == "idle"

AfterDisconnect(t) == IF aborting[t] = {} THEN "idle" ELSE "abort"

\* Inactive::enter_state sets the disconnected state without the mutex.
SetDisconnected(t) ==
    /\ At(t, "disconnect")
    /\ connState' = "disconnected"
    /\ pc' = [pc EXCEPT ![t] = AfterDisconnect(t)]
    /\ UNCHANGED <<machine, dying, handle, handlers, commits, loop, stopPolicy, expired>>

\* A queued handler is told operation_aborted, one after the other.
AbortHandler(t, w) ==
    /\ At(t, "abort")
    /\ w \in aborting[t]
    /\ calls' = [calls EXCEPT ![w] = @ + 1]
    /\ aborting' = [aborting EXCEPT ![t] = @ \ {w}]
    /\ pc' = [pc EXCEPT ![t] = IF aborting[t] = {w} THEN "idle" ELSE "abort"]
    /\ UNCHANGED <<machine, dying, handle, pending, clientWaits, registered, commits, loop, stopPolicy, connState, expired>>

-----------------------------------------------------------------------------
(* Calls of the application threads.                                       *)

\* revive_if_needed in Inactive: recreate the session.
ReviveInactive(t) ==
    /\ At(t, "idle")
    /\ state = "inactive"
    /\ EnterWaiting(t)
    /\ UNCHANGED error

\* revive_if_needed in WaitingForAccessToken: cancel a deferred close.
ReviveWaiting(t) ==
    /\ At(t, "idle")
    /\ state = "waiting"
    /\ deferredClose' = FALSE
    /\ UNCHANGED <<state, asked, dying, handle, handlers, commits, loop, pc, stopPolicy, connState, expired>>

\* revive_if_needed in Dying: stay alive instead.
ReviveDying(t) ==
    /\ At(t, "idle")
    /\ state = "dying"
    /\ state' = "active"
    /\ UNCHANGED <<deferredClose, asked, dying, handle, handlers, commits, loop, pc, stopPolicy, connState, expired>>

\* handle_reconnect in WaitingForAccessToken: ask for the token once more.
HandleReconnect(t) ==
    /\ At(t, "idle")
    /\ state = "waiting"
    /\ AskBinding(t)
    /\ UNCHANGED <<machine, dying, handle, handlers, commits, loop, stopPolicy, connState, expired>>

\* m_session_has_been_bound, as refresh_access_token finds it: create_sync_session
\* resets it when it makes a new sync::Session.
WasBound_NotReset == bound

WasBound == session # NoSession /\ bound

\* The newest commit the client knows of when a token arrives: bind() announces
\* every commit made so far, a deferred notification is delivered on top.
AnnouncedOnRefresh ==
    LET base == IF WasBound THEN announced ELSE version
    IN  IF deferredCommit > base THEN deferredCommit ELSE base

\* The queued handlers are registered with the client.
HandOver_Forgotten(id) == UNCHANGED <<clientWaits, pending>>

HandOver(id) ==
    /\ clientWaits' = clientWaits \cup {[waiter |-> w, session |-> id] : w \in pending}
    /\ pending' = {}

\* refresh_access_token in WaitingForAccessToken: create, bind or refresh the
\* sync::Session, hand it the queued handlers and the deferred commit, become
\* Active, and apply a close that was deferred (only Immediately never defers).
RefreshWaiting(t, url) ==
    LET fresh == session = NoSession
        id    == IF fresh THEN created + 1 ELSE session
    IN  /\ At(t, "idle")
        /\ state = "waiting"
        /\ serverUrl \/ url
        /\ fresh => created < MaxSessions
        /\ session' = id
        /\ created' = IF fresh THEN created + 1 ELSE created
        /\ clientBound' = (WasBound => clientBound /\ ~fresh)
        /\ bound' = TRUE
        /\ serverUrl' = TRUE
        /\ HandOver(id)
        /\ announced' = AnnouncedOnRefresh
        /\ deferredCommit' = 0
        /\ expired' = FALSE
        /\ \/ /\ ~deferredClose \/ stopPolicy = "LiveIndefinitely"
              /\ state' = "active"
              /\ UNCHANGED dying
           \/ /\ deferredClose /\ stopPolicy = "AfterChangesUploaded"
              /\ EnterDying(id, AnnouncedOnRefresh)
        /\ UNCHANGED <<deferredClose, asked, terminating, aborting, registered, calls,
                       notifying, version, uploaded, loop, pc, stopPolicy, connState>>

\* refresh_access_token in Active; Dying and Inactive ignore the token.
RefreshActive(t) ==
    /\ At(t, "idle")
    /\ state = "active"
    /\ serverUrl
    /\ expired' = FALSE
    /\ UNCHANGED <<machine, dying, handle, handlers, commits, loop, pc, stopPolicy, connState>>

\* log_out, in every state but Inactive.
LogOut(t) ==
    /\ At(t, "idle")
    /\ state # "inactive"
    /\ EnterInactive(t)
    /\ UNCHANGED error

\* close with stop policy Immediately.
CloseImmediately(t) ==
    /\ At(t, "idle")
    /\ stopPolicy = "Immediately"
    /\ state \in {"waiting", "active"}
    /\ EnterInactive(t)
    /\ UNCHANGED error

\* close in WaitingForAccessToken with another policy: deferred.
CloseWaiting(t) ==
    /\ At(t, "idle")
    /\ stopPolicy # "Immediately"
    /\ state = "waiting"
    /\ deferredClose' = TRUE
    /\ UNCHANGED <<state, asked, dying, handle, handlers, commits, loop, pc, stopPolicy, connState, expired>>

\* close in Active with AfterChangesUploaded; LiveIndefinitely does nothing.
CloseActive(t) ==
    /\ At(t, "idle")
    /\ stopPolicy = "AfterChangesUploaded"
    /\ state = "active"
    /\ EnterDying(session, announced)
    /\ UNCHANGED <<deferredClose, asked, handle, handlers, commits, loop, pc, stopPolicy, connState, expired>>

\* wait_for_upload_completion and wait_for_download_completion: queued while
\* there is no bound sync::Session, passed to the client otherwise.
WaitForCompletion(t, w) ==
    /\ At(t, "idle")
    /\ w \notin registered
    /\ registered' = registered \cup {w}
    /\ \/ /\ state \in {"waiting", "inactive"}
          /\ pending' = pending \cup {w}
          /\ UNCHANGED clientWaits
       \/ /\ state \in {"active", "dying"}
          /\ clientWaits' = clientWaits \cup {[waiter |-> w, session |-> session]}
          /\ UNCHANGED pending
    /\ UNCHANGED <<machine, dying, handle, aborting, calls, commits, loop, pc, stopPolicy, connState, expired>>

\* A local write transaction commits; its thread will announce that version.
Commit(t) ==
    /\ At(t, "idle")
    /\ version < MaxVersion
    /\ version' = version + 1
    /\ notifying' = [notifying EXCEPT ![t] = version + 1]
    /\ pc' = [pc EXCEPT ![t] = "notify"]
    /\ UNCHANGED <<machine, dying, handle, handlers, deferredCommit, announced, uploaded, loop, stopPolicy, connState, expired>>

\* nonsync_transact_notify: announced when Active, remembered while waiting,
\* dropped in Dying and Inactive.
NonsyncTransactNotify(t) ==
    /\ At(t, "notify")
    /\ announced' = IF state = "active" /\ notifying[t] > announced THEN notifying[t] ELSE announced
    /\ deferredCommit' = IF state = "waiting" THEN notifying[t] ELSE deferredCommit
    /\ notifying' = [notifying EXCEPT ![t] = 0]
    /\ pc' = [pc EXCEPT ![t] = "idle"]
    /\ UNCHANGED <<machine, dying, handle, handlers, version, uploaded, loop, stopPolicy, connState, expired>>

-----------------------------------------------------------------------------
(* The event loop thread: callbacks of the sync client.                    *)

\* Callbacks come from the current sync::Session or from one being terminated.
Reporting == terminating \cup (IF session = NoSession THEN {} ELSE {session})

\* The connection state listener, without an error.
ConnectionChanged(s, new) ==
    /\ At(Loop, "idle")
    /\ s \in Reporting
    /\ connState # new
    /\ connState' = new
    /\ UNCHANGED <<machine, dying, handle, handlers, commits, loop, pc, stopPolicy, expired>>

\* The connection state listener with an error: the connection is down, and
\* handle_error runs after the state change was reported.
ErrorReported(s, e) ==
    /\ At(Loop, "idle")
    /\ s \in Reporting
    /\ error' = e
    /\ connState' = "disconnected"
    /\ expired' = (expired \/ (s = session /\ e.kind = "expired"))
    /\ pc' = [pc EXCEPT ![Loop] = "handle"]
    /\ UNCHANGED <<machine, dying, handle, handlers, commits, aborted, stopPolicy>>

\* handle_error, first critical section: Dying takes every error on itself and
\* gives up on a fatal one.
HandleErrorDying ==
    /\ At(Loop, "handle")
    /\ state = "dying"
    /\ \/ /\ error.fatal
          /\ EnterInactive(Loop)
       \/ /\ ~error.fatal
          /\ pc' = [pc EXCEPT ![Loop] = "idle"]
          /\ UNCHANGED <<machine, dying, handle, handlers, commits, aborted, stopPolicy, connState, expired>>
    /\ UNCHANGED error

\* The other states leave the error to handle_error.
HandleErrorOther ==
    /\ At(Loop, "handle")
    /\ state # "dying"
    /\ pc' = [pc EXCEPT ![Loop] = "classify"]
    /\ UNCHANGED <<machine, dying, handle, handlers, commits, loop, stopPolicy, connState, expired>>

\* Errors that are only logged: nothing else to do.
IgnoreError ==
    /\ At(Loop, "classify")
    /\ error.kind = "ignored" \/ (error.kind = "other" /\ ~error.fatal)
    /\ pc' = [pc EXCEPT ![Loop] = "idle"]
    /\ UNCHANGED <<machine, dying, handle, handlers, commits, loop, stopPolicy, connState, expired>>

TokenExpired_AnyState ==
    /\ At(Loop, "classify")
    /\ error.kind = "expired"
    /\ EnterWaiting(Loop)
    /\ UNCHANGED error

\* token_expired, second critical section: only Active asks for a new token.
TokenExpired ==
    /\ At(Loop, "classify")
    /\ error.kind = "expired"
    /\ \/ /\ state = "active"
          /\ EnterWaiting(Loop)
       \/ /\ state # "active"
          /\ pc' = [pc EXCEPT ![Loop] = "idle"]
          /\ UNCHANGED <<machine, dying, handle, handlers, commits, aborted, stopPolicy, connState, expired>>
    /\ UNCHANGED error

\* bad_authentication, or another fatal error: cancel_pending_waits.
CancelPendingWaits ==
    /\ At(Loop, "classify")
    /\ error.kind = "bad_auth" \/ (error.kind = "other" /\ error.fatal)
    /\ TakeHandlers(Loop)
    /\ pc' = [pc EXCEPT ![Loop] = IF pending = {} THEN "idle" ELSE "abort"]
    /\ UNCHANGED <<machine, dying, handle, clientWaits, registered, calls, commits, loop, stopPolicy, connState, expired>>

\* permission_denied and the client reset errors: advance_state(inactive) in a
\* second critical section, whatever the state has become since the first.
DeactivateOnError ==
    /\ At(Loop, "classify")
    /\ error.kind = "inactive"
    /\ \/ state = "inactive" /\ FailAssertion
       \/ state # "inactive" /\ EnterInactive(Loop) /\ UNCHANGED error

\* A handler registered with the client is called: its wait completed, or its
\* session was destroyed and it is told operation_aborted.
CompleteWait(c) ==
    /\ At(Loop, "idle")
    /\ c \in clientWaits
    /\ clientWaits' = clientWaits \ {c}
    /\ calls' = [calls EXCEPT ![c.waiter] = @ + 1]
    /\ UNCHANGED <<machine, dying, handle, pending, aborting, registered, commits, loop, pc, stopPolicy, connState, expired>>

\* The upload wait of a death completes: its uploads are acknowledged, or its
\* sync::Session is being terminated (the code does not look at the error).
DeathWaitDone(d) ==
    /\ d \in deathWaits
    /\ \/ d.session = session /\ uploaded >= d.target
       \/ d.session \in terminating

\* The handler registered by Dying::enter_state: the session dies, unless it
\* was revived since (and perhaps has begun to die anew).
StillDying_AnyDeath(d) == state = "dying"

StillDying_CountBefore(d) == state = "dying" /\ deathCount + 1 = d.count

StillDying(d) == state = "dying" /\ deathCount = d.count

DeathComplete(d) ==
    /\ At(Loop, "idle")
    /\ DeathWaitDone(d)
    /\ StillDying(d)
    /\ deathWaits' = deathWaits \ {d}
    /\ state' = "inactive"
    /\ TakeHandlers(Loop)
    /\ session' = NoSession
    /\ terminating' = terminating \cup {session}
    /\ pc' = [pc EXCEPT ![Loop] = "disconnect"]
    /\ UNCHANGED <<deferredClose, asked, deathCount, bound, serverUrl, created, clientBound,
                   clientWaits, registered, calls, commits, loop, stopPolicy, connState, expired>>

DeathSuperseded(d) ==
    /\ At(Loop, "idle")
    /\ DeathWaitDone(d)
    /\ ~StillDying(d)
    /\ deathWaits' = deathWaits \ {d}
    /\ UNCHANGED <<machine, deathCount, handle, handlers, commits, loop, pc, stopPolicy, connState, expired>>

\* Termination of a destroyed sync::Session completes after its last wait.
Terminate(s) ==
    /\ At(Loop, "idle")
    /\ s \in terminating
    /\ \A c \in clientWaits : c.session # s
    /\ \A d \in deathWaits : d.session # s
    /\ terminating' = terminating \ {s}
    /\ UNCHANGED <<machine, dying, session, bound, serverUrl, created, clientBound, handlers, commits, loop, pc, stopPolicy, connState, expired>>

\* The server acknowledges an announced commit of a session with a valid token.
Upload ==
    /\ ~aborted
    /\ session # NoSession
    /\ ~expired
    /\ uploaded < announced
    /\ uploaded' = uploaded + 1
    /\ UNCHANGED <<machine, dying, handle, handlers, deferredCommit, notifying, announced, version, loop, pc, stopPolicy, connState, expired>>

\* After a failed assertion there is no process any more.
Aborted == aborted /\ UNCHANGED vars

-----------------------------------------------------------------------------
ThreadStep(t) ==
    \/ CallBindHandler(t)
    \/ SetDisconnected(t)
    \/ \E w \in Waiters : AbortHandler(t, w)

AppCall(t) ==
    \/ ReviveInactive(t) \/ ReviveWaiting(t) \/ ReviveDying(t)
    \/ HandleReconnect(t)
    \/ \E url \in BOOLEAN : RefreshWaiting(t, url)
    \/ RefreshActive(t)
    \/ LogOut(t)
    \/ CloseImmediately(t) \/ CloseWaiting(t) \/ CloseActive(t)
    \/ \E w \in Waiters : WaitForCompletion(t, w)
    \/ Commit(t)

ErrorStep ==
    \/ HandleErrorDying \/ HandleErrorOther \/ IgnoreError
    \/ TokenExpired \/ CancelPendingWaits \/ DeactivateOnError

ClientCallback ==
    \/ \E s \in Reporting : \E new \in {"connecting", "connected"} : ConnectionChanged(s, new)
    \/ \E s \in Reporting : \E e \in Errors : ErrorReported(s, e)
    \/ \E c \in clientWaits : CompleteWait(c)
    \/ \E d \in deathWaits : DeathComplete(d)
    \/ \E d \in deathWaits : DeathSuperseded(d)
    \/ \E s \in terminating : Terminate(s)
    \/ Upload

Next ==
    \/ \E t \in AllThreads : ThreadStep(t)
    \/ \E t \in Threads : AppCall(t) \/ NonsyncTransactNotify(t)
    \/ ErrorStep
    \/ ClientCallback
    \/ Aborted

Spec == Init /\ [][Next]_vars

-----------------------------------------------------------------------------
(* Safety properties.                                                      *)

\* The contract of sync::Session is kept in every state: an Active or Dying
\* SyncSession has a sync::Session, an Inactive one has none, and the one it has
\* was bound before a token, a commit or a wait can reach it (client.hpp: "It is
\* an error to call this function before bind()").
ClientContract ==
    /\ state \in {"active", "dying"} => session # NoSession
    /\ state = "inactive" => session = NoSession
    /\ session # NoSession => clientBound /\ session \notin terminating

\* The four places a completion handler can be in.
Queued(w) == w \in pending
BeingAborted(w) == \E t \in AllThreads : w \in aborting[t]
WithClient(w) == \E c \in clientWaits : c.waiter = w
Called(w) == calls[w] > 0

\* wait_for_completion promises a call to every handler it accepts.  Whatever
\* thread moves the queue in whatever order, an accepted handler is in exactly
\* one place and is never called twice (sync_session.hpp 142-145).
HandlersAccounted ==
    /\ \A w \in Waiters :
        /\ calls[w] <= 1
        /\ w \in registered => Queued(w) \/ BeingAborted(w) \/ WithClient(w) \/ Called(w)
        /\ Queued(w) => w \in registered /\ ~BeingAborted(w) /\ ~WithClient(w) /\ ~Called(w)
        /\ BeingAborted(w) => w \in registered /\ ~WithClient(w) /\ ~Called(w)
        /\ WithClient(w) => w \in registered /\ ~Called(w)
        /\ Called(w) => w \in registered
    /\ \A t, u \in AllThreads : t # u => aborting[t] \cap aborting[u] = {}
    /\ \A c, d \in clientWaits : c.waiter = d.waiter => c = d

\* No handler is left where nobody will call it: the queue is empty while the
\* session is Active or Dying, the client only holds handlers of a sync::Session
\* it still runs or is terminating, and a thread that holds handlers to abort
\* is on its way to call them.
HandlersReachable ==
    /\ state \in {"active", "dying"} => pending = {}
    /\ \A c \in clientWaits : c.session \in Reporting
    /\ \A t \in AllThreads : aborting[t] # {} => pc[t] \in {"disconnect", "abort"}

\* A session that waits for a token has asked the binding for one since it began
\* to wait, or the thread that put it there is about to.
AskedForToken ==
    state = "waiting" => asked \/ \E t \in AllThreads : pc[t] = "bind"

\* The upload completion that ends a Dying session is never one of an earlier
\* death: whenever it makes the session Inactive, the server has acknowledged
\* every commit the client was told of (Dying::enter_state, m_death_count).
ClosesAfterUpload ==
    [][\A d \in deathWaits : DeathComplete(d) => uploaded >= announced]_vars

-----------------------------------------------------------------------------
(* What the session promises, and the states it is documented to have.     *)

Promise == INSTANCE CompletionPromise WITH accepted <- registered

\* For the callers of wait_for_*_completion the session is no more than a promise to call each
\* handler it accepted, at most once, whichever of its queues and threads the handler went through.
PromiseKept == Promise!Spec

States == INSTANCE SessionStates WITH connected <- session # NoSession

\* The critical sections of all threads together make the transitions of the documented state
\* machine and no others, and a sync::Session comes with a token and goes with Inactive.
DocumentedStates == States!Spec

-----------------------------------------------------------------------------
(* Liveness.                                                               *)

\* The threads run on, the event loop handles its errors, the server
\* acknowledges what it is sent, and the client calls every completion handler
\* as long as its event loop runs (client.hpp 940-943).  Calls of the
\* application and errors are never owed.
Fairness ==
    /\ \A t \in AllThreads : WF_vars(ThreadStep(t))
    /\ WF_vars(ErrorStep)
    /\ WF_vars(Upload)
    /\ SF_vars(\E d \in deathWaits : DeathComplete(d) \/ DeathSuperseded(d))

FairSpec == Spec /\ Fairness

\* A Dying session stops dying: it is closed when its uploads are done, unless
\* it was revived, logged out, or lost its token (in Dying the error handler
\* swallows token_expired, so the uploads never finish; see its FIXME).
DyingEnds == (state = "dying") ~> (state # "dying" \/ expired \/ aborted)

\* A handler taken from the queue to be aborted is called.
AbortedHandlersCalled ==
    \A w \in Waiters : BeingAborted(w) ~> (Called(w) \/ aborted)

=============================================================================
