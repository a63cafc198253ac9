---------------------------- MODULE SessionRegistry ----------------------------
(***************************************************************************)
(* Who keeps a SyncSession alive and in use: the entry of SyncManager for  *)
(* one path, the external references of SyncSession, and the session maps  *)
(* of one SyncUser, with the two mutexes that are held across calls from   *)
(* one of these classes into another.                                      *)
(*                                                                         *)
(* A thread's call stack is the step it does next (pc), the session it     *)
(* works on (local, a strong pointer), and where it goes on after the tail *)
(* of Inactive::enter_state (after).  The four states of SyncSession are   *)
(* reduced to what matters here: live (Active, or waiting for a token),    *)
(* closing (Dying, or waiting with a deferred close) and inactive; module  *)
(* SyncSession has the details.  m_state_mutex is held only inside a step. *)
(***************************************************************************)
EXTENDS Naturals, FiniteSets

CONSTANTS
    Threads,        \* application threads
    Loop,           \* the event loop thread of the sync client
    MaxObjects      \* bound: SyncSession objects made for the path

ASSUME ThreadsAssumption == Loop \notin Threads
ASSUME ObjectsAssumption == MaxObjects \in Nat
ASSUME NoThreadAssumption == "none" \notin Threads \cup {Loop}

VARIABLES
    registry,       \* SyncManager::m_sessions[path], or NoObject
    managerMutex,   \* the thread that holds SyncManager::m_session_mutex, or NoThread
    userState,      \* SyncUser::m_state
    userMutex,      \* the thread that holds SyncUser::m_mutex, or NoThread
    userSession,    \* SyncUser::m_sessions[path]: a weak pointer
    waitingSession, \* SyncUser::m_waiting_sessions[path]: a weak pointer
    created,        \* SyncSession objects made so far
    stopPolicy,     \* m_config.stop_policy
    state,          \* of each SyncSession
    refs,           \* who holds an external reference to each: application threads
    temp,           \* ... and threads inside unregister_session
    pc, local, after,
    aborted,        \* unregister_session's assertion has failed
    stray           \* a session was revived that was about to be, or was, unregistered

locks == <<managerMutex, userMutex>>
userMaps == <<userState, userSession, waitingSession>>
sessions == <<created, stopPolicy, state, refs, temp>>
stack == <<pc, local, after>>
registryVars == <<registry, locks, userMaps, sessions, stack, aborted, stray>>

AllThreads == Threads \cup {Loop}
NoObject == 0
NoThread == "none"
Objects == 1 .. MaxObjects
StopPolicies == {"Immediately", "LiveIndefinitely", "AfterChangesUploaded"}
Steps == {"idle", "register", "revive", "takeRef", "dropped", "unregister", "tempRef",
          "tempDropped", "tailEnd", "loggedOut", "reactivate"}

RegistryTypeOK ==
    /\ registry \in Objects \cup {NoObject}
    /\ managerMutex \in AllThreads \cup {NoThread}
    /\ userState \in {"active", "loggedOut", "error"}
    /\ userMutex \in AllThreads \cup {NoThread}
    /\ userSession \in Objects \cup {NoObject}
    /\ waitingSession \in Objects \cup {NoObject}
    /\ created \in 0 .. MaxObjects
    /\ stopPolicy \in StopPolicies
    /\ state \in [Objects -> {"live", "closing", "inactive"}]
    /\ refs \in [Objects -> SUBSET Threads]
    /\ temp \in [Objects -> SUBSET AllThreads]
    /\ pc \in [AllThreads -> Steps]
    /\ local \in [AllThreads -> Objects \cup {NoObject}]
    /\ after \in [AllThreads -> {"idle", "loggedOut"}]
    /\ aborted \in BOOLEAN
    /\ stray \in BOOLEAN

RegistryInit ==
    /\ registry = NoObject
    /\ managerMutex = NoThread
    /\ userState = "active"
    /\ userMutex = NoThread
    /\ userSession = NoObject
    /\ waitingSession = NoObject
    /\ created = 0
    /\ stopPolicy \in StopPolicies
    /\ state = [o \in Objects |-> "inactive"]
    /\ refs = [o \in Objects |-> {}]
    /\ temp = [o \in Objects |-> {}]
    /\ pc = [t \in AllThreads |-> "idle"]
    /\ local = [t \in AllThreads |-> NoObject]
    /\ after = [t \in AllThreads |-> "idle"]
    /\ aborted = FALSE
    /\ stray = FALSE

-----------------------------------------------------------------------------
At(t, step) == ~aborted /\ pc[t] = step
Goto(t, step) == pc' = [pc EXCEPT ![t] = step]

\* m_external_reference.expired()
Expired(o) == refs[o] = {} /\ temp[o] = {}

\* What a weak pointer to o can be locked for: somebody holds a strong one.
Alive(o) ==
    o # NoObject /\ (registry = o \/ ~Expired(o) \/ \E t \in AllThreads : local[t] = o)

\* Thread t has made o Inactive and has not unregistered it yet.
InTail(t, o) == pc[t] = "unregister" /\ local[t] = o

\* Inactive::enter_state: the state mutex is released before unregister_session
Deactivate(t, o, next) ==
    /\ state' = [state EXCEPT ![o] = "inactive"]
    /\ Goto(t, "unregister")
    /\ local' = [local EXCEPT ![t] = o]
    /\ after' = [after EXCEPT ![t] = next]

\* The states in which SyncSession::close and log_out do something.
CanDeactivate(o) == state[o] # "inactive"

\* SyncSession::close by thread t, which goes on at next when it does nothing more
Close(t, o, next) ==
    \/ /\ state[o] = "live" /\ stopPolicy = "Immediately"
       /\ Deactivate(t, o, "idle")
    \/ /\ state[o] = "live" /\ stopPolicy = "AfterChangesUploaded"
       /\ state' = [state EXCEPT ![o] = "closing"]
       /\ Goto(t, next) /\ UNCHANGED <<local, after>>
    \/ /\ state[o] # "live" \/ stopPolicy = "LiveIndefinitely"
       /\ Goto(t, next) /\ UNCHANGED <<state, local, after>>

\* SyncSession::revive_if_needed
Revive(o) ==
    /\ state' = [state EXCEPT ![o] = "live"]
    /\ stray' = \/ stray
                \/ state[o] = "inactive" /\ \E t \in AllThreads : InTail(t, o)
                \/ registry # o /\ Expired(o)

Finish(t) ==
    /\ Goto(t, "idle")
    /\ local' = [local EXCEPT ![t] = NoObject]
    /\ UNCHANGED after

-----------------------------------------------------------------------------
\* SyncManager::get_session, under m_session_mutex to the end.  A new session gets
\* its reference at once, an existing one only after it was registered.
GetRegistered(t) ==
    /\ At(t, "idle") /\ managerMutex = NoThread /\ registry # NoObject
    /\ t \notin refs[registry]
    /\ managerMutex' = t
    /\ local' = [local EXCEPT ![t] = registry]
    /\ Goto(t, "register")
    /\ UNCHANGED <<registry, userMutex, userMaps, sessions, after, aborted, stray>>

GetNew(t) ==
    /\ At(t, "idle") /\ managerMutex = NoThread /\ registry = NoObject
    /\ created < MaxObjects /\ \A o \in Objects : t \notin refs[o]
    /\ managerMutex' = t
    /\ created' = created + 1
    /\ registry' = created + 1
    /\ refs' = [refs EXCEPT ![created + 1] = {t}]
    /\ local' = [local EXCEPT ![t] = created + 1]
    /\ Goto(t, "register")
    /\ UNCHANGED <<userMutex, userMaps, stopPolicy, state, temp, after, aborted, stray>>

\* SyncUser::register_session: the user's mutex is released before the revival
RegisterSession(t) ==
    /\ At(t, "register") /\ userMutex = NoThread
    /\ \/ /\ userState = "active"
          /\ userSession' = local[t]
          /\ Goto(t, "revive") /\ UNCHANGED waitingSession
       \/ /\ userState = "loggedOut"
          /\ waitingSession' = local[t]
          /\ Goto(t, "takeRef") /\ UNCHANGED userSession
       \/ /\ userState = "error"
          /\ Goto(t, "takeRef") /\ UNCHANGED <<userSession, waitingSession>>
    /\ UNCHANGED <<registry, locks, userState, sessions, local, after, aborted, stray>>

ReviveRegistered(t) ==
    /\ At(t, "revive")
    /\ Revive(local[t])
    /\ Goto(t, "takeRef")
    /\ UNCHANGED <<registry, locks, userMaps, created, stopPolicy, refs, temp, local, after, aborted>>

\* SyncSession::external_reference, and the end of get_session
TakeReference(t) ==
    /\ At(t, "takeRef")
    /\ refs' = [refs EXCEPT ![local[t]] = @ \cup {t}]
    /\ managerMutex' = NoThread
    /\ Finish(t)
    /\ UNCHANGED <<registry, userMutex, userMaps, created, stopPolicy, state, temp, aborted, stray>>

\* A thread drops its reference; the last one runs ~ExternalReference.
DropReference(t, o) ==
    /\ At(t, "idle") /\ t \in refs[o]
    /\ refs' = [refs EXCEPT ![o] = @ \ {t}]
    /\ IF refs[o] = {t} /\ temp[o] = {}
       THEN Goto(t, "dropped") /\ local' = [local EXCEPT ![t] = o] /\ UNCHANGED after
       ELSE Finish(t)
    /\ UNCHANGED <<registry, locks, userMaps, created, stopPolicy, state, temp, aborted, stray>>

\* did_drop_external_reference: nothing to do if there is a new reference by now
DidDropReference(t) ==
    /\ At(t, "dropped")
    /\ IF Expired(local[t])
       THEN Close(t, local[t], "tailEnd")
       ELSE Goto(t, "tailEnd") /\ UNCHANGED <<state, local, after>>
    /\ UNCHANGED <<registry, locks, userMaps, created, stopPolicy, refs, temp, aborted, stray>>

-----------------------------------------------------------------------------
\* SyncManager::unregister_session: of whatever session has the path now.  The
\* reference it takes to see if there is one lives until the end of the statement.
KeepsEntry_Never(o) == FALSE
KeepsEntry(o) == ~Expired(o)

UnregisterMissing(t) ==
    /\ At(t, "unregister") /\ managerMutex = NoThread /\ registry = NoObject
    /\ aborted' = TRUE
    /\ UNCHANGED <<registry, locks, userMaps, sessions, stack, stray>>

UnregisterReferenced(t) ==
    /\ At(t, "unregister") /\ managerMutex = NoThread /\ registry # NoObject
    /\ KeepsEntry(registry)
    /\ managerMutex' = t
    /\ temp' = [temp EXCEPT ![registry] = @ \cup {t}]
    /\ Goto(t, "tempRef")
    /\ UNCHANGED <<registry, userMutex, userMaps, created, stopPolicy, state, refs, local, after, aborted, stray>>

Unregister(t) ==
    /\ At(t, "unregister") /\ managerMutex = NoThread /\ registry # NoObject
    /\ ~KeepsEntry(registry)
    /\ registry' = NoObject
    /\ Goto(t, "tailEnd")
    /\ UNCHANGED <<locks, userMaps, sessions, local, after, aborted, stray>>

\* The temporary reference goes: it may be the last one by now.
DropTemporary(t) ==
    /\ At(t, "tempRef")
    /\ temp' = [temp EXCEPT ![registry] = @ \ {t}]
    /\ IF refs[registry] = {} /\ temp[registry] = {t}
       THEN Goto(t, "tempDropped") /\ UNCHANGED managerMutex
       ELSE Goto(t, "tailEnd") /\ managerMutex' = NoThread
    /\ UNCHANGED <<registry, userMutex, userMaps, created, stopPolicy, state, refs, local, after, aborted, stray>>

\* ... and then did_drop_external_reference runs under m_session_mutex.  If it makes
\* the session Inactive, unregister_session waits for a mutex this thread holds.
DidDropTemporary(t) ==
    /\ At(t, "tempDropped")
    /\ IF Expired(registry)
       THEN Close(t, registry, "tailEnd")
       ELSE Goto(t, "tailEnd") /\ UNCHANGED <<state, local, after>>
    /\ managerMutex' = IF pc'[t] = "tailEnd" THEN NoThread ELSE managerMutex
    /\ UNCHANGED <<registry, userMutex, userMaps, created, stopPolicy, refs, temp, aborted, stray>>

\* The rest of Inactive::enter_state, and the return to the caller, who drops its
\* pointer unless it goes on with the session.
TailEnd(t) ==
    /\ At(t, "tailEnd")
    /\ IF after[t] = "loggedOut"
       THEN Goto(t, "loggedOut") /\ UNCHANGED <<local, after>>
       ELSE Finish(t)
    /\ UNCHANGED <<registry, locks, userMaps, sessions, aborted, stray>>

-----------------------------------------------------------------------------
StateAfterLogOut == "loggedOut"

\* SyncUser::log_out, under m_mutex to the end, also while the session is logged out
UserLogOut(t) ==
    /\ At(t, "idle") /\ userMutex = NoThread /\ userState # "loggedOut"
    /\ userMutex' = t
    /\ userState' = StateAfterLogOut
    /\ IF Alive(userSession) /\ CanDeactivate(userSession)
       THEN Deactivate(t, userSession, "loggedOut")
       ELSE /\ local' = [local EXCEPT ![t] = IF Alive(userSession) THEN userSession ELSE NoObject]
            /\ Goto(t, "loggedOut") /\ UNCHANGED <<state, after>>
    /\ UNCHANGED <<registry, managerMutex, userSession, waitingSession, created, stopPolicy, refs, temp, aborted, stray>>

UserLoggedOut(t) ==
    /\ At(t, "loggedOut")
    /\ waitingSession' = IF local[t] # NoObject THEN local[t] ELSE waitingSession
    /\ userSession' = NoObject
    /\ userMutex' = NoThread
    /\ Goto(t, "idle")
    /\ local' = [local EXCEPT ![t] = NoObject]
    /\ after' = [after EXCEPT ![t] = "idle"]
    /\ UNCHANGED <<registry, managerMutex, userState, sessions, aborted, stray>>

\* SyncUser::update_refresh_token of a user who is logged out; the session that was
\* waiting is revived after m_mutex is released.  For an Active user only the token
\* changes, and for one in the Error state nothing.
UserLogIn(t) ==
    /\ At(t, "idle") /\ userMutex = NoThread /\ userState = "loggedOut"
    /\ userState' = "active"
    /\ waitingSession' = NoObject
    /\ IF Alive(waitingSession)
       THEN /\ userSession' = waitingSession
            /\ local' = [local EXCEPT ![t] = waitingSession]
            /\ Goto(t, "reactivate")
       ELSE UNCHANGED <<userSession, local, pc>>
    /\ UNCHANGED <<registry, locks, sessions, after, aborted, stray>>

Reactivate(t) ==
    /\ At(t, "reactivate")
    /\ Revive(local[t])
    /\ Finish(t)
    /\ UNCHANGED <<registry, locks, userMaps, created, stopPolicy, refs, temp, aborted>>

\* RLMSyncSession's suspend and resume, on a session the application has a weak
\* pointer to: SyncSession::log_out and revive_if_needed.
Suspend(t, o) ==
    /\ At(t, "idle") /\ Alive(o) /\ CanDeactivate(o)
    /\ Deactivate(t, o, "idle")
    /\ UNCHANGED <<registry, locks, userMaps, created, stopPolicy, refs, temp, aborted, stray>>

Resume(t, o) ==
    /\ At(t, "idle") /\ Alive(o)
    /\ Revive(o)
    /\ UNCHANGED <<registry, locks, userMaps, created, stopPolicy, refs, temp, stack, aborted>>

\* On the event loop: the uploads of a closing session are done, or a fatal error
\* makes the session Inactive.
EventLoopDeactivates(o) ==
    /\ At(Loop, "idle") /\ Alive(o) /\ CanDeactivate(o)
    /\ Deactivate(Loop, o, "idle")
    /\ UNCHANGED <<registry, locks, userMaps, created, stopPolicy, refs, temp, aborted, stray>>

\* On the event loop: the authentication of a session was refused, and SyncUser::invalidate
\* follows.
UserInvalidated(o) ==
    /\ At(Loop, "idle") /\ Alive(o) /\ CanDeactivate(o) /\ userMutex = NoThread
    /\ userState' = "error"
    /\ UNCHANGED <<registry, locks, userSession, waitingSession, sessions, stack, aborted, stray>>

Aborted == aborted /\ UNCHANGED registryVars

GetSession(t) ==
    \/ GetRegistered(t) \/ GetNew(t) \/ RegisterSession(t)
    \/ ReviveRegistered(t) \/ TakeReference(t)

ReleaseReference(t) ==
    (\E o \in Objects : DropReference(t, o)) \/ DidDropReference(t)

UnregisterSession(t) ==
    \/ UnregisterMissing(t) \/ UnregisterReferenced(t) \/ Unregister(t)
    \/ DropTemporary(t) \/ DidDropTemporary(t) \/ TailEnd(t)

UserCall(t) ==
    \/ UserLogOut(t) \/ UserLoggedOut(t) \/ UserLogIn(t) \/ Reactivate(t)
    \/ \E o \in Objects : Suspend(t, o) \/ Resume(t, o)

RegistryNext ==
    \/ \E t \in Threads : GetSession(t) \/ ReleaseReference(t) \/ UserCall(t)
    \/ \E t \in AllThreads : UnregisterSession(t)
    \/ \E o \in Objects : EventLoopDeactivates(o) \/ UserInvalidated(o)
    \/ Aborted

RegistrySpec == RegistryInit /\ [][RegistryNext]_registryVars

-----------------------------------------------------------------------------
\* The properties below are about use without stray revivals: no session is revived
\* between becoming Inactive and the unregister_session that follows, nor when it
\* is neither registered nor referenced.

\* Two sync::Sessions never work on one Realm file: at most one SyncSession of the
\* path is not Inactive, and it is the one SyncManager hands out.
OneSessionPerPath ==
    ~stray => \A o \in Objects : Alive(o) /\ state[o] # "inactive" => registry = o

\* A SyncSession with an external reference stays registered, also while its user is
\* logged out: whoever opens the Realm again gets the same one.
ReferencedIsRegistered ==
    ~stray => \A o \in Objects : refs[o] # {} => registry = o

\* unregister_session always finds an entry for the path (its REALM_ASSERT).
UnregisterFindsEntry == aborted => stray

\* Why they hold.  Whatever is referenced or at work is the registered session; a
\* thread on its way to unregister_session has made that very session Inactive, and
\* there is one such thread at most; the threads inside get_session and inside
\* unregister_session hold the manager's mutex.
ReferencedOrWorking ==
    \A o \in Objects : ~Expired(o) \/ state[o] # "inactive" => registry = o

TailsOfRegistered ==
    \A t \in AllThreads : pc[t] = "unregister" =>
        /\ local[t] \in Objects /\ registry = local[t] /\ state[local[t]] = "inactive"
        /\ \A s \in AllThreads : pc[s] = "unregister" => s = t

UnderManagerMutex ==
    \A t \in AllThreads :
        /\ pc[t] \in {"register", "revive", "takeRef"} =>
               managerMutex = t /\ registry = local[t] /\ local[t] \in Objects
        /\ pc[t] \in {"tempRef", "tempDropped"} => managerMutex = t /\ registry \in Objects
        /\ pc[t] \in {"dropped", "reactivate"} => local[t] \in Objects

RegistryInv ==
    ~stray => ReferencedOrWorking /\ TailsOfRegistered /\ UnderManagerMutex /\ ~aborted

-----------------------------------------------------------------------------
\* sync_user.cpp 141: "Note that we do this after releasing the lock, since the session
\* may need to access protected User state": calls into the other classes do not make
\* two threads wait for each other's mutex, or one for its own.  Refuted: log_out
\* calls the session under the user's mutex, and get_session calls the user under
\* the manager's.
NoLockCycle ==
    \A t \in AllThreads :
        /\ ~(pc[t] = "unregister" /\ managerMutex = t)
        /\ ~(pc[t] = "unregister" /\ userMutex = t
             /\ \E s \in AllThreads : managerMutex = s /\ pc[s] = "register")

=============================================================================
