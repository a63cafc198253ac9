---------------------------- MODULE TokenRefresh ----------------------------
(***************************************************************************)
(* RLMSyncSessionRefreshHandle: how the Cocoa binding gets access tokens   *)
(* for a session and refreshes them, with the registry of handles in       *)
(* CocoaSyncUserContext.                                                   *)
(*                                                                         *)
(* A session is revived by a thread that let go of the user's mutex before *)
(* and does not look at the user again; it then runs the bind handler. An  *)
(* answer is handled on a thread of NSURLSession, timers are set and fire  *)
(* on the main queue, and the application logs its user out and in:        *)
(* nothing but the mutex of the registry orders them. A handle lives as    *)
(* long as the registry, its timer, a block on the main queue or a call to *)
(* one of its methods holds it; a request holds it weakly.                 *)
(*                                                                         *)
(* One path of one user, and one SyncSession object for it at a time (see  *)
(* SyncSession.tla and SessionRegistry.tla). SyncManager keeps its users   *)
(* alive, so the branches for a user that is gone are not reached.         *)
(***************************************************************************)
EXTENDS Integers, FiniteSets

CONSTANTS
    MaxHandles,   \* bound: refresh handles made
    MaxSessions,  \* bound: SyncSession objects made for the path
    MaxRevivers,  \* bound: threads about to revive the session at a time
    MaxLogOuts    \* bound: log outs by the application

ASSUME BoundsAssumption ==
    /\ MaxHandles \in Nat \ {0} /\ MaxSessions \in Nat \ {0} /\ MaxRevivers \in Nat \ {0}
    /\ MaxLogOuts \in Nat

VARIABLES
    session,     \* state of the SyncSession ("active": Active or Dying; "none": there is no object)
    gen,         \* how many SyncSession objects there were
    user,        \* state of the user
    reviving,    \* threads that hold the session and are about to call revive_if_needed
    asking,      \* threads that are about to call the bind handler
    binding,     \* handles that were made and are not registered yet
    registered,  \* m_refresh_handles of the path, 0 for none
    made,        \* handles made so far
    stage,       \* what each handle is at
    of,          \* the session of each handle
    strong,      \* the handles with a _strongSession
    leaving,     \* log_out returned, invalidate_all_handles is still to come
    logOuts,     \* log outs by the application
    excused,     \* history: since the last bind the refreshing was given up, or cut off by a race
    detached     \* history: handles that left the registry with a timer or a block to come

world == <<session, gen, user, reviving, asking, leaving, logOuts>>
registry == <<binding, registered, made, of>>
vars == <<world, registry, stage, strong, excused, detached>>

Handles == 1 .. MaxHandles
Answers == {"token", "network", "auth", "other", "malformed"}
Calls == Answers \cup {"leaving", "queued"}   \* a call, or a block that holds the handle
Live == {"waiting", "active"}

TypeOK ==
    /\ session \in {"none", "waiting", "active", "inactive"} /\ gen \in 0 .. MaxSessions
    /\ user \in {"in", "out"} /\ reviving \in 0 .. MaxRevivers
    /\ asking \in 0 .. MaxHandles /\ made \in 0 .. MaxHandles /\ asking + made <= MaxHandles
    /\ binding \subseteq 1 .. made /\ registered \in 0 .. made
    /\ stage \in [Handles -> {"unmade", "requesting", "leaving", "queued", "timed", "done"} \cup Answers]
    /\ \A h \in Handles : stage[h] = "unmade" <=> h > made
    /\ of \in [Handles -> 0 .. gen] /\ strong \subseteq 1 .. made
    /\ leaving \in 0 .. MaxLogOuts /\ logOuts \in 0 .. MaxLogOuts /\ leaving <= logOuts
    /\ excused \in BOOLEAN /\ detached \subseteq 1 .. made

Init ==
    /\ session = "none" /\ gen = 0 /\ user = "in" /\ reviving = 0 /\ asking = 0
    /\ binding = {} /\ registered = 0 /\ made = 0
    /\ stage = [h \in Handles |-> "unmade"] /\ of = [h \in Handles |-> 0] /\ strong = {}
    /\ leaving = 0 /\ logOuts = 0 /\ excused = FALSE /\ detached = {}

-----------------------------------------------------------------------------
\* The session, and the user.

\* The session waits for a token, and a thread goes on to call the bind handler.
Ask ==
    /\ asking + made < MaxHandles
    /\ session' = "waiting" /\ asking' = asking + 1 /\ excused' = FALSE

\* A thread lets go of the user's mutex and goes on to revive the session it holds.
GoOnToRevive == reviving < MaxRevivers /\ reviving' = reviving + 1

\* get_session makes the session, inactive, and register_session looks at the user: while the user
\* is logged out the session waits.
Open ==
    /\ session = "none" /\ gen < MaxSessions
    /\ session' = "inactive" /\ gen' = gen + 1
    /\ IF user = "in" THEN GoOnToRevive ELSE UNCHANGED reviving
    /\ UNCHANGED <<user, asking, leaving, logOuts, registry, stage, strong, excused, detached>>

\* -[RLMSyncSession resume], and get_session for a session that exists, which looks at the user
Resume ==
    /\ session # "none" /\ GoOnToRevive
    /\ UNCHANGED <<session, gen, user, asking, leaving, logOuts, registry, stage, strong, excused, detached>>

\* revive_if_needed: the user may have been logged out since.
Revive ==
    /\ reviving > 0 /\ reviving' = reviving - 1
    /\ IF session = "inactive" THEN Ask ELSE UNCHANGED <<session, asking, excused>>
    /\ UNCHANGED <<gen, user, leaving, logOuts, registry, stage, strong, detached>>

\* access_token_expired, and handle_reconnect for a session that still waits
AskAgain ==
    /\ session \in Live /\ Ask
    /\ UNCHANGED <<gen, user, reviving, leaving, logOuts, registry, stage, strong, detached>>

Close ==
    /\ session \in Live /\ session' = "inactive"
    /\ UNCHANGED <<gen, user, reviving, asking, leaving, logOuts, registry, stage, strong, excused, detached>>

Alive_Registered(h) == h = registered \/ stage[h] \in Calls \cup {"timed"}
Alive(h) ==
    \/ h = registered \/ h \in binding
    \/ stage[h] \in Calls \cup {"timed"}

\* The last strong reference goes; a thread that revives the session or binds it holds one.
Destroy ==
    /\ session = "inactive" /\ reviving = 0 /\ asking = 0 /\ binding = {}
    /\ \A h \in strong : Alive(h) => of[h] # gen
    /\ session' = "none"
    /\ UNCHANGED <<gen, user, reviving, asking, leaving, logOuts, registry, stage, strong, excused, detached>>

\* SyncUser::log_out, with the session; nothing for a user that is logged out, whatever the
\* session is at.
UserLogOut ==
    /\ user' = "out"
    /\ session' = IF user = "in" /\ session \in Live THEN "inactive" ELSE session

LogOut ==
    /\ logOuts < MaxLogOuts
    /\ UserLogOut
    /\ leaving' = leaving + 1 /\ logOuts' = logOuts + 1
    /\ UNCHANGED <<gen, reviving, asking, registry, stage, strong, excused, detached>>

\* update_refresh_token: the waiting session is revived afterwards.
LogIn ==
    /\ user = "out" /\ user' = "in"
    /\ IF session # "none" THEN GoOnToRevive ELSE UNCHANGED reviving
    /\ UNCHANGED <<session, gen, asking, leaving, logOuts, registry, stage, strong, excused, detached>>

-----------------------------------------------------------------------------
\* Handles and their registry.

\* invalidate, with the timer it stops
Stopped_Not(s) == s
Stopped(s) == IF s = "timed" THEN "done" ELSE s

StopRegistered == [h \in Handles |-> IF h = registered THEN Stopped(stage[h]) ELSE stage[h]]

\* A handle that leaves the registry goes on if something else holds it.
Detach(holding) ==
    detached' = detached \cup {h \in Handles : h = registered /\ stage[h] \in holding}


\* initWithRealmURL: the request is sent before the handle is registered.
MakeHandle ==
    /\ asking > 0
    /\ asking' = asking - 1 /\ made' = made + 1
    /\ binding' = binding \cup {made'} /\ strong' = strong \cup {made'}
    /\ stage' = [stage EXCEPT ![made'] = "requesting"]
    /\ of' = [of EXCEPT ![made'] = gen]
    /\ UNCHANGED <<session, gen, user, reviving, leaving, logOuts, registered, excused, detached>>

\* register_refresh_handle. A handle that is done already takes the place of one that works.
Register(h) ==
    /\ h \in binding
    /\ binding' = binding \ {h} /\ registered' = h
    /\ stage' = StopRegistered
    /\ strong' = strong \ {registered}
    /\ Detach(Calls)
    /\ excused' = (excused \/ stage[h] = "done")
    /\ UNCHANGED <<world, made, of>>

\* invalidate_all_handles. It cuts off a session that was revived after the log out.
InvalidateAll ==
    /\ registered' = 0
    /\ strong' = strong \ {registered}
    /\ Detach(Calls)
    /\ excused' = (excused \/ (session \in Live /\ registered # 0 /\ of[registered] = gen))

LogOutEnds ==
    /\ leaving > 0 /\ leaving' = leaving - 1
    /\ stage' = StopRegistered
    /\ InvalidateAll
    /\ UNCHANGED <<session, gen, user, reviving, asking, logOuts, binding, made, of>>

\* unregister_refresh_handle erases whatever handle is there; h itself is done.
Unregister(h) ==
    /\ registered' = 0
    /\ IF registered = h THEN UNCHANGED detached ELSE Detach(Calls \cup {"timed"})
    /\ excused' = (excused \/ of[h] = gen \/ registered \notin {0, h})

-----------------------------------------------------------------------------
\* Answers. One that comes when its handle is gone is dropped.

Answer(h, answer) ==
    /\ stage[h] = "requesting"
    /\ stage' = [stage EXCEPT ![h] = IF Alive(h) THEN answer ELSE "done"]
    /\ UNCHANGED <<world, registry, strong, excused, detached>>

SessionAlive(h) == session # "none" /\ of[h] = gen
TokenTaken_Lost(s) == s
TokenTaken(s) == IF s = "waiting" THEN "active" ELSE s

\* scheduleRefreshTimer, with the session no longer held
Reschedule(h) ==
    /\ stage' = [stage EXCEPT ![h] = "queued"]
    /\ strong' = strong \ {h}

\* _handleSuccessfulRequest
HandleToken(h) ==
    /\ stage[h] = "token"
    /\ IF SessionAlive(h)
       THEN /\ session' = TokenTaken(session)
            /\ Reschedule(h)
            /\ UNCHANGED <<registered, excused, detached>>
       ELSE /\ stage' = [stage EXCEPT ![h] = "done"] /\ strong' = strong \ {h}
            /\ Unregister(h)
            /\ UNCHANGED session
    /\ UNCHANGED <<gen, user, reviving, asking, leaving, logOuts, binding, made, of>>

\* _handleFailedRequest, for an error of the network
Retry(h) ==
    /\ stage[h] = "network"
    /\ Reschedule(h)
    /\ UNCHANGED <<world, registry, excused, detached>>

\* reportInvalidAccessToken, when the application has set an error handler
ReportInvalidToken(h) ==
    /\ stage[h] = "auth"
    /\ \/ UserLogOut /\ stage' = [stage EXCEPT ![h] = "leaving"]
       \/ stage' = [stage EXCEPT ![h] = "other"] /\ UNCHANGED <<user, session>>
    /\ UNCHANGED <<gen, reviving, asking, leaving, logOuts, registry, strong, excused, detached>>

InvalidTokenReported(h) ==
    /\ stage[h] = "leaving"
    /\ stage' = [StopRegistered EXCEPT ![h] = "other"]
    /\ InvalidateAll
    /\ UNCHANGED <<world, binding, made, of>>

\* The rest of _handleFailedRequest: a session that is held strongly is logged out.
GiveUp(h) ==
    /\ stage[h] = "other"
    /\ session' = IF h \in strong /\ session \in Live /\ of[h] = gen THEN "inactive" ELSE session
    /\ stage' = [stage EXCEPT ![h] = "done"] /\ strong' = strong \ {h}
    /\ Unregister(h)
    /\ UNCHANGED <<gen, user, reviving, asking, leaving, logOuts, binding, made, of>>

\* _onRefreshCompletionWithError, for JSON that is no token: the session stays held.
GiveUpMalformed(h) ==
    /\ stage[h] = "malformed"
    /\ stage' = [stage EXCEPT ![h] = "done"]
    /\ Unregister(h)
    /\ UNCHANGED <<world, binding, made, of, strong>>

-----------------------------------------------------------------------------
\* The main queue.

SetTimer(h) ==
    /\ stage[h] = "queued"
    /\ stage' = [stage EXCEPT ![h] = "timed"]
    /\ UNCHANGED <<world, registry, strong, excused, detached>>

\* The block runs when the token is about to expire, or has.
TooLate(h) ==
    /\ stage[h] = "queued"
    /\ stage' = [stage EXCEPT ![h] = "done"]
    /\ Unregister(h)
    /\ UNCHANGED <<world, binding, made, of, strong>>

\* _timerFired
Fire(h) ==
    /\ stage[h] = "timed"
    /\ stage' = [stage EXCEPT ![h] = "requesting"]
    /\ UNCHANGED <<world, registry, strong, excused, detached>>

Handle(h) ==
    \/ HandleToken(h) \/ Retry(h) \/ ReportInvalidToken(h) \/ InvalidTokenReported(h)
    \/ GiveUp(h) \/ GiveUpMalformed(h)
Block(h) == SetTimer(h) \/ TooLate(h)

Next ==
    \/ Open \/ Resume \/ Revive \/ AskAgain \/ Close \/ Destroy \/ LogOut \/ LogIn \/ LogOutEnds \/ MakeHandle
    \/ \E h \in Handles :
         \/ Register(h) \/ Handle(h) \/ Block(h) \/ Fire(h)
         \/ \E answer \in Answers : Answer(h, answer)

Spec == Init /\ [][Next]_vars

\* Threads, the main queue and its timers go on; the network does not fail for ever.
Fairness ==
    /\ WF_vars(Revive) /\ WF_vars(MakeHandle)
    /\ \A h \in Handles :
         /\ WF_vars(Register(h)) /\ WF_vars(Handle(h)) /\ WF_vars(Block(h)) /\ WF_vars(Fire(h))
         /\ SF_vars(Answer(h, "token"))
FairSpec == Spec /\ Fairness

-----------------------------------------------------------------------------
InService(h) ==
    /\ of[h] = gen
    /\ \/ stage[h] \in Calls \cup {"timed"}
       \/ stage[h] = "requesting" /\ Alive(h)

\* A session that waits for a token, or lives on one that will expire, always has a handle at work
\* on it, or a thread about to make one. Excused, until the next bind: the refreshing was given up
\* (an error that is not the network's, a token that expired before the main queue got to it), or
\* cut off: unregister_refresh_handle erased the handle of another bind, a handle was registered
\* only when it had finished, or invalidate_all_handles came when the session lived again. The
\* last one happens when the user is back already, and when a thread that saw the user logged in
\* revives the session after the log out: that session keeps waiting, with no handle, after the
\* next log in too, which revives inactive sessions only.
Served == session \in Live /\ ~excused => asking > 0 \/ \E h \in Handles : InService(h)

\* The tokens of a path are refreshed by one handle: only the registered one has a timer running.
\* Excused: handles that have yet to be registered, and those that left the registry while they
\* were handling an answer or had a block on the main queue (which sets the timer anew), or that
\* unregister_refresh_handle erased for the end of another handle: it stops no timer.
OneRefresher ==
    \A h \in Handles \ (binding \cup detached) : stage[h] = "timed" => h = registered

\* A session that waits for a token gets it, or stops waiting, or its refreshing ends as above:
\* errors of the network are retried until they pass.
TokenArrives == session = "waiting" ~> (session # "waiting" \/ excused)
=============================================================================
