---------------------------- MODULE SessionStates ----------------------------
(***************************************************************************)
(* The state machine of a SyncSession as the comment above                 *)
(* SyncSession::State documents it (sync_session.cpp 41-82), with the      *)
(* sync::Session a state owns: an abstract specification of SyncSession.   *)
(*                                                                         *)
(* A token that comes after a deferred close leads through Active to Dying *)
(* under one lock.                                                         *)
(***************************************************************************)
VARIABLES
    state,     \* WAITING_FOR_ACCESS_TOKEN, ACTIVE, DYING or INACTIVE
    connected  \* the session owns a sync::Session

vars == <<state, connected>>

Init == state = "inactive" /\ connected = FALSE

Revive ==
    \/ state = "inactive" /\ state' = "waiting" /\ UNCHANGED connected
    \/ state = "dying" /\ state' = "active" /\ UNCHANGED connected

TokenRefreshed ==
    /\ state = "waiting"
    /\ state' \in {"active", "dying"}
    /\ connected' = TRUE

TokenExpired == state = "active" /\ state' = "waiting" /\ UNCHANGED connected

Close == state = "active" /\ state' = "dying" /\ UNCHANGED connected

\* Logged out, closed at once, failed, or done with its clean-up work.
Deactivate == state # "inactive" /\ state' = "inactive" /\ connected' = FALSE

Next == Revive \/ TokenRefreshed \/ TokenExpired \/ Close \/ Deactivate

Spec == Init /\ [][Next]_vars
=============================================================================
