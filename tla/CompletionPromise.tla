-------------------------- MODULE CompletionPromise --------------------------
(***************************************************************************)
(* What wait_for_upload_completion and wait_for_download_completion        *)
(* promise the caller of a SyncSession (sync_session.hpp 142-152), with no *)
(* word of queues, threads or states: a handler is accepted once, and from *)
(* then on it may be called, once.                                         *)
(***************************************************************************)
EXTENDS Naturals

CONSTANT Waiters     \* completion handlers

VARIABLES
    accepted,  \* the handlers that were passed to the session
    calls      \* how often each was called

vars == <<accepted, calls>>

Init == accepted = {} /\ calls = [w \in Waiters |-> 0]

Accept(w) ==
    /\ w \notin accepted
    /\ accepted' = accepted \cup {w}
    /\ UNCHANGED calls

Call(w) ==
    /\ w \in accepted /\ calls[w] = 0
    /\ calls' = [calls EXCEPT ![w] = 1]
    /\ UNCHANGED accepted

Next == \E w \in Waiters : Accept(w) \/ Call(w)

Spec == Init /\ [][Next]_vars
=============================================================================
