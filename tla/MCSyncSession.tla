--------------------------- MODULE MCSyncSession ---------------------------
(* Values of SyncSession's constants for TLC. *)
EXTENDS SyncSession, TLC

CONSTANTS t1, t2

\* One error of every kind, and the fatal ones that behave differently.
MCErrors ==
    {[kind |-> "ignored", fatal |-> FALSE],
     [kind |-> "expired", fatal |-> FALSE],
     [kind |-> "bad_auth", fatal |-> TRUE],
     [kind |-> "inactive", fatal |-> TRUE],
     [kind |-> "other", fatal |-> FALSE],
     [kind |-> "other", fatal |-> TRUE]}

\* The two errors that matter to uploads: a lost token, and a fatal error.
MCUploadErrors ==
    {[kind |-> "expired", fatal |-> FALSE], [kind |-> "other", fatal |-> TRUE]}

ThreadSymmetry == Permutations({t1, t2})

=============================================================================
