--------------------------- MODULE MCSyncMetadata ---------------------------
(* Values of SyncMetadata's constants for TLC. *)
EXTENDS SyncMetadata, TLC

CONSTANTS u1, p1, p2, r1, r2
MCOwnerOf == [p \in Paths |-> u1]
MCSymmetry == Permutations(Paths) \cup Permutations(Runners)
=============================================================================
