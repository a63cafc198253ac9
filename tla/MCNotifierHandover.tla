------------------------- MODULE MCNotifierHandover -------------------------
(* Values of NotifierHandover's constants for TLC. *)
EXTENDS NotifierHandover

CONSTANTS r1, n1, n2
MCRealmOf == [n \in Notifiers |-> r1]
=============================================================================
