------------------------- MODULE MCCollectionChanges -------------------------
(***************************************************************************)
(* Sizes of CollectionChanges for TLC: the more collections a run of the   *)
(* notifier can find, the fewer steps.                                     *)
(***************************************************************************)
EXTENDS CollectionChanges

MCKinds == {"list", "unsorted", "sorted"}
MCInitialSize == [list |-> 3, unsorted |-> 3, sorted |-> 3]
MCMaxSteps == [list |-> 5, unsorted |-> 4, sorted |-> 3]

=============================================================================
