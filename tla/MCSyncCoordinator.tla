------------------------- MODULE MCSyncCoordinator -------------------------
(***************************************************************************)
(* SyncCoordinator with small constants for TLC.                           *)
(***************************************************************************)
EXTENDS SyncCoordinator, TLC

\* The accounts are interchangeable: no action tells two of them apart.
UserSymmetry == Permutations(User)

=============================================================================
