---------------------------- MODULE MCSyncLeases ----------------------------
(* Model values for SyncLeases. *)
EXTENDS SyncLeases, TLC

CONSTANTS p1, p2

Alike == Permutations(Person)

=============================================================================
