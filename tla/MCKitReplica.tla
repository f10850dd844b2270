---------------------------- MODULE MCKitReplica ----------------------------
(* Instances of KitReplica for TLC.                                        *)
EXTENDS KitReplica, TLC

CONSTANTS e1, e2, x1, x2, x3, x4, d1, d2

Alike == Permutations(Editor) \cup Permutations(Edit) \cup Permutations(Lineage)
=============================================================================
