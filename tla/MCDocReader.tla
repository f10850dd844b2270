----------------------------- MODULE MCDocReader ----------------------------
(* Instances of DocReader for TLC.                                         *)
EXTENDS DocReader, TLC

CONSTANTS s1, s2, s3, b1, c1

SomeBundles == {{}} \cup {{b} : b \in Blob}

Alike == Permutations(Save)
=============================================================================
