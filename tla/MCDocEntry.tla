----------------------------- MODULE MCDocEntry -----------------------------
(* Instances of DocEntry for TLC.                                          *)
EXTENDS DocEntryInvariant, TLC

CONSTANTS s1, s2, s3, s4, b1, b2, c1, c2

\* One blob bundle at a time, or none.
SomeBundles == {{}} \cup {{b} : b \in Blob}
NoBundles   == {{}}

\* The saves and the editors differ in name only.
Alike == Permutations(Save) \cup Permutations(Client) \cup Permutations(Blob)
=============================================================================
