---- MODULE MCDocIndex ----
(* Two windows, two files and two names: one can be renamed over the other's place, and both *)
(* can be pages with something inside.                                                       *)
EXTENDS DocIndex, TLC

CONSTANTS w1, w2, f1, f2, i1, i2, n1, n2

Alike == Permutations(Window) \cup Permutations(File) \cup Permutations(Id) \cup Permutations(Name)

====
