------------------------------ MODULE PushLink ------------------------------
(***************************************************************************)
(* What the sync client promises of the pushes handed to it, whatever      *)
(* happens to its connections: a push is taken by the room, perhaps more   *)
(* than once and in any order, and the promise given for it is kept only   *)
(* when it was.                                                            *)
(***************************************************************************)
CONSTANT Push

VARIABLES
    fate,       \* the promise of each push
    held        \* the pushes the room has taken

Fates == {"unmade", "open", "taken", "refused", "closed"}

linkVars == <<fate, held>>

LinkInit == fate = [p \in Push |-> "unmade"] /\ held = {}

Make(p) == fate[p] = "unmade" /\ fate' = [fate EXCEPT ![p] = "open"] /\ UNCHANGED held

Take(p) == fate[p] = "open" /\ held' = held \cup {p} /\ UNCHANGED fate

Settle(p) ==
    /\ fate[p] = "open"
    /\ \/ p \in held /\ fate' = [fate EXCEPT ![p] = "taken"]
       \/ fate' = [fate EXCEPT ![p] = "refused"]
    /\ UNCHANGED held

\* Whoever handed the pushes in gives them up.
Abandon ==
    /\ fate' = [p \in Push |-> IF fate[p] = "open" THEN "closed" ELSE fate[p]]
    /\ UNCHANGED held

LinkNext == Abandon \/ \E p \in Push : Make(p) \/ Take(p) \/ Settle(p)

LinkSpec == LinkInit /\ [][LinkNext]_linkVars

=============================================================================
