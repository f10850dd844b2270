----------------------------- MODULE MCRoomSave -----------------------------
(* Model values for RoomSave. *)
EXTENDS RoomSave

CONSTANTS p1, p2

\* The first person may also press Save.
Runs3 == {<<p1, "user">>, <<p1, "timer">>, <<p2, "timer">>}

=============================================================================
