----------------------------- MODULE MCStoreLock ----------------------------
(* Instances of StoreLock for TLC.                                         *)
EXTENDS StoreLock, TLC

CONSTANTS k1, k2

\* Two Kitions of one device, or one of each of two.
OneDeviceOrTwo == {k1 :> "here" @@ k2 :> "here", k1 :> "here" @@ k2 :> "there"}
=============================================================================
