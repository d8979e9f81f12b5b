----------------------------- MODULE MCPowerLoss -----------------------------
(***************************************************************************)
(* Instances of PowerLoss for TLC.                                         *)
(***************************************************************************)
EXTENDS PowerLoss

(* The barrier itself may fail. *)
SyncFaults == {<<"syncWAL", "early">>}

NoImages == {[c \in Coords |-> Absent]}
================================================================================
