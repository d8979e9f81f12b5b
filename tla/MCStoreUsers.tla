----------------------------- MODULE MCStoreUsers -----------------------------
(***************************************************************************)
(* An instance of StoreUsers for TLC.                                      *)
(***************************************************************************)
EXTENDS StoreUsers

(* The failures after which the image files change, or stay behind, under  *)
(* an even generation, or a rollback intent is forgotten (section 5 of     *)
(* README.md).                                                             *)
UnstableFaults ==
    ({"persistCheckpointChunk"} \X {"early", "late"}) \cup
    {<<"clearWAL", "early">>, <<"flushSnapshot", "late">>, <<"intentExists", "early">>}

StableFaults == (Points \X {"early", "late"}) \ UnstableFaults

NoImages == {[c \in Coords |-> Absent]}
================================================================================
