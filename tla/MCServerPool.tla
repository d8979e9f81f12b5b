----------------------------- MODULE MCServerPool -----------------------------
(* An instance of ServerPool for TLC: four connections for two workers and a queue of one. *)
EXTENDS ServerPool
================================================================================
