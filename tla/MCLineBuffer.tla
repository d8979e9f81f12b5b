----------------------------- MODULE MCLineBuffer -----------------------------
(* An instance of LineBuffer for TLC. *)
EXTENDS LineBuffer
================================================================================
