---------------------------- MODULE MCAuthThrottle ----------------------------
(* An instance of AuthThrottle for TLC. *)
EXTENDS AuthThrottle, TLC

CONSTANTS s1, s2, c1, c2, c3

(* Two connections of one source beside one of another. *)
SharedSource == (c1 :> s1) @@ (c2 :> s1) @@ (c3 :> s2)
================================================================================
