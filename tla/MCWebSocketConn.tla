-------------------------- MODULE MCWebSocketConn --------------------------
(***************************************************************************)
(* Instances of WebSocketConn for TLC.  The writers are interchangeable.   *)
(***************************************************************************)
EXTENDS WebSocketConn

Symmetry == Permutations(Writers)
=============================================================================
