----------------------------- MODULE MCPingPong -----------------------------
(***************************************************************************)
(* PingPong with one warm-up round and three samples of unequal lengths,   *)
(* so that recording order and sorted order differ, and two faults.        *)
(***************************************************************************)
EXTENDS PingPong
=============================================================================
