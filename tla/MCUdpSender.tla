---------------------------- MODULE MCUdpSender ----------------------------
(***************************************************************************)
(* UdpSender with two slots, and a descriptor ring that is larger, as in   *)
(* the code (16 slots, a ring of 512).  Payloads are shorter than the      *)
(* padding, longer, and too long.                                          *)
(***************************************************************************)
EXTENDS UdpSender
=============================================================================
