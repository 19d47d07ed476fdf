----------------------------- MODULE MCLoopback -----------------------------
(***************************************************************************)
(* Loopback with two RX buffers and enough iterations to come round to     *)
(* each of them twice, in every mode and on both datapaths.                *)
(***************************************************************************)
EXTENDS Loopback
=============================================================================
