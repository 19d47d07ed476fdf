--------------------------- MODULE MCUdpReceiver ---------------------------
(***************************************************************************)
(* UdpReceiver with a request for more buffers than the ring takes, which  *)
(* the constructor clips, batches shorter than the queue can be, and       *)
(* enough frames to fill each buffer twice.                                *)
(***************************************************************************)
EXTENDS UdpReceiver
=============================================================================
