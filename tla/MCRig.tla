-------------------------------- MODULE MCRig --------------------------------
(***************************************************************************)
(* Rig with rings smaller than the number of packets: both fill up.        *)
(***************************************************************************)
EXTENDS Rig
=============================================================================
