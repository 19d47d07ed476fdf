--------------------------- MODULE MCRealizedVol ---------------------------
(***************************************************************************)
(* RealizedVol with a window of two returns, which overflows after three   *)
(* observations, and observations that may share a timestamp.              *)
(***************************************************************************)
EXTENDS RealizedVol
=============================================================================
