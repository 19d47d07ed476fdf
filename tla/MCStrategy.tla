----------------------------- MODULE MCStrategy -----------------------------
(***************************************************************************)
(* Strategy with half-cent prices that creep, jump, sit at the half spread *)
(* and below it, words of four bits, and more frames than are wanted.      *)
(***************************************************************************)
EXTENDS Strategy

(* Swaps the two halves of a word.                                         *)
MCBswap32 == [w \in 0 .. 15 |-> (w % 4) * 4 + w \div 4]
=============================================================================
