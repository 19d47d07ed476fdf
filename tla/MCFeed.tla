------------------------------- MODULE MCFeed -------------------------------
(***************************************************************************)
(* Feed with six words: order ids 1 to 5 wrap while a pool of two is full, *)
(* a mid at the floor puts bids below zero (they wrap to the largest       *)
(* price) and at zero (the sentinel).                                      *)
(***************************************************************************)
EXTENDS Feed

(* A permutation of the words that is its own inverse and moves every one  *)
(* but two, as reversing bytes does.                                       *)
MCBswap32 == [w \in 0 .. 5 |-> CASE w = 1 -> 2 [] w = 2 -> 1 [] w = 3 -> 4
                                 [] w = 4 -> 3 [] OTHER -> w]
MCMidMoves == {-1, 1, 0}

(* Nothing reads the remembered quote, the buffer once it is sent, nor a   *)
(* slot once the NIC has read it: states that differ in them only have the *)
(* same behaviours.                                                        *)
MCView == <<resting, mid_price, next_order_id, generated, orders, levels,
            program, sent, next_slot, posted,
            [i \in DOMAIN posted |-> slots[posted[i].slot]], completed, reap_due,
            faults, damaged, collided>>
=============================================================================
