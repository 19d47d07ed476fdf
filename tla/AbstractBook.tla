---------------------------- MODULE AbstractBook ----------------------------
(***************************************************************************)
(* What an order book promises, with no price levels to keep up and no     *)
(* parser: each call says one thing, does that to the orders that rest and *)
(* nothing else, and the depth is counted afresh from them.                *)
(* SimpleOrderBook implements it (module OrderBook) when its depth is read *)
(* off bids_ and asks_.                                                    *)
(***************************************************************************)
EXTENDS Levels

VARIABLES
    resting,   \* the orders that rest, by id
    quote,     \* the last quote, or NoMessage
    depth,     \* depth[side][price]: the quantity anyone may trade against
    heard      \* the last call: what each step is an answer to

DepthOf(os) == [side \in Sides |-> [price \in Word |-> Depth(os, side, price)]]

Init ==
    /\ resting = EmptyMap
    /\ quote = NoMessage
    /\ depth = DepthOf(resting)
    /\ heard = [call |-> "none"]

(* What a call says.  A packet says its message only if its length field   *)
(* is that message's size and the bytes are all there, a payload only if   *)
(* it is exactly the message; anything else says nothing.                  *)
WellFramed(p) ==
    /\ Bswap16(p.wire_len) = SizeOf(p.body)
    /\ p.size >= LenPrefix + SizeOf(p.body)
WellSized(p) == p.size = SizeOf(p.body)

Said(h) ==
    IF h.call = "packet" /\ WellFramed(h.bytes) THEN SwapFields(h.bytes.body)
    ELSE IF h.call = "message" /\ WellSized(h.bytes) THEN h.bytes.body
    ELSE NoMessage

(* An order arrives, or takes the place of the one with its id.            *)
Enter(id, order) == resting' = Put(resting, id, order)

(* Some of the order leaves, by cancellation or trade, if it rests at all. *)
(* An order never owes quantity, and one with nothing left is gone.        *)
Leave(id, qty) ==
    resting' = IF id \notin DOMAIN resting THEN resting
               ELSE IF resting[id].quantity <= qty THEN Erase(resting, id)
               ELSE [resting EXCEPT ![id].quantity = @ - qty]

(* No order is larger than this: a cancel of quantity 0 takes all.         *)
All == WordMod - 1

Obey(m) ==
    \/ /\ m.type = "AddOrder"
       /\ Enter(m.order_id, [side |-> m.side, price |-> m.price,
                             quantity |-> m.quantity])
       /\ UNCHANGED quote
    \/ /\ m.type = "CancelOrder"
       /\ Leave(m.order_id, IF m.quantity = 0 THEN All ELSE m.quantity)
       /\ UNCHANGED quote
    \/ /\ m.type = "Execute"
       /\ Leave(m.order_id, m.exec_qty)
       /\ UNCHANGED quote
    \/ /\ m.type = "Quote"
       /\ quote' = m
       /\ UNCHANGED resting
    \/ /\ m.type = "none"
       /\ UNCHANGED <<resting, quote>>

Reset == resting' = EmptyMap /\ quote' = NoMessage

(* The step is the one the call asks for: there is no choice in it.        *)
Next ==
    /\ IF heard'.call = "clear" THEN Reset ELSE Obey(Said(heard'))
    /\ depth' = DepthOf(resting')

Spec == Init /\ [][Next]_<<resting, quote, depth, heard>>
=============================================================================
