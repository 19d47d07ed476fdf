-------------------------- MODULE PacketGenerator --------------------------
(***************************************************************************)
(* waler::PacketGenerator (PacketGenerator.hpp): a pool of the orders it   *)
(* believes rest in the market, a wandering mid price, and one market-data *)
(* packet per call of nextPacket().  The random draws are nondeterministic *)
(* choices; the caller's buffer is the 1024 bytes both callers pass, so    *)
(* writeMessage always has room.                                           *)
(***************************************************************************)
EXTENDS MarketData, SequencesExt

CONSTANTS
    PoolMax,       \* kRestingPool, 512 in the code
    Tick,          \* kTickSize
    Dists,         \* how far from mid randPrice may place an order
    Qtys,          \* what randQty may return
    InitialMid,    \* kInitialMidPrice
    MidMoves,      \* how far one evolveMid may move the mid
    MidMax,        \* bound of the model: the mid stays at or below it
    EvolveEvery    \* calls between two evolveMid, 50 in the code

GeneratorAssumption ==
    /\ PoolMax \in Nat \ {0}
    /\ Tick \in Nat \ {0}
    /\ Dists \subseteq Nat /\ Dists # {} /\ \A d \in Dists : d >= Tick
    /\ Qtys \subseteq Word \ {0}
    /\ MidMoves \subseteq Int /\ 0 \in MidMoves
    /\ MidMax \in Nat /\ InitialMid \in Tick .. MidMax
    /\ \A d \in Dists : MidMax + d < WordMod - 1
    /\ EvolveEvery \in Nat \ {0}

VARIABLES
    resting,         \* resting_[0 .. resting_count_ - 1]
    mid_price,
    next_order_id,
    generated,       \* messages_generated_ % EvolveEvery
    packet           \* the caller's buffer: the last packet written

vars == <<resting, mid_price, next_order_id, generated, packet>>

PoolOrder == [order_id : Word, price : Word, quantity : Word, side : Sides]

TypeOK ==
    /\ resting \in Seq(PoolOrder) /\ Len(resting) <= PoolMax
    /\ mid_price \in Tick .. MidMax
    /\ next_order_id \in Word \ {0}
    /\ generated \in 0 .. EvolveEvery - 1
    /\ packet \in Packet

NoPacket == [size |-> 0, wire_len |-> 0, body |-> NoMessage]

Init ==
    /\ resting = <<>>
    /\ mid_price = InitialMid
    /\ next_order_id = 1
    /\ generated = 0
    /\ packet = NoPacket

(* randPrice: a bid further from mid than mid is from zero wraps around.   *)
RandPrice(side, mid, dist) ==
    IF side = "B" THEN (mid - dist) % WordMod ELSE (mid + dist) % WordMod

(* The mids evolveMid can leave behind, which never fall below one tick.   *)
EvolvedMids ==
    IF generated # 0 THEN {mid_price}
    ELSE {m \in {IF mid_price + move < Tick THEN Tick ELSE mid_price + move :
                    move \in MidMoves} : m <= MidMax}

(* Mutant: the last entry goes instead of the one removed.                 *)
DropLast(pool, idx) == Front(pool)

(* resting_[idx] = resting_[resting_count_ - 1]; --resting_count_          *)
SwapOut(pool, idx) == Front(ReplaceAt(pool, idx, Last(pool)))

(* The scan of buildExecute and buildQuote: the first entry whose price is *)
(* strictly better than all before it, starting from the sentinels 0 and   *)
(* the largest word, which no order at those prices beats.  Empty or one   *)
(* index.                                                                  *)
Higher(side, p, q) == p > q            \* Mutant: asks scanned like bids
Beats(side, p, q) == IF side = "B" THEN p > q ELSE p < q
Sentinel(side) == IF side = "B" THEN 0 ELSE WordMod - 1
FirstIndex(side) ==                    \* Mutant: any order will do
    LET scanned == {i \in DOMAIN resting : resting[i].side = side}
    IN {i \in scanned : \A j \in scanned : i <= j}
BestIndex(side) ==
    LET scanned == {i \in DOMAIN resting :
                        /\ resting[i].side = side
                        /\ Beats(side, resting[i].price, Sentinel(side))}
    IN {i \in scanned : \A j \in scanned :
            /\ ~Beats(side, resting[j].price, resting[i].price)
            /\ resting[j].price = resting[i].price => i <= j}

Emit(m) == packet' = WriteMessage(m)

(* next_order_id_++, and never 0.                                          *)
NextIdUnskipped == (next_order_id + 1) % WordMod      \* Mutant: 0 is an id
NextId == IF next_order_id = WordMod - 1 THEN 1 ELSE next_order_id + 1

BuildAddOrder(mid) ==
    /\ Len(resting) < PoolMax
    /\ \E side \in Sides, dist \in Dists, qty \in Qtys :
        LET price == RandPrice(side, mid, dist) IN
        /\ resting' = Append(resting, [order_id |-> next_order_id, price |-> price,
                                       quantity |-> qty, side |-> side])
        /\ Emit(AddOrder(next_order_id, side, price, qty))
    /\ next_order_id' = NextId

BuildCancelOrder ==
    \E idx \in DOMAIN resting :
        /\ resting' = SwapOut(resting, idx)
        /\ Emit(CancelOrder(resting[idx].order_id, 0))
        /\ UNCHANGED next_order_id

(* Mutant: a partly executed order is forgotten.                           *)
ExecuteForgetsRest ==
    \E side \in Sides, drawn \in Qtys : \E idx \in BestIndex(side) :
        LET order == resting[idx]
            exec_qty == IF drawn >= order.quantity THEN order.quantity ELSE drawn
        IN /\ resting' = SwapOut(resting, idx)
           /\ Emit(Execute(order.order_id, exec_qty, order.price))
           /\ UNCHANGED next_order_id

BuildExecute ==
    \E side \in Sides, drawn \in Qtys : \E idx \in BestIndex(side) :
        LET order == resting[idx]
            exec_qty == IF drawn >= order.quantity THEN order.quantity ELSE drawn
        IN /\ resting' = IF drawn >= order.quantity
                         THEN SwapOut(resting, idx)
                         ELSE [resting EXCEPT ![idx].quantity = @ - exec_qty]
           /\ Emit(Execute(order.order_id, exec_qty, order.price))
           /\ UNCHANGED next_order_id

(* The best level each way, as one order shows it, or one tick from mid    *)
(* with no quantity.                                                       *)
BuildQuote(mid) ==
    LET best(side, fallback) ==
            IF BestIndex(side) = {}
            THEN [price |-> fallback % WordMod, quantity |-> 0]
            ELSE resting[CHOOSE i \in BestIndex(side) : TRUE]
        bid == best("B", mid - Tick)
        ask == best("S", mid + Tick)
    IN /\ Emit(Quote(bid.price, bid.quantity, ask.price, ask.quantity))
       /\ UNCHANGED <<resting, next_order_id>>

(* Whether some draw makes a build*() give up: four such draws in a row    *)
(* make nextPacket fall back to a quote it does not count.                 *)
DrawMayFail ==
    \/ Len(resting) = PoolMax
    \/ \E side \in Sides : BestIndex(side) = {}

(* nextPacket() *)
NextPacket ==
    \E mid \in EvolvedMids :
        /\ mid_price' = mid
        /\ \/ /\ BuildAddOrder(mid) \/ BuildCancelOrder
                 \/ BuildExecute \/ BuildQuote(mid)
              /\ generated' = (generated + 1) % EvolveEvery
           \/ /\ DrawMayFail
              /\ BuildQuote(mid)
              /\ UNCHANGED generated

Spec == Init /\ [][NextPacket]_vars
=============================================================================
