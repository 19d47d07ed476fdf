----------------------------- MODULE OrderBook -----------------------------
(***************************************************************************)
(* waler::SimpleOrderBook (SimpleOrderBook.hpp): resting orders by id, the *)
(* total quantity at each price of each side, kept up incrementally, and   *)
(* the last quote.  One thread owns a book, so each call is one step.      *)
(*                                                                         *)
(* The four apply() overloads are the four operators Apply*; applyPacket   *)
(* and applyMessage parse their input and dispatch to them.                *)
(***************************************************************************)
EXTENDS Levels, FiniteSetsExt

CONSTANTS
    Packets,   \* the byte strings handed to applyPacket
    Payloads   \* the byte strings handed to applyMessage

ASSUME InputAssumption == Packets \subseteq Packet /\ Payloads \subseteq Payload

VARIABLES
    orders,      \* orders_: a map from order id to resting order
    levels,      \* levels["B"] is bids_, levels["S"] is asks_
    last_quote,  \* last_quote_: a Quote message, or NoMessage
    heard        \* history: the last call and the bytes it was handed

bookVars == <<orders, levels, last_quote>>
vars == <<orders, levels, last_quote, heard>>

LevelMod == WordMod * WordMod   \* levels are std::uint64_t: 2^64

NoCall == [call |-> "none"]
ClearCall == [call |-> "clear"]
Calls == {NoCall, ClearCall} \cup [call : {"packet"}, bytes : Packets]
                             \cup [call : {"message"}, bytes : Payloads]

BookTypeOK ==
    /\ IsMap(orders, Word, RestingOrder)
    /\ DOMAIN levels = Sides
    /\ \A side \in Sides : IsMap(levels[side], Word, 0 .. LevelMod - 1)
    /\ last_quote \in QuoteMessage \cup {NoMessage}

TypeOK == BookTypeOK /\ heard \in Calls

EmptyBook ==
    /\ orders = EmptyMap
    /\ levels = [side \in Sides |-> EmptyMap]
    /\ last_quote = NoMessage

Init == EmptyBook /\ heard = NoCall

(* addToLevels and removeFromLevels: any other side byte has no levels.    *)
AddToLevels(lv, side, price, qty) ==
    IF side \in Sides
    THEN [lv EXCEPT ![side] = AddLevel(@, price, qty, LevelMod)]
    ELSE lv

RemoveFromLevels(lv, side, price, qty) ==
    IF side \in Sides
    THEN [lv EXCEPT ![side] = SubtractLevel(@, price, qty)]
    ELSE lv

(* Mutant: the level of a replaced order is not taken down.                *)
AddOrderKeepsOldLevel(m) ==
    /\ orders' = Put(orders, m.order_id, [side |-> m.side, price |-> m.price,
                                          quantity |-> m.quantity])
    /\ levels' = AddToLevels(levels, m.side, m.price, m.quantity)
    /\ UNCHANGED last_quote

(* apply(AddOrderMessage): an id that already rests is replaced.           *)
ApplyAddOrder(m) ==
    LET id == m.order_id
        cleared == IF id \in DOMAIN orders
                   THEN RemoveFromLevels(levels, orders[id].side,
                                         orders[id].price, orders[id].quantity)
                   ELSE levels
    IN /\ orders' = Put(orders, id, [side |-> m.side, price |-> m.price,
                                     quantity |-> m.quantity])
       /\ levels' = AddToLevels(cleared, m.side, m.price, m.quantity)
       /\ UNCHANGED last_quote

(* Mutant: more is taken off an order than rests.                          *)
ReduceOrderUnclamped(id, reduce_qty) ==
    LET order == orders[id] IN
    /\ levels' = RemoveFromLevels(levels, order.side, order.price, reduce_qty)
    /\ orders' = IF order.quantity = reduce_qty
                 THEN Erase(orders, id)
                 ELSE [orders EXCEPT ![id].quantity = @ - reduce_qty]
    /\ UNCHANGED last_quote

(* reduceOrder: never takes more than rests, and erases an emptied order.  *)
ReduceOrder(id, reduce_qty) ==
    LET order == orders[id]
        removed_qty == IF reduce_qty >= order.quantity
                       THEN order.quantity ELSE reduce_qty
    IN /\ levels' = RemoveFromLevels(levels, order.side, order.price, removed_qty)
       /\ orders' = IF order.quantity = removed_qty
                    THEN Erase(orders, id)
                    ELSE [orders EXCEPT ![id].quantity = @ - removed_qty]
       /\ UNCHANGED last_quote

(* apply(CancelOrderMessage): quantity 0 cancels all that rests.           *)
ApplyCancelOrder(m) ==
    /\ m.order_id \in DOMAIN orders
    /\ ReduceOrder(m.order_id, IF m.quantity = 0
                               THEN orders[m.order_id].quantity
                               ELSE m.quantity)

(* apply(ExecuteMessage).                                                  *)
ApplyExecute(m) ==
    /\ m.order_id \in DOMAIN orders
    /\ ReduceOrder(m.order_id, m.exec_qty)

(* apply(QuoteMessage): remembered, never mixed into the levels.           *)
ApplyQuote(m) == last_quote' = m /\ UNCHANGED <<orders, levels>>

(* What apply() returns for message m in the current book; parsing failure *)
(* (NoMessage) returns false too.                                          *)
Accepts(m) ==
    \/ m.type \in {"AddOrder", "Quote"}
    \/ m.type \in {"CancelOrder", "Execute"} /\ m.order_id \in DOMAIN orders

Apply(m) ==
    \/ m.type = "AddOrder" /\ ApplyAddOrder(m)
    \/ m.type = "CancelOrder" /\ ApplyCancelOrder(m)
    \/ m.type = "Execute" /\ ApplyExecute(m)
    \/ m.type = "Quote" /\ ApplyQuote(m)
    \/ ~Accepts(m) /\ UNCHANGED bookVars

ApplyPacket(packet) == Apply(ParsePacket(packet))
ApplyMessage(payload) == Apply(ParsePayload(payload))

Clear ==
    /\ orders' = EmptyMap
    /\ levels' = [side \in Sides |-> EmptyMap]
    /\ last_quote' = NoMessage

Next ==
    \/ \E packet \in Packets :
          ApplyPacket(packet) /\ heard' = [call |-> "packet", bytes |-> packet]
    \/ \E payload \in Payloads :
          ApplyMessage(payload) /\ heard' = [call |-> "message", bytes |-> payload]
    \/ Clear /\ heard' = ClearCall

Spec == Init /\ [][Next]_vars

-----------------------------------------------------------------------------
(* bestBid and bestAsk: the first entry of each std::map, its quantity     *)
(* saturated to 32 bits.  NoLevel is std::nullopt.                         *)
NoLevel == [price |-> 0, quantity |-> -1]

NarrowByCast(qty) == qty % WordMod     \* Mutant: a cast that wraps
NarrowQuantity(qty) == IF qty > WordMod - 1 THEN WordMod - 1 ELSE qty

BestLevel(side) ==
    LET prices == DOMAIN levels[side]
        best == IF side = "B" THEN Max(prices) ELSE Min(prices)
    IN IF prices = {} THEN NoLevel
       ELSE [price |-> best, quantity |-> NarrowQuantity(levels[side][best])]

(* Strictly better for side: a higher bid, a lower ask.                    *)
Better(side, p, q) == IF side = "B" THEN p > q ELSE p < q

(* The prices printAnsi and printDepthChart show: the best rows of them.   *)
Rows(side, rows) ==
    {p \in DOMAIN levels[side] :
        Cardinality({q \in DOMAIN levels[side] : Better(side, q, p)}) < rows}

(* printDepthChart: the quantity down to a row, and a bar for it of        *)
(* chart_width characters at most; the rest of the field is padding.       *)
Cumulative(side, price) ==
    SumFunctionOnSet(levels[side],
                     {p \in DOMAIN levels[side] : ~Better(side, price, p)}) % LevelMod

MaxOfBids(rows) ==                     \* Mutant: the asks are forgotten
    Max({Cumulative("B", p) : p \in Rows("B", rows)} \cup {1})
MaxCumulative(rows) ==
    Max({1} \cup UNION {{Cumulative(side, p) : p \in Rows(side, rows)} : side \in Sides})

ChartWidth(width) == IF width = 0 THEN 1 ELSE width
BarWidth(side, price, rows, width) ==
    LET scaled == (Cumulative(side, price) * ChartWidth(width)) % LevelMod IN
    Max({1, scaled \div MaxCumulative(rows)})

-----------------------------------------------------------------------------
(* Every level holds exactly the quantity of the orders resting at its     *)
(* price, and a price without a level has no quantity resting: the         *)
(* incremental updates of addToLevels and subtractLevel (419-459) never    *)
(* drift from orders_, whatever ids, sides and quantities arrive.          *)
LevelsMatchOrders ==
    \A side \in Sides, price \in Word :
        At(levels[side], price) = Depth(orders, side, price)

(* No level outlives its orders: wherever bids_ or asks_ has an entry,     *)
(* some order rests.  A cancel or execution that left an empty level       *)
(* behind would show bestBid/bestAsk a price nobody quotes.  It holds even *)
(* for the zero-quantity orders apply(AddOrderMessage) lets in.            *)
NoPhantomLevel ==
    \A side \in Sides : \A price \in DOMAIN levels[side] :
        \E id \in DOMAIN orders :
            orders[id].side = side /\ orders[id].price = price

(* bestBid and bestAsk (46-60) never miss an order: no order with quantity *)
(* left rests at a better price than the one reported, and the quantity    *)
(* reported is all that rests there, or the largest 32-bit one if more     *)
(* does, never a wrapped one.                                              *)
TopOfBook ==
    \A side \in Sides :
        LET best == BestLevel(side)
            depth == Depth(orders, side, best.price)
            live == {id \in DOMAIN orders :
                        orders[id].side = side /\ orders[id].quantity > 0}
        IN /\ best = NoLevel => live = {}
           /\ best # NoLevel =>
                /\ \A id \in live : ~Better(side, orders[id].price, best.price)
                /\ best.quantity <= depth
                /\ best.quantity < depth => best.quantity = WordMod - 1

(* The depth chart (126-245) shows the quantity resting at a row's price   *)
(* or better, and every bar fits its field, whatever rows, width and       *)
(* quantities: chart_width - bar is unsigned and would be padded with 2^64 *)
(* blanks.  Unless the product wraps, the longest bar fills its field.     *)
ChartFits ==
    /\ \A side \in Sides : \A price \in DOMAIN levels[side] :
        Cumulative(side, price) =
            SumFunctionOnSet([p \in Word |-> Depth(orders, side, p)],
                             {p \in Word : ~Better(side, price, p)}) % LevelMod
    /\ \A rows \in Word, width \in Word :
        LET field == ChartWidth(width)
            most == MaxCumulative(rows)
            bars == UNION {{BarWidth(side, price, rows, width) :
                                price \in Rows(side, rows)} : side \in Sides}
        IN /\ bars \subseteq 1 .. field
           /\ bars # {} /\ most > 1 /\ most * field < LevelMod => field \in bars

(* Each call does what its bytes say and nothing else: a message moves the *)
(* one order it names by the amount it says, clamped to what rests, bytes  *)
(* that are no whole message or name no resting order (311-417) move       *)
(* nothing, and the depth is always what a recount of the orders gives.    *)
Abstract == INSTANCE AbstractBook WITH
    resting <- orders,
    quote <- last_quote,
    depth <- [side \in Sides |-> [price \in Word |-> At(levels[side], price)]]
ImplementsAbstractBook == Abstract!Spec
=============================================================================
