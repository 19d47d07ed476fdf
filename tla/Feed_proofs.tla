---------------------------- MODULE Feed_proofs ----------------------------
(***************************************************************************)
(* For every word size, pool, ring, number of packets and number of        *)
(* faults, the book agrees with the generator's pool on each order id no   *)
(* fault has named, and executions and quotes with the book.               *)
(*                                                                         *)
(* Between book and pool lie the packets under way.  The argument follows  *)
(* them one at a time: there are books, the first of which is the one in   *)
(* hand, each the one before it with one more packet applied, and the last *)
(* agrees with the pool (InLine).                                          *)
(***************************************************************************)
EXTENDS Feed, FiniteSetTheorems, TLAPS

BookP == INSTANCE OrderBook_proofs WITH
    Packets <- {}, Payloads <- {}, heard <- [call |-> "none"]

(* The message in place k of the packets under way, as it stands, whether  *)
(* the descriptor cuts it off, and the order it names.                     *)
Flight(k) == ParsePacket(Frame(posted[k]))
Cut(k) == Short(posted[k])
NamedIn(m) ==
    IF m.type \in {"AddOrder", "CancelOrder", "Execute"} THEN {m.order_id} ELSE {}

(* A view is what rests under each id: of a book there is, or of one there *)
(* will be.                                                                *)
View == [Word -> BookP!Rest]
IsOrder(v, id, side) == v[id] # BookP!NoOrder /\ v[id].side = side

AsOrder(e) == [side |-> e.side, price |-> e.price, quantity |-> e.quantity]

(* NoGhostOrders of a pool and a view, but for the ids in bad.             *)
Covered(pool, v, bad) ==
    \A id \in Word \ bad : v[id] # BookP!NoOrder =>
        \E i \in DOMAIN pool :
            /\ pool[i].order_id = id
            /\ pool[i].side = v[id].side
            /\ pool[i].price = v[id].price
            /\ pool[i].quantity >= v[id].quantity

(* Mirror of a pool and a view.                                            *)
Distinct(pool) ==
    \A i, j \in DOMAIN pool : pool[i].order_id = pool[j].order_id => i = j
Mirrored(pool, v, bad) ==
    /\ Distinct(pool)
    /\ \A i \in DOMAIN pool : pool[i].order_id \notin bad =>
            v[pool[i].order_id] = AsOrder(pool[i])

(* The view accepts m, if no fault has named its order.                    *)
Expected(v, m, bad) ==
    NamedIn(m) \cap bad = {} =>
        \/ m.type \in {"AddOrder", "Quote"}
        \/ /\ m.type \in {"CancelOrder", "Execute"}
           /\ v[m.order_id] # BookP!NoOrder

(* No order of the view is better than price, and each has quantity left.  *)
Unbeaten(v, side, price) ==
    \A id \in Word : IsOrder(v, id, side) =>
        ~BookP!Better(side, v[id].price, price) /\ v[id].quantity > 0

(* An execution is of one of the best orders, for no more than rests.      *)
Executable(v, m) ==
    \E side \in Sides :
        /\ m.order_id \in Word
        /\ IsOrder(v, m.order_id, side)
        /\ v[m.order_id].price = m.exec_price
        /\ v[m.order_id].quantity >= m.exec_qty
        /\ Unbeaten(v, side, m.exec_price)

(* One side of a quote: one of the best orders, or no quantity if there is *)
(* none but bids at 0.                                                     *)
QuotedSide(v, side, price, qty) ==
    \/ /\ qty = 0
       /\ \A id \in Word : IsOrder(v, id, side) => side = "B" /\ v[id].price = 0
    \/ /\ \E id \in Word : /\ IsOrder(v, id, side)
                           /\ v[id].price = price /\ v[id].quantity = qty
       /\ Unbeaten(v, side, price)

AtTouch(v, m) ==
    /\ m.type = "Execute" => Executable(v, m)
    /\ m.type = "Quote" => /\ QuotedSide(v, "B", m.bid_price, m.bid_qty)
                           /\ QuotedSide(v, "S", m.ask_price, m.ask_qty)

(* Views that lead from the book to the pool by way of the packets under   *)
(* way.                                                                    *)
InLine(views) ==
    LET n == Len(posted) IN
    /\ views \in [1 .. n + 1 -> View]
    /\ \A id \in Word \ damaged : views[1][id] = BookP!Shown(orders, id)
    /\ \A k \in 1 .. n : \A id \in Word \ damaged :
            views[k + 1][id] = BookP!Moved(views[k][id], Flight(k), id)
    /\ Covered(resting, views[n + 1], damaged)
    /\ ~collided => Mirrored(resting, views[n + 1], damaged)
    /\ \A k \in 1 .. n :
            ~collided /\ ~Cut(k) => Expected(views[k], Flight(k), damaged)
    /\ \A k \in 1 .. n : ~collided /\ faults = 0 => AtTouch(views[k], Flight(k))

(* Every slot under way holds a packet the generator wrote, and only a     *)
(* fault puts a longer one where a descriptor was made for a shorter.      *)
Written ==
    \A k \in DOMAIN posted : \E m \in Message :
        slots[posted[k].slot] = Gen!WriteMessage(m)
Fitting == faults = 0 => \A k \in DOMAIN posted : ~Cut(k)

PoolOK ==
    \A i \in DOMAIN resting :
        /\ resting[i].quantity > 0
        /\ resting[i].side = "S" => resting[i].price < WordMod - 1

IInv ==
    /\ TypeOK
    /\ BookP!IInv
    /\ PoolOK
    /\ program = "pktgen" => posted = <<>>
    /\ faults = 0 => damaged = {}
    /\ Written
    /\ Fitting
    /\ \E views \in [1 .. Len(posted) + 1 -> View] : InLine(views)

-----------------------------------------------------------------------------
(* The modules that Feed puts together define the same operators each under*)
(* a name of its own.                                                      *)

LEMMA BookAssumptions == BookP!InputAssumption /\ BookP!WordAssumption
  BY WordAssumption
  DEF BookP!InputAssumption, BookP!WordAssumption, WordAssumption, BookP!Word, Word

LEMMA SameSets ==
    /\ BookP!Word = Word /\ Book!Word = Word /\ Gen!Word = Word
    /\ BookP!Sides = Sides /\ Book!Sides = Sides /\ Gen!Sides = Sides
    /\ BookP!Body = Body
    /\ BookP!RestingOrder = [side : SideByte, price : Word, quantity : Word]
  BY DEF Word, BookP!Word, Book!Word, Gen!Word, Sides, BookP!Sides, Book!Sides,
         Gen!Sides, Body, BookP!Body, Message, BookP!Message, AddOrderMessage,
         BookP!AddOrderMessage, CancelOrderMessage, BookP!CancelOrderMessage,
         ExecuteMessage, BookP!ExecuteMessage, QuoteMessage, BookP!QuoteMessage,
         NoMessage, BookP!NoMessage, SideByte, BookP!SideByte,
         BookP!RestingOrder

LEMMA PoolOrders ==
    Gen!PoolOrder = [order_id : Word, price : Word, quantity : Word, side : Sides]
  BY DEF Gen!PoolOrder, Word, Gen!Word, Sides, Gen!Sides

LEMMA SameParsing ==
    ASSUME NEW p
    PROVE  Book!ParsePacket(p) = ParsePacket(p)
  <1>1. \A m : Book!SizeOf(m) = SizeOf(m) /\ Book!SwapFields(m) = SwapFields(m)
    BY DEF Book!SizeOf, SizeOf, Book!SwapFields, SwapFields, Book!AddOrder,
           AddOrder, Book!CancelOrder, CancelOrder, Book!Execute, Execute,
           Book!Quote, Quote
  <1>2. \A q : Book!ParsePayload(q) = ParsePayload(q)
    BY <1>1 DEF Book!ParsePayload, ParsePayload, Book!NoMessage, NoMessage
  <1> QED BY <1>1, <1>2 DEF Book!ParsePacket, ParsePacket, Book!Bswap16, Bswap16,
                            Book!LenPrefix, LenPrefix, Book!NoMessage, NoMessage

LEMMA SameLevels ==
    /\ \A lv, side, price, qty :
         Book!AddToLevels(lv, side, price, qty)
           = BookP!AddToLevels(lv, side, price, qty)
    /\ \A lv, side, price, qty :
         Book!RemoveFromLevels(lv, side, price, qty)
           = BookP!RemoveFromLevels(lv, side, price, qty)
    /\ \A os, id, o : Book!Put(os, id, o) = BookP!Put(os, id, o)
    /\ \A os, id : Book!Erase(os, id) = BookP!Erase(os, id)
  BY DEF Book!AddToLevels, BookP!AddToLevels, Book!AddLevel, BookP!AddLevel,
         Book!RemoveFromLevels, BookP!RemoveFromLevels, Book!SubtractLevel,
         BookP!SubtractLevel, Book!LevelMod, BookP!LevelMod, Book!Sides,
         BookP!Sides, Book!Put, BookP!Put, Book!Erase, BookP!Erase, Book!At,
         BookP!At

LEMMA SameReduce ==
    ASSUME NEW id, NEW qty, Book!ReduceOrder(id, qty)
    PROVE  BookP!ReduceOrder(id, qty)
  BY SameLevels DEF Book!ReduceOrder, BookP!ReduceOrder

LEMMA SameApply ==
    ASSUME NEW m, Book!Apply(m)
    PROVE  BookP!Apply(m)
  <1>1. CASE m.type = "AddOrder" /\ Book!ApplyAddOrder(m)
    <2>1. BookP!ApplyAddOrder(m)
      BY <1>1, SameLevels DEF Book!ApplyAddOrder, BookP!ApplyAddOrder
    <2> QED BY <1>1, <2>1 DEF BookP!Apply
  <1>2. CASE m.type = "CancelOrder" /\ Book!ApplyCancelOrder(m)
    <2>1. BookP!ApplyCancelOrder(m)
      BY <1>2, SameReduce DEF Book!ApplyCancelOrder, BookP!ApplyCancelOrder
    <2> QED BY <1>2, <2>1 DEF BookP!Apply
  <1>3. CASE m.type = "Execute" /\ Book!ApplyExecute(m)
    <2>1. BookP!ApplyExecute(m)
      BY <1>3, SameReduce DEF Book!ApplyExecute, BookP!ApplyExecute
    <2> QED BY <1>3, <2>1 DEF BookP!Apply
  <1>4. CASE m.type = "Quote" /\ Book!ApplyQuote(m)
    BY <1>4 DEF Book!ApplyQuote, BookP!ApplyQuote, BookP!Apply
  <1>5. CASE ~Book!Accepts(m) /\ UNCHANGED Book!bookVars
    BY <1>5 DEF Book!Accepts, BookP!Accepts, Book!bookVars, BookP!bookVars,
                BookP!Apply
  <1> QED BY <1>1, <1>2, <1>3, <1>4, <1>5 DEF Book!Apply

LEMMA SameTypes == BookP!BookTypeOK => Book!BookTypeOK
  BY DEF Book!BookTypeOK, BookP!BookTypeOK, Book!IsMap, BookP!IsMap, Book!Word,
         BookP!Word, Book!RestingOrder, BookP!RestingOrder, Book!SideByte,
         BookP!SideByte, Book!Sides, BookP!Sides, Book!LevelMod, BookP!LevelMod,
         Book!QuoteMessage, BookP!QuoteMessage, Book!NoMessage, BookP!NoMessage

LEMMA SameTop ==
    ASSUME NEW side
    PROVE  Book!BestLevel(side) = BookP!BestLevel(side)
  BY DEF Book!BestLevel, BookP!BestLevel, Book!NoLevel, BookP!NoLevel,
         Book!NarrowQuantity, BookP!NarrowQuantity, Book!Max, BookP!Max,
         Book!Min, BookP!Min

-----------------------------------------------------------------------------
(* What one packet of the generator does to its pool and to a view.        *)

Adds(pool, pool2, m) ==
    \E e \in Gen!PoolOrder :
        /\ m = AddOrder(e.order_id, e.side, e.price, e.quantity)
        /\ pool2 = Append(pool, e)
Cancels(pool, pool2, m) ==
    \E idx \in DOMAIN pool :
        /\ m = CancelOrder(pool[idx].order_id, 0)
        /\ pool2 = Gen!SwapOut(pool, idx)
Executes(pool, pool2, m) ==
    \E idx \in DOMAIN pool, qty \in Word :
        /\ m = Execute(pool[idx].order_id, qty, pool[idx].price)
        /\ \/ /\ qty = pool[idx].quantity
              /\ pool2 = Gen!SwapOut(pool, idx)
           \/ /\ qty < pool[idx].quantity
              /\ pool2 = [pool EXCEPT ![idx].quantity = @ - qty]
Quotes(pool, pool2, m) == m \in QuoteMessage /\ pool2 = pool

Changes(pool, pool2, m) ==
    \/ Adds(pool, pool2, m) \/ Cancels(pool, pool2, m)
    \/ Executes(pool, pool2, m) \/ Quotes(pool, pool2, m)

After(v, m) == [id \in Word |-> BookP!Moved(v[id], m, id)]

(* Words are naturals, and so is what is left of one.                      *)
LEMMA WordNat ==
    /\ \A w \in Word : w \in Nat /\ w <= WordMod - 1
    /\ \A w, q \in Word : q <= w => w - q \in Word
  BY WordAssumption DEF Word

(* Everything but entry idx is still there when it has been swapped out,   *)
(* and nothing is there twice.                                             *)
LEMMA SwapOutFacts ==
    ASSUME NEW pool \in Seq(Gen!PoolOrder), NEW idx \in DOMAIN pool
    PROVE  LET new == Gen!SwapOut(pool, idx) IN
           /\ new \in Seq(Gen!PoolOrder)
           /\ Len(new) = Len(pool) - 1
           /\ \A j \in DOMAIN new :
                new[j] = IF j = idx THEN pool[Len(pool)] ELSE pool[j]
           /\ \A i \in DOMAIN pool \ {idx} : \E j \in DOMAIN new : new[j] = pool[i]
           /\ \A j \in DOMAIN new : \E i \in DOMAIN pool \ {idx} : new[j] = pool[i]
           /\ Distinct(pool) => Distinct(new)
  <1> DEFINE n == Len(pool)
             swapped == [pool EXCEPT ![idx] = pool[n]]
             new == Gen!SwapOut(pool, idx)
  <1>1. n \in Nat \ {0} /\ DOMAIN pool = 1 .. n /\ idx \in 1 .. n
    OBVIOUS
  <1>2. swapped \in Seq(Gen!PoolOrder) /\ Len(swapped) = n
    BY <1>1
  <1>3. new = SubSeq(swapped, 1, n - 1)
    BY <1>2 DEF Gen!SwapOut, Gen!Front, Gen!ReplaceAt, Gen!Last
  <1>4. /\ new \in Seq(Gen!PoolOrder)
        /\ Len(new) = n - 1 /\ DOMAIN new = 1 .. n - 1
        /\ \A j \in 1 .. n - 1 : new[j] = swapped[j]
    BY <1>1, <1>2, <1>3
  <1>5. \A j \in 1 .. n - 1 : new[j] = IF j = idx THEN pool[n] ELSE pool[j]
    BY <1>1, <1>4
  <1> HIDE DEF new
  <1>6. ASSUME NEW i \in DOMAIN pool \ {idx}
        PROVE  \E j \in DOMAIN new : new[j] = pool[i]
    <2>1. CASE i = n
      BY <1>1, <1>4, <1>5, <2>1
    <2>2. CASE i # n
      BY <1>1, <1>4, <1>5, <2>2
    <2> QED BY <2>1, <2>2
  <1>7. ASSUME NEW j \in DOMAIN new
        PROVE  \E i \in DOMAIN pool \ {idx} : new[j] = pool[i]
    BY <1>1, <1>4, <1>5
  <1>8. Distinct(pool) => Distinct(new)
    BY <1>1, <1>4, <1>5 DEF Distinct
  <1> QED BY <1>1, <1>4, <1>5, <1>6, <1>7, <1>8 DEF new

(* The fields of a message the generator can send are words.               *)
LEMMA ChangeType ==
    ASSUME NEW pool \in Seq(Gen!PoolOrder), NEW pool2, NEW m,
           Changes(pool, pool2, m)
    PROVE  m \in Message /\ pool2 \in Seq(Gen!PoolOrder)
  <1>1. \A i \in DOMAIN pool : pool[i] \in
            [order_id : Word, price : Word, quantity : Word, side : Sides]
    <2>1. \A i \in DOMAIN pool : pool[i] \in Gen!PoolOrder
      OBVIOUS
    <2> QED BY <2>1, PoolOrders, Zenon
  <1>2. CASE Adds(pool, pool2, m)
    <2>1. PICK e \in Gen!PoolOrder :
              /\ m = AddOrder(e.order_id, e.side, e.price, e.quantity)
              /\ pool2 = Append(pool, e)
      BY <1>2 DEF Adds
    <2>2. m \in AddOrderMessage
      BY <2>1, SameSets DEF AddOrder, AddOrderMessage, Gen!PoolOrder, SideByte
    <2> QED BY <2>1, <2>2 DEF Message
  <1>3. CASE Cancels(pool, pool2, m)
    <2>1. PICK idx \in DOMAIN pool : /\ m = CancelOrder(pool[idx].order_id, 0)
                                     /\ pool2 = Gen!SwapOut(pool, idx)
      BY <1>3 DEF Cancels
    <2>2. m \in CancelOrderMessage
      BY <1>1, <2>1, WordAssumption DEF CancelOrder, CancelOrderMessage, Word
    <2> QED BY <2>1, <2>2, SwapOutFacts DEF Message
  <1>4. CASE Executes(pool, pool2, m)
    <2>1. PICK idx \in DOMAIN pool, qty \in Word :
              /\ m = Execute(pool[idx].order_id, qty, pool[idx].price)
              /\ \/ /\ qty = pool[idx].quantity
                    /\ pool2 = Gen!SwapOut(pool, idx)
                 \/ /\ qty < pool[idx].quantity
                    /\ pool2 = [pool EXCEPT ![idx].quantity = @ - qty]
      BY <1>4 DEF Executes
    <2>2. m \in ExecuteMessage
      BY <1>1, <2>1 DEF Execute, ExecuteMessage
    <2>3. ASSUME qty < pool[idx].quantity
          PROVE  [pool EXCEPT ![idx].quantity = @ - qty] \in Seq(Gen!PoolOrder)
      <3>1. pool[idx].quantity - qty \in Word
        BY <1>1, <2>3, WordNat
      <3>2. [pool[idx] EXCEPT !.quantity = @ - qty] \in Gen!PoolOrder
        BY <1>1, <3>1, SameSets DEF Gen!PoolOrder
      <3> QED BY <3>2
    <2>4. Gen!SwapOut(pool, idx) \in Seq(Gen!PoolOrder)
      BY SwapOutFacts
    <2> QED BY <2>1, <2>2, <2>3, <2>4 DEF Message
  <1>5. CASE Quotes(pool, pool2, m)
    BY <1>5 DEF Quotes, Message
  <1> QED BY <1>2, <1>3, <1>4, <1>5 DEF Changes

(* Applying a message takes a view to a view.                              *)
LEMMA AfterType ==
    ASSUME NEW v \in View, NEW m \in Message
    PROVE  After(v, m) \in View
  <1> SUFFICES ASSUME NEW id \in Word
               PROVE  BookP!Moved(v[id], m, id) \in BookP!Rest
    BY DEF After, View
  <1>1. v[id] \in BookP!Rest /\ BookP!NoOrder \in BookP!Rest
    BY DEF View, BookP!Rest
  <1>2. \A qty \in Word : BookP!Reduced(v[id], qty) \in BookP!Rest
    <2> SUFFICES ASSUME NEW qty \in Word, v[id] # BookP!NoOrder,
                        ~(v[id].quantity <= qty)
                 PROVE  [v[id] EXCEPT !.quantity = @ - qty] \in BookP!Rest
      BY <1>1 DEF BookP!Reduced
    <2>1. v[id] \in [side : SideByte, price : Word, quantity : Word]
      BY <1>1, SameSets DEF BookP!Rest
    <2>2. v[id].quantity - qty \in Word
      BY <2>1, WordNat
    <2> QED BY <2>1, <2>2, SameSets DEF BookP!Rest
  <1>3. CASE m \in AddOrderMessage
    <2>1. [side |-> m.side, price |-> m.price, quantity |-> m.quantity]
            \in BookP!Rest
      BY <1>3, SameSets DEF AddOrderMessage, BookP!Rest
    <2> QED BY <1>1, <1>3, <2>1 DEF AddOrderMessage, BookP!Moved
  <1>4. CASE m \in CancelOrderMessage
    BY <1>1, <1>2, <1>4 DEF CancelOrderMessage, BookP!Moved
  <1>5. CASE m \in ExecuteMessage
    BY <1>1, <1>2, <1>5 DEF ExecuteMessage, BookP!Moved
  <1>6. CASE m \in QuoteMessage
    BY <1>1, <1>6 DEF QuoteMessage, BookP!Moved
  <1> QED BY <1>3, <1>4, <1>5, <1>6 DEF Message

(* A message moves only the order it names.                                *)
LEMMA MovesNamed ==
    ASSUME NEW o, NEW m, NEW id, id \notin NamedIn(m)
    PROVE  BookP!Moved(o, m, id) = o
  BY DEF BookP!Moved, NamedIn

(* The pool goes on covering the view.                                     *)
LEMMA CoveredAfter ==
    ASSUME NEW pool \in Seq(Gen!PoolOrder), NEW pool2, NEW m,
           Changes(pool, pool2, m), NEW v \in View, NEW bad,
           Covered(pool, v, bad)
    PROVE  Covered(pool2, After(v, m), bad)
  <1> DEFINE w == After(v, m)
  <1> SUFFICES ASSUME NEW id \in Word \ bad, w[id] # BookP!NoOrder
               PROVE  \E i \in DOMAIN pool2 :
                         /\ pool2[i].order_id = id
                         /\ pool2[i].side = w[id].side
                         /\ pool2[i].price = w[id].price
                         /\ pool2[i].quantity >= w[id].quantity
    BY DEF Covered
  <1>1. w[id] = BookP!Moved(v[id], m, id)
    BY DEF After
  <1>2. v[id] # BookP!NoOrder =>
            /\ v[id].quantity \in Nat
            /\ \E i \in DOMAIN pool :
                 /\ pool[i].order_id = id
                 /\ pool[i].side = v[id].side
                 /\ pool[i].price = v[id].price
                 /\ pool[i].quantity >= v[id].quantity
    BY SameSets, WordNat DEF Covered, View, BookP!Rest
  <1>3. \A i \in DOMAIN pool : pool[i].quantity \in Nat
    <2>1. \A e \in Gen!PoolOrder : e.quantity \in Nat
      BY PoolOrders, WordNat
    <2> QED BY <2>1
  <1> HIDE DEF w
  <1>4. CASE Adds(pool, pool2, m)
    <2>1. PICK e \in Gen!PoolOrder :
              /\ m = AddOrder(e.order_id, e.side, e.price, e.quantity)
              /\ pool2 = Append(pool, e)
      BY <1>4 DEF Adds
    <2>2. /\ DOMAIN pool2 = 1 .. Len(pool) + 1
          /\ pool2[Len(pool) + 1] = e
          /\ \A i \in DOMAIN pool : i \in DOMAIN pool2 /\ pool2[i] = pool[i]
      BY <2>1
    <2>3. CASE e.order_id = id
      <3>1. w[id] = AsOrder(e)
        BY <1>1, <2>1, <2>3 DEF BookP!Moved, AddOrder, AsOrder
      <3>2. e.quantity >= e.quantity
        BY SameSets, WordNat DEF Gen!PoolOrder
      <3> QED BY <2>2, <2>3, <3>1, <3>2 DEF AsOrder
    <2>4. CASE e.order_id # id
      <3>1. w[id] = v[id]
        BY <1>1, <2>1, <2>4 DEF BookP!Moved, AddOrder
      <3> QED BY <1>2, <2>2, <3>1
    <2> QED BY <2>3, <2>4
  <1>5. CASE Cancels(pool, pool2, m)
    <2>1. PICK idx \in DOMAIN pool : /\ m = CancelOrder(pool[idx].order_id, 0)
                                     /\ pool2 = Gen!SwapOut(pool, idx)
      BY <1>5 DEF Cancels
    <2>2. id # pool[idx].order_id /\ w[id] = v[id]
      BY <1>1, <2>1 DEF BookP!Moved, CancelOrder
    <2>3. v[id] # BookP!NoOrder
      BY <2>2
    <2>4. PICK i \in DOMAIN pool :
              /\ pool[i].order_id = id
              /\ pool[i].side = v[id].side
              /\ pool[i].price = v[id].price
              /\ pool[i].quantity >= v[id].quantity
      BY <1>2, <2>3
    <2>5. PICK j \in DOMAIN pool2 : pool2[j] = pool[i]
      <3>1. i # idx
        BY <2>2, <2>4
      <3> QED BY <2>1, <3>1, SwapOutFacts
    <2> QED BY <2>2, <2>4, <2>5
  <1>6. CASE Executes(pool, pool2, m)
    <2>1. PICK idx \in DOMAIN pool, qty \in Word :
              /\ m = Execute(pool[idx].order_id, qty, pool[idx].price)
              /\ \/ /\ qty = pool[idx].quantity
                    /\ pool2 = Gen!SwapOut(pool, idx)
                 \/ /\ qty < pool[idx].quantity
                    /\ pool2 = [pool EXCEPT ![idx].quantity = @ - qty]
      BY <1>6 DEF Executes
    <2>2. qty \in Nat
      BY WordNat
    <2>3. IF id = pool[idx].order_id
          THEN w[id] = BookP!Reduced(v[id], qty) ELSE w[id] = v[id]
      BY <1>1, <2>1 DEF BookP!Moved, Execute
    <2>4. v[id] # BookP!NoOrder
      BY <2>3 DEF BookP!Reduced
    <2>5. /\ w[id].side = v[id].side /\ w[id].price = v[id].price
          /\ IF id = pool[idx].order_id
             THEN v[id].quantity > qty /\ w[id].quantity = v[id].quantity - qty
             ELSE w[id].quantity = v[id].quantity
      <3>1. v[id] \in [side : SideByte, price : Word, quantity : Word]
        BY <2>4, SameSets DEF View, BookP!Rest
      <3>2. CASE id = pool[idx].order_id
        <4>1. /\ ~(v[id].quantity <= qty)
              /\ w[id] = [v[id] EXCEPT !.quantity = @ - qty]
          BY <2>3, <3>2 DEF BookP!Reduced
        <4> QED BY <1>2, <2>2, <2>4, <3>1, <3>2, <4>1
      <3> QED BY <2>3, <3>2
    <2>6. PICK i \in DOMAIN pool :
              /\ pool[i].order_id = id
              /\ pool[i].side = v[id].side
              /\ pool[i].price = v[id].price
              /\ pool[i].quantity >= v[id].quantity
      BY <1>2, <2>4
    <2>7. w[id].quantity \in Nat /\ w[id].quantity <= v[id].quantity
      BY <1>2, <2>2, <2>4, <2>5
    <2>8. CASE qty = pool[idx].quantity /\ pool2 = Gen!SwapOut(pool, idx)
      <3>1. i # idx
        BY <1>2, <1>3, <2>2, <2>4, <2>5, <2>6, <2>8
      <3>2. PICK j \in DOMAIN pool2 : pool2[j] = pool[i]
        BY <2>8, <3>1, SwapOutFacts
      <3> QED BY <1>2, <1>3, <2>4, <2>5, <2>6, <2>7, <3>2
    <2>9. CASE /\ qty < pool[idx].quantity
               /\ pool2 = [pool EXCEPT ![idx].quantity = @ - qty]
      <3>1. pool[i] \in Gen!PoolOrder
        OBVIOUS
      <3>2. CASE i = idx
        <4>1. /\ i \in DOMAIN pool2
              /\ pool2[i] = [pool[i] EXCEPT !.quantity = @ - qty]
          BY <2>9, <3>2
        <4>2. /\ pool2[i].order_id = id /\ pool2[i].side = v[id].side
              /\ pool2[i].price = v[id].price
              /\ pool2[i].quantity = pool[i].quantity - qty
          BY <2>6, <3>1, <4>1 DEF Gen!PoolOrder
        <4>3. pool2[i].quantity >= w[id].quantity
          BY <1>2, <1>3, <2>2, <2>4, <2>5, <2>6, <3>2, <4>2
        <4> QED BY <2>5, <4>1, <4>2, <4>3
      <3>3. CASE i # idx
        <4>1. i \in DOMAIN pool2 /\ pool2[i] = pool[i]
          BY <2>9, <3>3
        <4> QED BY <1>2, <1>3, <2>4, <2>5, <2>6, <2>7, <4>1
      <3> QED BY <3>2, <3>3
    <2> QED BY <2>1, <2>8, <2>9
  <1>7. CASE Quotes(pool, pool2, m)
    <2>1. w[id] = v[id]
      BY <1>1, <1>7 DEF Quotes, QuoteMessage, BookP!Moved
    <2> QED BY <1>2, <1>7, <2>1 DEF Quotes
  <1> QED BY <1>4, <1>5, <1>6, <1>7 DEF Changes

(* No order is added under the id of one that rests.                       *)
Fresh(pool, m) ==
    m.type = "AddOrder" => \A i \in DOMAIN pool : pool[i].order_id # m.order_id

(* The view goes on mirroring the pool, and accepts the message, unless an *)
(* id is used twice.                                                       *)
LEMMA MirroredAfter ==
    ASSUME NEW pool \in Seq(Gen!PoolOrder), NEW pool2, NEW m,
           Changes(pool, pool2, m), NEW v \in View, NEW bad,
           Mirrored(pool, v, bad), Fresh(pool, m)
    PROVE  Mirrored(pool2, After(v, m), bad) /\ Expected(v, m, bad)
  <1> DEFINE w == After(v, m)
  <1>1. \A i \in DOMAIN pool : pool[i] \in
            [order_id : Word, price : Word, quantity : Word, side : Sides]
    <2>1. \A i \in DOMAIN pool : pool[i] \in Gen!PoolOrder
      OBVIOUS
    <2> QED BY <2>1, PoolOrders, Zenon
  <1>2. \A e \in Gen!PoolOrder : AsOrder(e) # BookP!NoOrder
    BY PoolOrders DEF AsOrder, BookP!NoOrder, Sides
  <1>3. \A id \in Word : w[id] = BookP!Moved(v[id], m, id)
    BY DEF After
  <1>4. \A id \in Word : id \notin NamedIn(m) => w[id] = v[id]
    BY <1>3, MovesNamed
  <1>5. \A i \in DOMAIN pool : pool[i].order_id \notin bad =>
            v[pool[i].order_id] = AsOrder(pool[i])
    BY DEF Mirrored
  <1>6. \A i, j \in DOMAIN pool : pool[i].order_id = pool[j].order_id => i = j
    BY DEF Mirrored, Distinct
  <1> HIDE DEF w
  <1>7. CASE Adds(pool, pool2, m)
    <2>1. PICK e \in Gen!PoolOrder :
              /\ m = AddOrder(e.order_id, e.side, e.price, e.quantity)
              /\ pool2 = Append(pool, e)
      BY <1>7 DEF Adds
    <2> DEFINE n == Len(pool)
    <2>2. /\ n \in Nat /\ DOMAIN pool = 1 .. n /\ DOMAIN pool2 = 1 .. n + 1
          /\ pool2[n + 1] = e
          /\ \A i \in 1 .. n : pool2[i] = pool[i]
      BY <2>1
    <2>3. /\ m.type = "AddOrder" /\ m.order_id = e.order_id
          /\ NamedIn(m) = {e.order_id}
          /\ \A i \in 1 .. n : pool[i].order_id # e.order_id
      BY <2>1, <2>2 DEF AddOrder, NamedIn, Fresh
    <2>4. e.order_id \in Word
      BY PoolOrders
    <2>5. w[e.order_id] = AsOrder(e)
      BY <1>3, <2>1, <2>4 DEF BookP!Moved, AddOrder, AsOrder
    <2>6. Distinct(pool2)
      BY <1>6, <2>2, <2>3 DEF Distinct
    <2>7. \A i \in 1 .. n : w[pool2[i].order_id] = v[pool[i].order_id]
      BY <1>1, <1>4, <2>2, <2>3
    <2>8. ASSUME NEW i \in DOMAIN pool2, pool2[i].order_id \notin bad
          PROVE  w[pool2[i].order_id] = AsOrder(pool2[i])
      <3>1. CASE i = n + 1
        BY <2>2, <2>5, <3>1
      <3>2. CASE i \in 1 .. n
        BY <1>5, <2>2, <2>7, <2>8, <3>2
      <3> QED BY <2>2, <3>1, <3>2
    <2> QED BY <2>3, <2>6, <2>8 DEF Mirrored, Expected, w
  <1>8. ASSUME NEW idx \in DOMAIN pool, pool2 = Gen!SwapOut(pool, idx),
               NamedIn(m) = {pool[idx].order_id}
        PROVE  Mirrored(pool2, w, bad)
    <2>1. Distinct(pool2)
      BY <1>8, SwapOutFacts DEF Mirrored
    <2>2. ASSUME NEW j \in DOMAIN pool2, pool2[j].order_id \notin bad
          PROVE  w[pool2[j].order_id] = AsOrder(pool2[j])
      <3>1. PICK i \in DOMAIN pool \ {idx} : pool2[j] = pool[i]
        BY <1>8, SwapOutFacts
      <3>2. pool[i].order_id \notin NamedIn(m) /\ pool[i].order_id \in Word
        BY <1>1, <1>6, <1>8
      <3> QED BY <1>4, <1>5, <2>2, <3>1, <3>2
    <2> QED BY <2>1, <2>2 DEF Mirrored
  <1>9. CASE Cancels(pool, pool2, m)
    <2>1. PICK idx \in DOMAIN pool : /\ m = CancelOrder(pool[idx].order_id, 0)
                                     /\ pool2 = Gen!SwapOut(pool, idx)
      BY <1>9 DEF Cancels
    <2>2. /\ m.type = "CancelOrder" /\ m.order_id = pool[idx].order_id
          /\ NamedIn(m) = {pool[idx].order_id}
      BY <2>1 DEF CancelOrder, NamedIn
    <2>3. Mirrored(pool2, w, bad)
      BY <1>8, <2>1, <2>2
    <2>4. Expected(v, m, bad)
      BY <1>2, <1>5, <2>2 DEF Expected
    <2> QED BY <2>3, <2>4 DEF w
  <1>10. CASE Executes(pool, pool2, m)
    <2>1. PICK idx \in DOMAIN pool, qty \in Word :
              /\ m = Execute(pool[idx].order_id, qty, pool[idx].price)
              /\ \/ /\ qty = pool[idx].quantity
                    /\ pool2 = Gen!SwapOut(pool, idx)
                 \/ /\ qty < pool[idx].quantity
                    /\ pool2 = [pool EXCEPT ![idx].quantity = @ - qty]
      BY <1>10 DEF Executes
    <2> DEFINE e == pool[idx]
    <2>2. /\ m.type = "Execute" /\ m.order_id = e.order_id
          /\ m.exec_qty = qty /\ NamedIn(m) = {e.order_id}
      BY <2>1 DEF Execute, NamedIn
    <2>3. Expected(v, m, bad)
      BY <1>2, <1>5, <2>2 DEF Expected
    <2>4. CASE pool2 = Gen!SwapOut(pool, idx)
      BY <1>8, <2>2, <2>3, <2>4 DEF w
    <2>5. CASE /\ qty < e.quantity
               /\ pool2 = [pool EXCEPT ![idx].quantity = @ - qty]
      <3> DEFINE e2 == [pool[idx] EXCEPT !.quantity = @ - qty]
      <3>1. /\ DOMAIN pool2 = DOMAIN pool /\ pool2[idx] = e2
            /\ \A i \in DOMAIN pool \ {idx} : pool2[i] = pool[i]
        BY <2>5
      <3>2. /\ e2.order_id = e.order_id
            /\ AsOrder(e2) = [AsOrder(e) EXCEPT !.quantity = @ - qty]
            /\ AsOrder(e).quantity = e.quantity
        BY <1>1 DEF AsOrder
      <3>3. ~(e.quantity <= qty) /\ e.order_id \in Word
        BY <1>1, <2>5, WordNat
      <3>4. Distinct(pool2)
        <4>1. \A i \in DOMAIN pool : pool2[i].order_id = pool[i].order_id
          BY <3>1, <3>2
        <4> QED BY <1>6, <3>1, <4>1 DEF Distinct
      <3>5. ASSUME NEW i \in DOMAIN pool, pool2[i].order_id \notin bad
            PROVE  w[pool2[i].order_id] = AsOrder(pool2[i])
        <4>1. CASE i = idx
          <5>1. v[e.order_id] = AsOrder(e)
            BY <1>5, <3>1, <3>2, <3>5, <4>1
          <5>2. w[e.order_id] = BookP!Reduced(AsOrder(e), qty)
            BY <1>3, <2>2, <3>3, <5>1 DEF BookP!Moved
          <5>3. BookP!Reduced(AsOrder(e), qty) = AsOrder(e2)
            <6>1. AsOrder(e) # BookP!NoOrder
              BY <1>2
            <6> HIDE DEF e, e2
            <6> QED BY <3>2, <3>3, <6>1 DEF BookP!Reduced
          <5> QED BY <3>1, <3>2, <4>1, <5>2, <5>3
        <4>2. CASE i # idx
          <5>1. pool[i].order_id \notin NamedIn(m) /\ pool[i].order_id \in Word
            BY <1>1, <1>6, <2>2, <4>2
          <5> QED BY <1>4, <1>5, <3>1, <3>5, <4>2, <5>1
        <4> QED BY <4>1, <4>2
      <3> QED BY <2>3, <3>1, <3>4, <3>5 DEF Mirrored, w
    <2> QED BY <2>1, <2>4, <2>5
  <1>11. CASE Quotes(pool, pool2, m)
    <2>1. m.type = "Quote" /\ NamedIn(m) = {}
      BY <1>11 DEF Quotes, QuoteMessage, NamedIn
    <2>2. \A id \in Word : w[id] = v[id]
      BY <1>4, <2>1
    <2> QED BY <1>1, <1>5, <1>6, <1>11, <2>1, <2>2
            DEF Quotes, Mirrored, Distinct, Expected, w
  <1> QED BY <1>7, <1>9, <1>10, <1>11 DEF Changes
-----------------------------------------------------------------------------
(* What the generator sends.                                               *)

(* The book reads what the generator wrote: prefix, length and fields.     *)
(* A frame that is longer is read the same, one that is cut off not at all.*)
LEMMA RoundTrip ==
    ASSUME NEW m \in Message
    PROVE  LET p == Gen!WriteMessage(m) IN
           /\ p \in Packet
           /\ p.size \in Nat
           /\ ParsePacket(p) = m
           /\ \A len \in Nat :
                LET f == [p EXCEPT !.size = len] IN
                /\ f \in Packet
                /\ ParsePacket(f) = IF len < p.size THEN NoMessage ELSE m
  <1> DEFINE s == SwapFields(m)
             n == SizeOf(m)
             p == Gen!WriteMessage(m)
  <1>1. \A w \in Word : Bswap32[w] \in Word /\ Bswap32[Bswap32[w]] = w
    BY WordAssumption
  <1>2. s \in Message /\ SwapFields(s) = m /\ SizeOf(s) = n /\ n \in {17, 21, 25, 30}
    <2>1. CASE m \in AddOrderMessage
      BY <1>1, <2>1 DEF AddOrderMessage, AddOrder, SwapFields, SizeOf, Message
    <2>2. CASE m \in CancelOrderMessage
      BY <1>1, <2>2 DEF CancelOrderMessage, CancelOrder, SwapFields, SizeOf, Message
    <2>3. CASE m \in ExecuteMessage
      BY <1>1, <2>3 DEF ExecuteMessage, Execute, SwapFields, SizeOf, Message
    <2>4. CASE m \in QuoteMessage
      BY <1>1, <2>4 DEF QuoteMessage, Quote, SwapFields, SizeOf, Message
    <2> QED BY <2>1, <2>2, <2>3, <2>4 DEF Message
  <1>3. p = [size |-> 2 + n, wire_len |-> Bswap16(n), body |-> s]
    BY DEF Gen!WriteMessage, Gen!LenPrefix, Gen!SizeOf, SizeOf, Gen!Bswap16,
           Bswap16, Gen!SwapFields, SwapFields, Gen!AddOrder, AddOrder,
           Gen!CancelOrder, CancelOrder, Gen!Execute, Execute, Gen!Quote, Quote
  <1> HIDE DEF s, n, p
  <1>4. Bswap16(n) \in HalfWord /\ Bswap16(Bswap16(n)) = n
    <2>1. /\ Bswap16(17) = 4352 /\ Bswap16(4352) = 17
          /\ Bswap16(21) = 5376 /\ Bswap16(5376) = 21
          /\ Bswap16(25) = 6400 /\ Bswap16(6400) = 25
          /\ Bswap16(30) = 7680 /\ Bswap16(7680) = 30
      BY DEF Bswap16
    <2>2. 4352 \in HalfWord /\ 5376 \in HalfWord /\ 6400 \in HalfWord /\ 7680 \in HalfWord
      BY DEF HalfWord
    <2>3. n = 17 \/ n = 21 \/ n = 25 \/ n = 30
      BY <1>2, Zenon
    <2>4. CASE n = 17
      BY ONLY <2>1, <2>2, <2>4
    <2>5. CASE n = 21
      BY ONLY <2>1, <2>2, <2>5
    <2>6. CASE n = 25
      BY ONLY <2>1, <2>2, <2>6
    <2>7. CASE n = 30
      BY ONLY <2>1, <2>2, <2>7
    <2> QED BY <2>3, <2>4, <2>5, <2>6, <2>7, Zenon
  <1>5. p \in Packet
    BY <1>2, <1>3, <1>4 DEF Packet, Body
  <1>6. ParsePacket(p) = m
    <2>1. ~(p.size < LenPrefix \/ p.size < LenPrefix + Bswap16(p.wire_len))
      BY <1>2, <1>3, <1>4 DEF LenPrefix
    <2>2. ParsePayload([size |-> n, body |-> s]) = s
      BY <1>2 DEF ParsePayload
    <2> QED BY <1>2, <1>3, <1>4, <2>1, <2>2 DEF ParsePacket
  <1>7. ASSUME NEW len \in Nat
        PROVE  LET f == [p EXCEPT !.size = len] IN
               /\ f \in Packet
               /\ ParsePacket(f) = IF len < p.size THEN NoMessage ELSE m
    <2> DEFINE f == [p EXCEPT !.size = len]
    <2>1. f = [size |-> len, wire_len |-> Bswap16(n), body |-> s]
      BY <1>3
    <2>2. f \in Packet
      BY <1>5, <2>1 DEF Packet
    <2>3. /\ f.size = len /\ f.body = p.body
          /\ Bswap16(f.wire_len) = Bswap16(p.wire_len)
      BY <1>3, <2>1
    <2>4. p.size = LenPrefix + Bswap16(p.wire_len) /\ LenPrefix = 2 /\ p.size > 2
      BY <1>2, <1>3, <1>4 DEF LenPrefix
    <2> HIDE DEF f
    <2>5. CASE len < p.size
      <3>1. ParsePacket(f) = NoMessage
        BY <2>3, <2>4, <2>5 DEF ParsePacket
      <3> QED BY <2>2, <2>5, <3>1 DEF f
    <2>6. CASE ~(len < p.size)
      <3>1. /\ ~(len < LenPrefix \/ len < LenPrefix + Bswap16(p.wire_len))
            /\ ~(p.size < LenPrefix \/ p.size < LenPrefix + Bswap16(p.wire_len))
        BY <1>2, <1>3, <2>4, <2>6
      <3>2. ParsePacket(f) = ParsePacket(p)
        BY <2>3, <3>1 DEF ParsePacket
      <3> QED BY <1>6, <2>2, <2>6, <3>2 DEF f
    <2> QED BY <2>2, <2>5, <2>6 DEF f
  <1>8. p.size \in Nat
    BY <1>2, <1>3
  <1> QED BY <1>5, <1>6, <1>7, <1>8 DEF p

(* The order buildExecute and buildQuote find is not beaten by any other   *)
(* of its side, and if they find none then none is there, but bids at 0.   *)
LEMMA BestFacts ==
    ASSUME resting \in Seq(Gen!PoolOrder), PoolOK, NEW side \in Sides
    PROVE  LET side_of == {i \in DOMAIN resting : resting[i].side = side} IN
           /\ \A idx \in Gen!BestIndex(side) :
                /\ idx \in side_of
                /\ \A i \in side_of :
                     ~BookP!Better(side, resting[i].price, resting[idx].price)
           /\ Gen!BestIndex(side) = {} =>
                \A i \in side_of : side = "B" /\ resting[i].price = 0
  <1> DEFINE side_of == {i \in DOMAIN resting : resting[i].side = side}
             scanned == {i \in side_of :
                           Gen!Beats(side, resting[i].price, Gen!Sentinel(side))}
             worse(i) == IF side = "B" THEN WordMod - 1 - resting[i].price
                         ELSE resting[i].price
  <1>1. \A i \in DOMAIN resting : resting[i].price \in Word /\ i \in Nat
    <2>1. \A e \in Gen!PoolOrder : e.price \in Word
      BY PoolOrders
    <2> QED BY <2>1
  <1>2. \A i \in DOMAIN resting : /\ resting[i].price \in Nat
                                  /\ resting[i].price <= WordMod - 1
    BY <1>1, WordNat
  <1>3. \A i \in side_of : side = "S" => resting[i].price < WordMod - 1
    BY DEF PoolOK
  <1>4. Gen!BestIndex(side) =
            {i \in scanned : \A j \in scanned :
                /\ ~Gen!Beats(side, resting[j].price, resting[i].price)
                /\ resting[j].price = resting[i].price => i <= j}
    BY DEF Gen!BestIndex
  <1>5. \A i \in side_of \ scanned : side = "B" /\ resting[i].price = 0
    BY <1>2, <1>3, WordAssumption DEF Gen!Beats, Gen!Sentinel, Sides
  <1>6. \A i \in scanned : worse(i) \in Nat
    BY <1>2, WordAssumption
  <1> HIDE DEF scanned
  <1>7. ASSUME scanned # {}
        PROVE  \E idx \in scanned : idx \in Gen!BestIndex(side)
    <2> DEFINE T == {worse(i) : i \in scanned}
    <2>1. T \in SUBSET Nat /\ T # {}
      BY <1>6, <1>7
    <2>2. PICK t \in T : \A u \in T : t <= u
      <3> HIDE DEF T
      <3> QED BY <2>1, BookAssumptions, BookP!Least
    <2> DEFINE S == {i \in scanned : worse(i) = t}
    <2>3. S \in SUBSET Nat /\ S # {}
      BY <1>1, <2>2 DEF scanned
    <2>4. PICK idx \in S : \A j \in S : idx <= j
      <3> HIDE DEF S
      <3> QED BY <2>3, BookAssumptions, BookP!Least
    <2>5. \A j \in scanned :
             /\ ~Gen!Beats(side, resting[j].price, resting[idx].price)
             /\ resting[j].price = resting[idx].price => idx <= j
      <3> SUFFICES ASSUME NEW j \in scanned
                   PROVE  /\ ~Gen!Beats(side, resting[j].price, resting[idx].price)
                          /\ resting[j].price = resting[idx].price => idx <= j
        OBVIOUS
      <3>1. worse(idx) = t /\ t <= worse(j)
        BY <2>2, <2>4
      <3>2. resting[j].price = resting[idx].price => worse(j) = t
        BY <3>1
      <3>3. j \in DOMAIN resting /\ idx \in DOMAIN resting
        BY <2>4 DEF scanned
      <3>4. ~Gen!Beats(side, resting[j].price, resting[idx].price)
        BY <1>2, <3>1, <3>3, WordAssumption DEF Gen!Beats
      <3> QED BY <2>4, <3>2, <3>4
    <2> QED BY <1>4, <2>4, <2>5
  <1>8. ASSUME NEW idx \in Gen!BestIndex(side)
        PROVE  /\ idx \in side_of
               /\ \A i \in side_of :
                     ~BookP!Better(side, resting[i].price, resting[idx].price)
    <2>1. /\ idx \in scanned
          /\ \A j \in scanned :
                ~Gen!Beats(side, resting[j].price, resting[idx].price)
      BY <1>4, <1>8
    <2>2. idx \in side_of
      BY <2>1 DEF scanned
    <2>3. ASSUME NEW i \in side_of
          PROVE  ~BookP!Better(side, resting[i].price, resting[idx].price)
      <3>1. CASE i \in scanned
        BY <2>1, <3>1 DEF Gen!Beats, BookP!Better
      <3>2. CASE i \notin scanned
        <4>1. side = "B" /\ resting[i].price = 0
          BY <1>5, <3>2
        <4>2. resting[idx].price \in Nat
          BY <1>2, <2>2
        <4> QED BY <4>1, <4>2 DEF BookP!Better
      <3> QED BY <3>1, <3>2
    <2> QED BY <2>2, <2>3
  <1> QED BY <1>5, <1>7, <1>8

(* In a view that agrees with the pool, that order is at the touch.        *)
LEMMA BestAtTouch ==
    ASSUME resting \in Seq(Gen!PoolOrder), PoolOK, NEW side \in Sides,
           NEW v \in View, Mirrored(resting, v, {}), Covered(resting, v, {})
    PROVE  /\ \A idx \in Gen!BestIndex(side) :
                LET e == resting[idx] IN
                /\ idx \in DOMAIN resting
                /\ e.order_id \in Word
                /\ IsOrder(v, e.order_id, side)
                /\ v[e.order_id] = AsOrder(e)
                /\ Unbeaten(v, side, e.price)
           /\ Gen!BestIndex(side) = {} =>
                \A id \in Word : IsOrder(v, id, side) => side = "B" /\ v[id].price = 0
  <1>1. \A i \in DOMAIN resting : resting[i] \in
            [order_id : Word, price : Word, quantity : Word, side : Sides]
    <2>1. \A i \in DOMAIN resting : resting[i] \in Gen!PoolOrder
      OBVIOUS
    <2> QED BY <2>1, PoolOrders, Zenon
  <1>2. \A i \in DOMAIN resting : v[resting[i].order_id] = AsOrder(resting[i])
    BY DEF Mirrored
  <1>3. \A id \in Word : v[id] # BookP!NoOrder =>
            \E i \in DOMAIN resting : /\ resting[i].order_id = id
                                      /\ v[id] = AsOrder(resting[i])
    BY <1>2 DEF Covered
  <1>4. \A i \in DOMAIN resting : AsOrder(resting[i]) # BookP!NoOrder
    BY <1>1 DEF AsOrder, BookP!NoOrder, Sides
  <1>5. ASSUME NEW idx \in Gen!BestIndex(side)
        PROVE  /\ idx \in DOMAIN resting
               /\ resting[idx].order_id \in Word
               /\ IsOrder(v, resting[idx].order_id, side)
               /\ v[resting[idx].order_id] = AsOrder(resting[idx])
               /\ Unbeaten(v, side, resting[idx].price)
    <2>1. /\ idx \in DOMAIN resting /\ resting[idx].side = side
          /\ \A i \in DOMAIN resting : resting[i].side = side =>
                ~BookP!Better(side, resting[i].price, resting[idx].price)
      BY BestFacts
    <2>2. IsOrder(v, resting[idx].order_id, side)
      <3>1. /\ v[resting[idx].order_id] = AsOrder(resting[idx])
            /\ AsOrder(resting[idx]) # BookP!NoOrder
        BY <1>2, <1>4, <2>1
      <3>2. AsOrder(resting[idx]).side = side
        BY <2>1 DEF AsOrder
      <3> QED BY <3>1, <3>2 DEF IsOrder
    <2>3. Unbeaten(v, side, resting[idx].price)
      <3> SUFFICES ASSUME NEW id \in Word, IsOrder(v, id, side)
                   PROVE  /\ ~BookP!Better(side, v[id].price, resting[idx].price)
                          /\ v[id].quantity > 0
        BY DEF Unbeaten
      <3>1. PICK i \in DOMAIN resting : v[id] = AsOrder(resting[i])
        BY <1>3 DEF IsOrder
      <3>2. /\ resting[i].side = side /\ v[id].price = resting[i].price
            /\ v[id].quantity = resting[i].quantity
        BY <3>1 DEF IsOrder, AsOrder
      <3> QED BY <2>1, <3>2 DEF PoolOK
    <2> QED BY <1>1, <1>2, <2>1, <2>2, <2>3
  <1>6. ASSUME Gen!BestIndex(side) = {}, NEW id \in Word, IsOrder(v, id, side)
        PROVE  side = "B" /\ v[id].price = 0
    <2>1. PICK i \in DOMAIN resting : v[id] = AsOrder(resting[i])
      BY <1>3, <1>6 DEF IsOrder
    <2>2. resting[i].side = side /\ v[id].price = resting[i].price
      BY <1>6, <2>1 DEF IsOrder, AsOrder
    <2> QED BY <1>6, <2>2, BestFacts
  <1> QED BY <1>5, <1>6

(* The packet written by a step of the generator carries m, and m is what  *)
(* the step did to the pool.                                               *)
Wrote(m) ==
    /\ packet' = Gen!WriteMessage(m)
    /\ Changes(resting, resting', m)
    /\ \/ Fresh(resting, m)
       \/ next_order_id' # next_order_id /\ next_order_id \in PoolIds
    /\ \A v \in View : Mirrored(resting, v, {}) /\ Covered(resting, v, {}) =>
            AtTouch(v, m)

(* What every build*() leaves behind.                                      *)
Built ==
    /\ resting' \in Seq(Gen!PoolOrder) /\ Len(resting') <= PoolMax
    /\ next_order_id' \in Word \ {0}
    /\ PoolOK'
    /\ \E m : Wrote(m)

(* The bounds the assumptions put on the words.                            *)
LEMMA GeneratorFacts ==
    /\ WordMod \in Nat /\ WordMod > 3 /\ 0 \in Word
    /\ Tick \in Nat /\ MidMax \in Nat /\ MidMax < WordMod
    /\ PoolMax \in Nat /\ EvolveEvery \in Nat \ {0}
    /\ \A n \in Int : n % WordMod \in Word
    /\ \A w \in Word : w % WordMod = w
    /\ \A d \in Dists : d \in Nat /\ MidMax + d < WordMod - 1
    /\ Qtys \subseteq Word \ {0}
  <1>1. /\ Tick \in Nat \ {0} /\ MidMax \in Nat /\ Tick <= MidMax
        /\ Dists # {} /\ \A d \in Dists : d \in Nat /\ d >= Tick
        /\ \A d \in Dists : MidMax + d < WordMod - 1
    BY FeedAssumption DEF Gen!GeneratorAssumption
  <1>2. WordMod \in Nat /\ WordMod > 3 /\ MidMax < WordMod
    BY <1>1, WordAssumption
  <1>3. Qtys \subseteq Word \ {0} /\ PoolMax \in Nat /\ EvolveEvery \in Nat \ {0}
    BY FeedAssumption DEF Gen!GeneratorAssumption, Gen!Word, Word
  <1>4. /\ \A n \in Int : n % WordMod \in Word
        /\ \A w \in Word : w % WordMod = w
    BY <1>2 DEF Word
  <1>5. 0 \in Word
    BY <1>2 DEF Word
  <1> QED BY <1>1, <1>2, <1>3, <1>4, <1>5

LEMMA AddStep ==
    ASSUME Gen!TypeOK, PoolOK, NEW mid \in Tick .. MidMax, Gen!BuildAddOrder(mid)
    PROVE  Built
  <1>1. PICK side \in Sides, dist \in Dists, qty \in Qtys :
            LET price == Gen!RandPrice(side, mid, dist) IN
            /\ resting' = Append(resting, [order_id |-> next_order_id, price |-> price,
                                           quantity |-> qty, side |-> side])
            /\ Gen!Emit(Gen!AddOrder(next_order_id, side, price, qty))
    BY SameSets DEF Gen!BuildAddOrder
  <1> DEFINE price == Gen!RandPrice(side, mid, dist)
             e == [order_id |-> next_order_id, price |-> price,
                   quantity |-> qty, side |-> side]
             m == AddOrder(e.order_id, e.side, e.price, e.quantity)
  <1>2. mid \in Int /\ dist \in Int /\ 0 <= mid /\ 0 <= dist /\ mid <= MidMax
    BY GeneratorFacts
  <1>3. price \in Word /\ (side = "S" => price < WordMod - 1)
    <2>1. CASE side = "B"
      <3>1. price = (mid - dist) % WordMod
        BY <2>1 DEF Gen!RandPrice
      <3>2. mid - dist \in Int
        BY <1>2
      <3>3. (mid - dist) % WordMod \in Word
        BY <3>2, GeneratorFacts
      <3> QED BY <2>1, <3>1, <3>3
    <2>2. CASE side = "S"
      <3>1. price = (mid + dist) % WordMod
        BY <2>2 DEF Gen!RandPrice
      <3>2. mid + dist \in Word /\ mid + dist < WordMod - 1
        BY <1>2, GeneratorFacts DEF Word
      <3> QED BY <3>1, <3>2, GeneratorFacts
    <2> QED BY <2>1, <2>2 DEF Sides
  <1>4. /\ next_order_id \in Word \ {0} /\ resting \in Seq(Gen!PoolOrder)
        /\ Len(resting) < PoolMax /\ next_order_id' = Gen!NextId
    BY SameSets DEF Gen!TypeOK, Gen!BuildAddOrder
  <1>5. qty \in Word /\ qty # 0 /\ qty > 0
    BY GeneratorFacts, WordNat
  <1>6. e \in Gen!PoolOrder
    BY <1>3, <1>4, <1>5, PoolOrders
  <1> HIDE DEF price
  <1>7. /\ resting' = Append(resting, e)
        /\ packet' = Gen!WriteMessage(m)
    BY <1>1 DEF Gen!Emit, Gen!AddOrder, AddOrder, price
  <1>8. next_order_id' \in Word \ {0} /\ next_order_id' # next_order_id
    <2>1. WordMod \in Nat /\ WordMod > 3
      BY GeneratorFacts
    <2>2. next_order_id \in Nat /\ next_order_id <= WordMod - 1
      BY <1>4, <2>1 DEF Word
    <2>3. CASE next_order_id = WordMod - 1
      BY <1>4, <2>1, <2>3 DEF Gen!NextId, Word
    <2>4. CASE next_order_id # WordMod - 1
      BY <1>4, <2>1, <2>2, <2>4 DEF Gen!NextId, Word
    <2> QED BY <2>3, <2>4
  <1>9. Changes(resting, resting', m)
    <2> HIDE DEF e
    <2> QED BY <1>6, <1>7 DEF Changes, Adds
  <1>10. \/ Fresh(resting, m)
         \/ next_order_id' # next_order_id /\ next_order_id \in PoolIds
    BY <1>8 DEF Fresh, AddOrder, PoolIds
  <1>11. \A v : AtTouch(v, m)
    BY DEF AtTouch, AddOrder
  <1>12. PoolOK'
    BY <1>3, <1>4, <1>5, <1>7 DEF PoolOK
  <1>13. resting' \in Seq(Gen!PoolOrder) /\ Len(resting') <= PoolMax
    <2> HIDE DEF e
    <2> QED BY <1>4, <1>6, <1>7, GeneratorFacts
  <1> HIDE DEF m
  <1>14. Wrote(m)
    BY <1>7, <1>9, <1>10, <1>11 DEF Wrote
  <1> QED BY <1>8, <1>12, <1>13, <1>14 DEF Built

(* An entry that goes leaves a pool that is in order.                      *)
LEMMA PoolSwapOut ==
    ASSUME Gen!TypeOK, PoolOK, NEW idx \in DOMAIN resting,
           resting' = Gen!SwapOut(resting, idx)
    PROVE  /\ resting' \in Seq(Gen!PoolOrder) /\ Len(resting') <= PoolMax
           /\ PoolOK'
  <1>1. resting \in Seq(Gen!PoolOrder) /\ Len(resting) <= PoolMax
    BY DEF Gen!TypeOK
  <1>2. /\ resting' \in Seq(Gen!PoolOrder) /\ Len(resting') = Len(resting) - 1
        /\ \A j \in DOMAIN resting' : \E i \in DOMAIN resting : resting'[j] = resting[i]
    BY <1>1, SwapOutFacts
  <1>3. Len(resting') <= PoolMax
    BY <1>1, <1>2, GeneratorFacts
  <1> QED BY <1>2, <1>3 DEF PoolOK

LEMMA CancelStep ==
    ASSUME Gen!TypeOK, PoolOK, Gen!BuildCancelOrder
    PROVE  Built
  <1>1. PICK idx \in DOMAIN resting :
            /\ resting' = Gen!SwapOut(resting, idx)
            /\ Gen!Emit(Gen!CancelOrder(resting[idx].order_id, 0))
            /\ UNCHANGED next_order_id
    BY DEF Gen!BuildCancelOrder
  <1> DEFINE m == CancelOrder(resting[idx].order_id, 0)
  <1>2. packet' = Gen!WriteMessage(m)
    BY <1>1 DEF Gen!Emit, Gen!CancelOrder, CancelOrder
  <1>3. Changes(resting, resting', m)
    BY <1>1 DEF Changes, Cancels
  <1>4. Fresh(resting, m) /\ \A v : AtTouch(v, m)
    BY DEF Fresh, AtTouch, CancelOrder
  <1>5. next_order_id' \in Word \ {0}
    BY <1>1, SameSets DEF Gen!TypeOK
  <1> HIDE DEF m
  <1>6. Wrote(m)
    BY <1>2, <1>3, <1>4 DEF Wrote
  <1> QED BY <1>1, <1>5, <1>6, PoolSwapOut DEF Built

LEMMA ExecuteStep ==
    ASSUME Gen!TypeOK, PoolOK, Gen!BuildExecute
    PROVE  Built
  <1>1. PICK side \in Sides, drawn \in Qtys : \E idx \in Gen!BestIndex(side) :
            LET order == resting[idx]
                exec_qty == IF drawn >= order.quantity THEN order.quantity ELSE drawn
            IN /\ resting' = IF drawn >= order.quantity
                             THEN Gen!SwapOut(resting, idx)
                             ELSE [resting EXCEPT ![idx].quantity = @ - exec_qty]
               /\ Gen!Emit(Gen!Execute(order.order_id, exec_qty, order.price))
               /\ UNCHANGED next_order_id
    BY SameSets DEF Gen!BuildExecute
  <1>2. PICK idx \in Gen!BestIndex(side) :
            LET order == resting[idx]
                exec_qty == IF drawn >= order.quantity THEN order.quantity ELSE drawn
            IN /\ resting' = IF drawn >= order.quantity
                             THEN Gen!SwapOut(resting, idx)
                             ELSE [resting EXCEPT ![idx].quantity = @ - exec_qty]
               /\ Gen!Emit(Gen!Execute(order.order_id, exec_qty, order.price))
               /\ UNCHANGED next_order_id
    BY <1>1
  <1> DEFINE e == resting[idx]
             qty == IF drawn >= e.quantity THEN e.quantity ELSE drawn
             m == Execute(e.order_id, qty, e.price)
  <1>3. resting \in Seq(Gen!PoolOrder) /\ Len(resting) <= PoolMax
    BY DEF Gen!TypeOK
  <1>4. idx \in DOMAIN resting
    BY <1>3, BestFacts
  <1>5. e \in [order_id : Word, price : Word, quantity : Word, side : Sides]
    <2>1. e \in Gen!PoolOrder
      BY <1>3, <1>4
    <2> QED BY <2>1, PoolOrders, Zenon
  <1>6. /\ e.quantity \in Word /\ e.quantity \in Nat
        /\ drawn \in Word /\ drawn \in Nat /\ drawn > 0
    <2>1. drawn \in Word /\ drawn # 0
      BY GeneratorFacts
    <2>2. e.quantity \in Word
      BY <1>5
    <2> HIDE DEF e
    <2> QED BY <2>1, <2>2, WordNat
  <1>7. qty \in Word /\ qty \in Nat /\ qty <= e.quantity
    BY <1>6
  <1>8. packet' = Gen!WriteMessage(m)
    BY <1>2 DEF Gen!Emit, Gen!Execute, Execute
  <1>9. \/ qty = e.quantity /\ resting' = Gen!SwapOut(resting, idx)
        \/ /\ qty < e.quantity
           /\ resting' = [resting EXCEPT ![idx].quantity = @ - qty]
    <2>1. resting' = IF drawn >= e.quantity
                     THEN Gen!SwapOut(resting, idx)
                     ELSE [resting EXCEPT ![idx].quantity = @ - qty]
      BY <1>2
    <2>2. CASE drawn >= e.quantity
      BY <2>1, <2>2
    <2>3. CASE ~(drawn >= e.quantity)
      <3>1. qty < e.quantity
        BY <1>6, <2>3
      <3> HIDE DEF qty
      <3> QED BY <2>1, <2>3, <3>1
    <2> QED BY <2>2, <2>3
  <1> HIDE DEF qty
  <1>10. Changes(resting, resting', m)
    BY <1>4, <1>7, <1>9 DEF Changes, Executes
  <1>11. Fresh(resting, m)
    BY DEF Fresh, Execute
  <1>12. ASSUME NEW v \in View, Mirrored(resting, v, {}), Covered(resting, v, {})
         PROVE  AtTouch(v, m)
    <2>1. /\ e.order_id \in Word /\ IsOrder(v, e.order_id, side)
          /\ v[e.order_id] = AsOrder(e) /\ Unbeaten(v, side, e.price)
      BY <1>3, <1>12, BestAtTouch
    <2>2. v[e.order_id].price = e.price /\ v[e.order_id].quantity = e.quantity
      BY <2>1 DEF AsOrder
    <2>3. /\ m.type = "Execute" /\ m.order_id = e.order_id
          /\ m.exec_qty = qty /\ m.exec_price = e.price
      BY DEF Execute
    <2> HIDE DEF m, e
    <2>4. Executable(v, m)
      BY <1>7, <2>1, <2>2, <2>3 DEF Executable
    <2> QED BY <2>3, <2>4 DEF AtTouch
  <1>13. /\ resting' \in Seq(Gen!PoolOrder) /\ Len(resting') <= PoolMax
         /\ PoolOK'
    <2>1. CASE resting' = Gen!SwapOut(resting, idx)
      BY <1>4, <2>1, PoolSwapOut
    <2>2. CASE /\ qty < e.quantity
               /\ resting' = [resting EXCEPT ![idx].quantity = @ - qty]
      <3>1. resting' \in Seq(Gen!PoolOrder)
        BY <1>3, <1>10, ChangeType
      <3>2. /\ DOMAIN resting' = DOMAIN resting /\ Len(resting') = Len(resting)
            /\ resting'[idx] = [e EXCEPT !.quantity = @ - qty]
            /\ \A i \in DOMAIN resting \ {idx} : resting'[i] = resting[i]
        BY <1>3, <1>4, <2>2
      <3>3. /\ resting'[idx].quantity = e.quantity - qty
            /\ resting'[idx].price = e.price /\ resting'[idx].side = e.side
        BY <1>5, <3>2
      <3>4. resting'[idx].quantity > 0
        BY <1>6, <1>7, <2>2, <3>3
      <3>5. PoolOK'
        BY <1>4, <3>2, <3>3, <3>4 DEF PoolOK
      <3> QED BY <1>3, <3>1, <3>2, <3>5
    <2> QED BY <1>9, <2>1, <2>2
  <1>14. next_order_id' \in Word \ {0}
    BY <1>2, SameSets DEF Gen!TypeOK
  <1> HIDE DEF m
  <1>15. Wrote(m)
    BY <1>8, <1>10, <1>11, <1>12 DEF Wrote
  <1> QED BY <1>13, <1>14, <1>15 DEF Built

LEMMA QuoteStep ==
    ASSUME Gen!TypeOK, PoolOK, NEW mid \in Tick .. MidMax, Gen!BuildQuote(mid)
    PROVE  Built
  <1> DEFINE best(side, fallback) ==
                 IF Gen!BestIndex(side) = {}
                 THEN [price |-> fallback % WordMod, quantity |-> 0]
                 ELSE resting[CHOOSE i \in Gen!BestIndex(side) : TRUE]
             bid == best("B", mid - Tick)
             ask == best("S", mid + Tick)
             m == Quote(bid.price, bid.quantity, ask.price, ask.quantity)
  <1>1. resting \in Seq(Gen!PoolOrder) /\ Len(resting) <= PoolMax
    BY DEF Gen!TypeOK
  <1>2. /\ packet' = Gen!WriteMessage(m)
        /\ resting' = resting /\ next_order_id' = next_order_id
    BY DEF Gen!BuildQuote, Gen!Emit, Gen!Quote, Quote
  <1>3. ASSUME NEW side \in Sides, NEW fallback \in Int
        PROVE  /\ best(side, fallback).price \in Word
               /\ best(side, fallback).quantity \in Word
               /\ \A v \in View :
                    Mirrored(resting, v, {}) /\ Covered(resting, v, {}) =>
                        QuotedSide(v, side, best(side, fallback).price,
                                   best(side, fallback).quantity)
    <2>1. CASE Gen!BestIndex(side) = {}
      <3>1. fallback % WordMod \in Word /\ 0 \in Word
        BY GeneratorFacts
      <3>2. /\ best(side, fallback).price = fallback % WordMod
            /\ best(side, fallback).quantity = 0
        BY <2>1
      <3>3. ASSUME NEW v \in View, Mirrored(resting, v, {}), Covered(resting, v, {})
            PROVE  \A id \in Word : IsOrder(v, id, side) =>
                        side = "B" /\ v[id].price = 0
        BY <1>1, <2>1, <3>3, BestAtTouch
      <3> HIDE DEF best
      <3> QED BY <3>1, <3>2, <3>3 DEF QuotedSide
    <2>2. CASE Gen!BestIndex(side) # {}
      <3> DEFINE idx == CHOOSE i \in Gen!BestIndex(side) : TRUE
                 e == resting[idx]
      <3>1. idx \in Gen!BestIndex(side) /\ best(side, fallback) = e
        BY <2>2
      <3> HIDE DEF idx, best
      <3>2. idx \in DOMAIN resting
        BY <1>1, <3>1, BestFacts
      <3>3. e \in Gen!PoolOrder
        BY <1>1, <3>2
      <3>4. e.price \in Word /\ e.quantity \in Word
        BY <3>3, PoolOrders
      <3>5. ASSUME NEW v \in View, Mirrored(resting, v, {}), Covered(resting, v, {})
            PROVE  QuotedSide(v, side, e.price, e.quantity)
        <4>1. /\ e.order_id \in Word /\ IsOrder(v, e.order_id, side)
              /\ v[e.order_id] = AsOrder(e) /\ Unbeaten(v, side, e.price)
          BY <1>1, <3>1, <3>5, BestAtTouch
        <4>2. v[e.order_id].price = e.price /\ v[e.order_id].quantity = e.quantity
          BY <4>1 DEF AsOrder
        <4> HIDE DEF e
        <4> QED BY <4>1, <4>2 DEF QuotedSide
      <3> QED BY <3>1, <3>4, <3>5
    <2> QED BY <2>1, <2>2
  <1>4. mid - Tick \in Int /\ mid + Tick \in Int
    BY GeneratorFacts
  <1>5. m \in QuoteMessage
    <2> HIDE DEF best
    <2> QED BY <1>3, <1>4 DEF Quote, QuoteMessage, Sides
  <1>6. Changes(resting, resting', m)
    <2> HIDE DEF m
    <2> QED BY <1>2, <1>5 DEF Changes, Quotes
  <1>7. Fresh(resting, m)
    BY DEF Fresh, Quote
  <1>8. ASSUME NEW v \in View, Mirrored(resting, v, {}), Covered(resting, v, {})
        PROVE  AtTouch(v, m)
    <2> HIDE DEF best
    <2>1. /\ QuotedSide(v, "B", bid.price, bid.quantity)
          /\ QuotedSide(v, "S", ask.price, ask.quantity)
      BY <1>3, <1>4, <1>8 DEF Sides
    <2>2. /\ m.type = "Quote" /\ m.bid_price = bid.price
          /\ m.bid_qty = bid.quantity /\ m.ask_price = ask.price
          /\ m.ask_qty = ask.quantity
      BY DEF Quote
    <2> HIDE DEF m, bid, ask
    <2> QED BY <2>1, <2>2 DEF AtTouch
  <1> HIDE DEF m
  <1>9. Wrote(m)
    BY <1>2, <1>6, <1>7, <1>8 DEF Wrote
  <1>10. PoolOK' /\ next_order_id' \in Word \ {0}
    BY <1>2, SameSets DEF PoolOK, Gen!TypeOK
  <1> QED BY <1>1, <1>2, <1>9, <1>10 DEF Built

(* nextPacket() writes one message and keeps its pool in step with it.     *)
LEMMA GeneratorStep ==
    ASSUME Gen!TypeOK, PoolOK, Gen!NextPacket
    PROVE  /\ Gen!TypeOK' /\ PoolOK'
           /\ packet' \in Packet
           /\ \E m \in Message : Wrote(m)
  <1>1. PICK mid \in Gen!EvolvedMids :
            /\ mid_price' = mid
            /\ \/ /\ \/ Gen!BuildAddOrder(mid) \/ Gen!BuildCancelOrder
                     \/ Gen!BuildExecute \/ Gen!BuildQuote(mid)
                  /\ generated' = (generated + 1) % EvolveEvery
               \/ /\ Gen!DrawMayFail
                  /\ Gen!BuildQuote(mid)
                  /\ UNCHANGED generated
    BY DEF Gen!NextPacket
  <1>2. /\ resting \in Seq(Gen!PoolOrder)
        /\ mid_price \in Tick .. MidMax /\ generated \in 0 .. EvolveEvery - 1
    BY DEF Gen!TypeOK
  <1>3. mid \in Tick .. MidMax
    <2>1. CASE generated # 0
      BY <1>1, <1>2, <2>1 DEF Gen!EvolvedMids
    <2>2. CASE generated = 0
      <3>1. PICK move \in MidMoves :
                mid = IF mid_price + move < Tick THEN Tick ELSE mid_price + move
        BY <1>1, <2>2 DEF Gen!EvolvedMids
      <3>2. mid <= MidMax
        BY <1>1, <2>2 DEF Gen!EvolvedMids
      <3>3. move \in Int
        BY FeedAssumption DEF Gen!GeneratorAssumption
      <3> QED BY <1>2, <3>1, <3>2, <3>3, GeneratorFacts
    <2> QED BY <2>1, <2>2
  <1>4. generated' \in 0 .. EvolveEvery - 1
    <2>1. \A n \in Int, k \in Nat \ {0} : n % k \in 0 .. k - 1
      OBVIOUS
    <2>2. EvolveEvery \in Nat \ {0} /\ generated + 1 \in Int
      BY <1>2, GeneratorFacts
    <2>3. (generated + 1) % EvolveEvery \in 0 .. EvolveEvery - 1
      BY <2>1, <2>2
    <2> QED BY <1>1, <1>2, <2>3
  <1>5. Built
    BY <1>1, <1>3, AddStep, CancelStep, ExecuteStep, QuoteStep
  <1>6. PICK m : Wrote(m)
    BY <1>5 DEF Built
  <1>7. m \in Message
    BY <1>2, <1>6, ChangeType DEF Wrote
  <1>8. packet' \in Packet
    BY <1>6, <1>7, RoundTrip DEF Wrote
  <1>9. Gen!Packet = Packet
    BY SameSets DEF Gen!Packet, Packet, Gen!HalfWord, HalfWord, Gen!Body, Body,
           Gen!Message, Message, Gen!AddOrderMessage, AddOrderMessage,
           Gen!CancelOrderMessage, CancelOrderMessage, Gen!ExecuteMessage,
           ExecuteMessage, Gen!QuoteMessage, QuoteMessage, Gen!NoMessage,
           NoMessage, Gen!SideByte, SideByte
  <1>10. Gen!TypeOK'
    BY <1>1, <1>3, <1>4, <1>5, <1>8, <1>9, SameSets DEF Gen!TypeOK, Built
  <1> QED BY <1>5, <1>6, <1>7, <1>8, <1>10 DEF Built

-----------------------------------------------------------------------------
(* The views, one step at a time.                                          *)

(* What a buffer holds is a message or none, and names words.              *)
LEMMA BodyFacts ==
    /\ \A p \in Packet : ParsePacket(p) \in Body
    /\ \A m \in Body : NamedIn(m) \subseteq Word
    /\ \A p : Named(p) = NamedIn(ParsePacket(p))
    /\ Gen!NoPacket \in Packet
  <1>1. \A w \in Word : Bswap32[w] \in Word
    BY WordAssumption
  <1>2. ASSUME NEW m \in Body
        PROVE  SwapFields(m) \in Body
    <2>1. CASE m \in AddOrderMessage
      BY <1>1, <2>1 DEF AddOrderMessage, AddOrder, SwapFields, Message, Body
    <2>2. CASE m \in CancelOrderMessage
      BY <1>1, <2>2 DEF CancelOrderMessage, CancelOrder, SwapFields, Message, Body
    <2>3. CASE m \in ExecuteMessage
      BY <1>1, <2>3 DEF ExecuteMessage, Execute, SwapFields, Message, Body
    <2>4. CASE m \in QuoteMessage
      BY <1>1, <2>4 DEF QuoteMessage, Quote, SwapFields, Message, Body
    <2>5. CASE m = NoMessage
      BY <2>5 DEF NoMessage, SwapFields, Body
    <2> QED BY <2>1, <2>2, <2>3, <2>4, <2>5 DEF Message, Body
  <1>3. \A p \in Packet : ParsePacket(p) \in Body
    BY <1>2 DEF Packet, ParsePacket, ParsePayload, Body
  <1>4. \A m \in Body : NamedIn(m) \subseteq Word
    BY DEF Body, Message, AddOrderMessage, CancelOrderMessage, ExecuteMessage,
           QuoteMessage, NoMessage, NamedIn
  <1>5. \A p : Named(p) = NamedIn(ParsePacket(p))
    BY DEF Named, NamedIn
  <1>6. Gen!NoPacket \in Packet
    BY DEF Gen!NoPacket, Packet, HalfWord, Body, NoMessage, Gen!NoMessage
  <1> QED BY <1>3, <1>4, <1>5, <1>6

LEMMA BookTypes == BookP!IInv => Book!BookTypeOK
  BY BookAssumptions, BookP!InvariantTypes, SameTypes

(* The book moves as its packets say.                                      *)
LEMMA BookStep ==
    ASSUME BookP!IInv, NEW p \in Packet, NEW q, q = p, Book!ApplyPacket(q)
    PROVE  /\ BookP!IInv' /\ Book!BookTypeOK'
           /\ \A id \in Word : BookP!Shown(orders', id)
                = BookP!Moved(BookP!Shown(orders, id), ParsePacket(p), id)
  <1>1. ParsePacket(p) \in BookP!Body
    BY BodyFacts, SameSets
  <1>2. Book!Apply(ParsePacket(p))
    BY SameParsing DEF Book!ApplyPacket
  <1>3. BookP!Apply(ParsePacket(p))
    BY <1>2, SameApply
  <1>4. BookP!IInv'
    BY <1>1, <1>3, BookAssumptions, BookP!ApplyInductive
  <1>5. Book!BookTypeOK'
    <2>1. BookP!IInv' => Book!BookTypeOK'
      BY BookTypes, PTL
    <2> QED BY <1>4, <2>1
  <1>6. \A id \in BookP!Word : BookP!Shown(orders', id)
            = BookP!Moved(BookP!Shown(orders, id), ParsePacket(p), id)
    BY <1>1, <1>3, BookAssumptions, BookP!ApplyMoves
  <1> QED BY <1>4, <1>5, <1>6, SameSets

(* More ids in bad ask less.                                               *)
LEMMA Weaker ==
    ASSUME NEW bad, NEW bad2, bad \subseteq bad2, NEW pool, NEW v, NEW m
    PROVE  /\ Covered(pool, v, bad) => Covered(pool, v, bad2)
           /\ Mirrored(pool, v, bad) => Mirrored(pool, v, bad2)
           /\ Expected(v, m, bad) => Expected(v, m, bad2)
  <1>1. Covered(pool, v, bad) => Covered(pool, v, bad2)
    BY DEF Covered
  <1>2. Mirrored(pool, v, bad) => Mirrored(pool, v, bad2)
    BY DEF Mirrored
  <1>3. Expected(v, m, bad) => Expected(v, m, bad2)
    BY DEF Expected
  <1> QED BY <1>1, <1>2, <1>3

(* A message that never arrives is missed on the order it names only.      *)
LEMMA Missed ==
    ASSUME NEW bad, NEW m, NEW bad2, bad \cup NamedIn(m) \subseteq bad2,
           NEW pool \in Seq(Gen!PoolOrder), NEW v \in View
    PROVE  /\ Covered(pool, After(v, m), bad) => Covered(pool, v, bad2)
           /\ Mirrored(pool, After(v, m), bad) => Mirrored(pool, v, bad2)
  <1>1. \A id \in Word \ bad2 : After(v, m)[id] = v[id]
    BY MovesNamed DEF After
  <1>2. \A i \in DOMAIN pool : pool[i].order_id \in Word
    <2>1. \A e \in Gen!PoolOrder : e.order_id \in Word
      BY PoolOrders
    <2> QED BY <2>1
  <1>3. Covered(pool, After(v, m), bad) => Covered(pool, v, bad2)
    BY <1>1 DEF Covered
  <1>4. Mirrored(pool, After(v, m), bad) => Mirrored(pool, v, bad2)
    BY <1>1, <1>2 DEF Mirrored
  <1> QED BY <1>3, <1>4

(* A message that names no order but a damaged one is always expected.     *)
LEMMA NamedExpected ==
    ASSUME NEW bad, NEW v, NEW g \in Message, NamedIn(g) \subseteq bad
    PROVE  Expected(v, g, bad)
  <1>1. CASE NamedIn(g) = {}
    <2>1. g.type = "Quote"
      BY <1>1 DEF NamedIn, Message, AddOrderMessage, CancelOrderMessage,
                  ExecuteMessage, QuoteMessage
    <2> QED BY <2>1 DEF Expected
  <1>2. CASE NamedIn(g) # {}
    BY <1>2 DEF Expected
  <1> QED BY <1>1, <1>2

(* What a call of nextPacket() means for the views.                        *)
LEMMA GenerateStep ==
    ASSUME IInv, Generate
    PROVE  /\ Gen!TypeOK' /\ PoolOK' /\ collided' \in BOOLEAN
           /\ packet' \in Packet
           /\ resting \in Seq(Gen!PoolOrder) /\ resting' \in Seq(Gen!PoolOrder)
           /\ \E m \in Message :
                /\ packet' = Gen!WriteMessage(m) /\ ParsePacket(packet') = m
                /\ \A v \in View : \A bad :
                     Covered(resting, v, bad) => Covered(resting', After(v, m), bad)
                /\ ~collided' =>
                     /\ ~collided
                     /\ \A v \in View : \A bad : Mirrored(resting, v, bad) =>
                          Mirrored(resting', After(v, m), bad) /\ Expected(v, m, bad)
                /\ \A v \in View :
                     Mirrored(resting, v, {}) /\ Covered(resting, v, {}) =>
                         AtTouch(v, m)
  <1>1. Gen!TypeOK /\ PoolOK /\ Gen!NextPacket /\ collided \in BOOLEAN
    BY DEF IInv, TypeOK, Generate
  <1>2. collided' = (collided \/ (/\ next_order_id' # next_order_id
                                  /\ next_order_id \in PoolIds))
    BY DEF Generate
  <1>3. Gen!TypeOK' /\ PoolOK' /\ packet' \in Packet
    BY <1>1, GeneratorStep
  <1>4. resting \in Seq(Gen!PoolOrder) /\ resting' \in Seq(Gen!PoolOrder)
    BY <1>1, <1>3 DEF Gen!TypeOK
  <1>5. PICK m \in Message : Wrote(m)
    BY <1>1, GeneratorStep
  <1>6. /\ packet' = Gen!WriteMessage(m) /\ ParsePacket(packet') = m
        /\ Changes(resting, resting', m)
    BY <1>5, RoundTrip DEF Wrote
  <1>7. ~collided' => ~collided /\ Fresh(resting, m)
    BY <1>1, <1>2, <1>5 DEF Wrote
  <1>8. ASSUME NEW v \in View, NEW bad, Covered(resting, v, bad)
        PROVE  Covered(resting', After(v, m), bad)
    BY <1>4, <1>6, <1>8, CoveredAfter
  <1>9. ASSUME ~collided', NEW v \in View, NEW bad, Mirrored(resting, v, bad)
        PROVE  Mirrored(resting', After(v, m), bad) /\ Expected(v, m, bad)
    BY <1>4, <1>6, <1>7, <1>9, MirroredAfter
  <1>10. \A v \in View : Mirrored(resting, v, {}) /\ Covered(resting, v, {}) =>
                            AtTouch(v, m)
    BY <1>5 DEF Wrote
  <1>11. collided' \in BOOLEAN
    BY <1>1, <1>2
  <1> QED BY <1>3, <1>4, <1>6, <1>7, <1>8, <1>9, <1>10, <1>11

-----------------------------------------------------------------------------
(* The invariant, one action at a time.                                    *)

LEMMA PathFacts ==
    /\ TxSlots \in Nat \ {0} /\ TxRing \in Nat \ {0} /\ EvBatch \in Nat \ {0}
    /\ Total \in Nat /\ MaxFaults \in Nat
  BY FeedAssumption

LEMMA InitStep ==
    ASSUME Init
    PROVE  IInv
  <1> DEFINE v == [id \in Word |-> BookP!NoOrder]
             views == [k \in 1 .. 1 |-> v]
  <1>1. Gen!TypeOK
    <2>1. /\ resting = <<>> /\ mid_price = InitialMid /\ next_order_id = 1
          /\ generated = 0 /\ packet = Gen!NoPacket
      BY DEF Init, Gen!Init
    <2>2. 1 \in Word \ {0} /\ 0 \in 0 .. EvolveEvery - 1
      BY GeneratorFacts DEF Word
    <2>3. InitialMid \in Tick .. MidMax
      BY FeedAssumption DEF Gen!GeneratorAssumption
    <2>4. packet \in Gen!Packet
      BY <2>1 DEF Gen!Packet, Gen!NoPacket, Gen!HalfWord, Gen!Body, Gen!NoMessage
    <2>5. <<>> \in Seq(Gen!PoolOrder) /\ Len(<<>>) <= PoolMax
      BY GeneratorFacts
    <2> QED BY <2>1, <2>2, <2>3, <2>4, <2>5, SameSets DEF Gen!TypeOK
  <1>2. BookP!IInv /\ Book!BookTypeOK
    <2>1. /\ orders = BookP!EmptyMap
          /\ levels = [side \in BookP!Sides |-> BookP!EmptyMap]
          /\ last_quote = BookP!NoMessage
      BY SameSets DEF Init, Book!EmptyBook, Book!EmptyMap, BookP!EmptyMap,
                      Book!NoMessage, BookP!NoMessage
    <2>2. BookP!IInv
      BY <2>1, BookAssumptions, BookP!EmptyConsistent DEF BookP!IInv
    <2> QED BY <2>2, BookTypes
  <1>3. /\ program \in {"pktgen", "exchange_strategy"} /\ sent = 0
        /\ slots = [s \in Slots |-> Gen!NoPacket] /\ next_slot = 0
        /\ posted = <<>> /\ completed = 0 /\ reap_due = FALSE
        /\ faults = 0 /\ damaged = {} /\ collided = FALSE
        /\ resting = <<>> /\ orders = Book!EmptyMap
    BY DEF Init, Gen!Init, Book!EmptyBook
  <1>4. TypeOK
    <2>1. slots \in [Slots -> Packet] /\ 0 \in Slots
      BY <1>3, BodyFacts, PathFacts DEF Slots
    <2>2. /\ posted \in Seq(Descriptor)
          /\ completed \in Nat /\ Len(posted) + completed <= TxRing
      BY <1>3, PathFacts
    <2>3. 0 \in 0 .. Total /\ 0 \in 0 .. MaxFaults
      BY PathFacts
    <2> QED BY <1>1, <1>2, <1>3, <2>1, <2>2, <2>3 DEF TypeOK
  <1>5. Len(posted) = 0 /\ DOMAIN resting = {}
    BY <1>3
  <1>6. views \in [1 .. Len(posted) + 1 -> View]
    BY <1>5 DEF View, BookP!Rest
  <1>7. \A id \in Word : views[1][id] = BookP!Shown(orders, id)
    BY <1>3 DEF BookP!Shown, Book!EmptyMap
  <1>8. Covered(resting, views[1], damaged) /\ Mirrored(resting, views[1], damaged)
    BY <1>5 DEF Covered, Mirrored, Distinct
  <1> HIDE DEF views
  <1>9. InLine(views)
    BY <1>5, <1>6, <1>7, <1>8 DEF InLine
  <1>10. PoolOK /\ Written /\ Fitting
    BY <1>3, <1>5 DEF PoolOK, Written, Fitting
  <1> QED BY <1>2, <1>3, <1>4, <1>5, <1>6, <1>9, <1>10 DEF IInv

LEMMA ApplyStep ==
    ASSUME IInv, GenerateAndApply
    PROVE  IInv'
  <1>1. /\ program = "pktgen" /\ Generate /\ Book!ApplyPacket(packet')
        /\ program' = program /\ sent' = sent /\ slots' = slots
        /\ next_slot' = next_slot /\ posted' = posted
        /\ completed' = completed /\ reap_due' = reap_due
        /\ faults' = faults /\ damaged' = damaged
    BY DEF GenerateAndApply, pathVars, txVars
  <1>2. posted = <<>> /\ Len(posted) = 0 /\ TypeOK /\ BookP!IInv
    BY <1>1 DEF IInv
  <1>3. /\ Gen!TypeOK' /\ PoolOK' /\ collided' \in BOOLEAN
        /\ packet' \in Packet
    BY <1>1, GenerateStep
  <1>4. PICK m \in Message :
            /\ ParsePacket(packet') = m
            /\ \A v \in View : \A bad :
                 Covered(resting, v, bad) => Covered(resting', After(v, m), bad)
            /\ ~collided' =>
                 /\ ~collided
                 /\ \A v \in View : \A bad : Mirrored(resting, v, bad) =>
                      Mirrored(resting', After(v, m), bad) /\ Expected(v, m, bad)
    BY <1>1, GenerateStep
  <1>5. /\ BookP!IInv' /\ Book!BookTypeOK'
        /\ \A id \in Word : BookP!Shown(orders', id)
             = BookP!Moved(BookP!Shown(orders, id), m, id)
    BY <1>1, <1>2, <1>3, <1>4, BookStep
  <1>6. PICK views \in [1 .. 1 -> View] : InLine(views)
    BY <1>2 DEF IInv
  <1> DEFINE v == views[1]
             views2 == [k \in 1 .. 1 |-> After(v, m)]
  <1>7. /\ v \in View
        /\ \A id \in Word \ damaged : v[id] = BookP!Shown(orders, id)
        /\ Covered(resting, v, damaged)
        /\ ~collided => Mirrored(resting, v, damaged)
    BY <1>2, <1>6 DEF InLine
  <1> HIDE DEF v
  <1>8. views2 \in [1 .. 1 -> View] /\ views2[1] = After(v, m)
    BY <1>7, AfterType
  <1>9. \A id \in Word \ damaged : views2[1][id] = BookP!Shown(orders', id)
    BY <1>5, <1>7, <1>8 DEF After
  <1>10. /\ Covered(resting', views2[1], damaged)
         /\ ~collided' => Mirrored(resting', views2[1], damaged)
    BY <1>4, <1>7, <1>8
  <1> HIDE DEF views2
  <1>11. InLine(views2)'
    BY <1>1, <1>2, <1>8, <1>9, <1>10 DEF InLine
  <1>12. TypeOK'
    BY <1>1, <1>2, <1>3, <1>5 DEF TypeOK, Slots, Descriptor
  <1>13. \E w \in [1 .. Len(posted') + 1 -> View] : InLine(w)'
    BY <1>1, <1>2, <1>8, <1>11
  <1>14. Written' /\ Fitting'
    BY <1>1, <1>2 DEF Written, Fitting
  <1> QED BY <1>1, <1>2, <1>3, <1>5, <1>12, <1>13, <1>14 DEF IInv

(* What InLine says, at the length n of the way.                           *)
LEMMA LineFacts ==
    ASSUME NEW n \in Nat, Len(posted) = n, NEW views, InLine(views)
    PROVE  /\ views \in [1 .. n + 1 -> View]
           /\ \A id \in Word \ damaged : views[1][id] = BookP!Shown(orders, id)
           /\ \A k \in 1 .. n : \A id \in Word \ damaged :
                views[k + 1][id] = BookP!Moved(views[k][id], Flight(k), id)
           /\ Covered(resting, views[n + 1], damaged)
           /\ ~collided => Mirrored(resting, views[n + 1], damaged)
           /\ \A k \in 1 .. n :
                ~collided /\ ~Cut(k) => Expected(views[k], Flight(k), damaged)
           /\ \A k \in 1 .. n : ~collided /\ faults = 0 => AtTouch(views[k], Flight(k))
  BY DEF InLine

(* The NIC has read the oldest frame: the line is one shorter.             *)
LEMMA ShiftLine ==
    ASSUME NEW n \in Nat \ {0}, Len(posted) = n, posted \in Seq(Descriptor),
           posted' = Tail(posted), slots' = slots,
           resting' = resting, collided' = collided,
           damaged \subseteq damaged', faults' = 0 => faults = 0,
           NEW views, InLine(views),
           \A id \in Word \ damaged' : views[2][id] = BookP!Shown(orders', id)
    PROVE  \E w \in [1 .. Len(posted') + 1 -> View] : InLine(w)'
  <1> DEFINE w == [k \in 1 .. n |-> views[k + 1]]
  <1>1. /\ views \in [1 .. n + 1 -> View]
        /\ \A k \in 1 .. n : \A id \in Word \ damaged :
             views[k + 1][id] = BookP!Moved(views[k][id], Flight(k), id)
        /\ Covered(resting, views[n + 1], damaged)
        /\ ~collided => Mirrored(resting, views[n + 1], damaged)
        /\ \A k \in 1 .. n :
             ~collided /\ ~Cut(k) => Expected(views[k], Flight(k), damaged)
        /\ \A k \in 1 .. n : ~collided /\ faults = 0 => AtTouch(views[k], Flight(k))
    BY LineFacts
  <1>2. /\ Len(posted') = n - 1 /\ n - 1 \in Nat
        /\ \A k \in 1 .. n - 1 : posted'[k] = posted[k + 1]
    OBVIOUS
  <1>3. \A k \in 1 .. n - 1 : Flight(k)' = Flight(k + 1) /\ Cut(k)' = Cut(k + 1)
    BY <1>2 DEF Flight, Cut, Frame, Short
  <1>4. w \in [1 .. n -> View] /\ \A k \in 1 .. n : w[k] = views[k + 1]
    BY <1>1
  <1> HIDE DEF w
  <1>5. \A id \in Word \ damaged' : w[1][id] = BookP!Shown(orders', id)
    <2>1. 1 \in 1 .. n /\ w[1] = views[2]
      BY <1>4
    <2> QED BY <2>1
  <1>6. \A k \in 1 .. n - 1 : \A id \in Word \ damaged' :
            w[k + 1][id] = BookP!Moved(w[k][id], Flight(k)', id)
    <2> SUFFICES ASSUME NEW k \in 1 .. n - 1, NEW id \in Word \ damaged'
                 PROVE  w[k + 1][id] = BookP!Moved(w[k][id], Flight(k)', id)
      OBVIOUS
    <2>1. k \in 1 .. n /\ k + 1 \in 1 .. n
      OBVIOUS
    <2>2. views[(k + 1) + 1][id] = BookP!Moved(views[k + 1][id], Flight(k + 1), id)
      BY <1>1, <2>1
    <2>3. w[k + 1] = views[(k + 1) + 1] /\ w[k] = views[k + 1]
      BY <1>4, <2>1
    <2> QED BY <1>3, <2>2, <2>3
  <1>7. /\ w[n] = views[n + 1] /\ (n - 1) + 1 = n
        /\ Covered(resting', w[n], damaged')
        /\ ~collided' => Mirrored(resting', w[n], damaged')
    <2>1. n \in 1 .. n /\ w[n] = views[n + 1] /\ (n - 1) + 1 = n
      BY <1>4
    <2>2. /\ Covered(resting, views[n + 1], damaged')
          /\ ~collided => Mirrored(resting, views[n + 1], damaged')
      BY <1>1, Weaker
    <2> QED BY <2>1, <2>2
  <1>8. ASSUME NEW k \in 1 .. n - 1, ~collided'
        PROVE  /\ ~Cut(k)' => Expected(w[k], Flight(k)', damaged')
               /\ faults' = 0 => AtTouch(w[k], Flight(k)')
    <2>1. k \in 1 .. n /\ k + 1 \in 1 .. n
      OBVIOUS
    <2>2. /\ ~Cut(k + 1) => Expected(views[k + 1], Flight(k + 1), damaged)
          /\ faults' = 0 => AtTouch(views[k + 1], Flight(k + 1))
      BY <1>1, <1>8, <2>1
    <2>3. /\ w[k] = views[k + 1]
          /\ Flight(k)' = Flight(k + 1) /\ Cut(k)' = Cut(k + 1)
      BY <1>3, <1>4, <2>1
    <2> QED BY <2>2, <2>3, Weaker
  <1>9. InLine(w)'
    BY <1>2, <1>4, <1>5, <1>6, <1>7, <1>8 DEF InLine
  <1> QED BY <1>2, <1>4, <1>7, <1>9

LEMMA LineTypes ==
    ASSUME TypeOK, NEW k \in DOMAIN posted
    PROVE  posted[k].slot \in Slots /\ posted[k].len \in Nat
  <1>1. posted[k] \in Descriptor
    BY DEF TypeOK
  <1> QED BY <1>1 DEF Descriptor

(* What the NIC sends for a descriptor under way: the message in its slot, *)
(* or none if that is longer.                                              *)
LEMMA FlightFacts ==
    ASSUME TypeOK, NEW k \in DOMAIN posted, NEW m \in Message,
           slots[posted[k].slot] = Gen!WriteMessage(m)
    PROVE  /\ Frame(posted[k]) \in Packet
           /\ Flight(k) = IF Cut(k) THEN NoMessage ELSE m
           /\ Flight(k) \in Body
           /\ NamedIn(Flight(k)) \subseteq NamedIn(m)
           /\ Named(slots[posted[k].slot]) = NamedIn(m)
  <1>1. posted[k].len \in Nat
    BY LineTypes
  <1>2. /\ Frame(posted[k]) \in Packet
        /\ Flight(k) = IF Cut(k) THEN NoMessage ELSE m
    BY <1>1, RoundTrip DEF Flight, Cut, Frame, Short
  <1>3. NamedIn(NoMessage) = {}
    BY DEF NamedIn, NoMessage
  <1>4. Named(slots[posted[k].slot]) = NamedIn(m)
    BY RoundTrip, BodyFacts
  <1> QED BY <1>2, <1>3, <1>4 DEF Body

(* Taking a frame off the ring keeps the sender's state well typed, and    *)
(* what is left of the line in order.                                      *)
LEMMA TakeFrame ==
    ASSUME IInv, posted # <<>>
    PROVE  /\ \E n \in Nat \ {0} : Len(posted) = n
           /\ posted \in Seq(Descriptor)
           /\ Tail(posted) \in Seq(Descriptor)
           /\ completed + 1 \in Nat /\ Len(Tail(posted)) + (completed + 1) <= TxRing
           /\ \A k \in DOMAIN Tail(posted) :
                k + 1 \in DOMAIN posted /\ Tail(posted)[k] = posted[k + 1]
           /\ Frame(Head(posted)) \in Packet
           /\ ParsePacket(Frame(Head(posted))) = Flight(1)
           /\ Flight(1) \in Body
           /\ NamedIn(Flight(1)) \subseteq Named(slots[Head(posted).slot])
           /\ Named(slots[Head(posted).slot]) \subseteq Word
           /\ Cut(1) => Flight(1) = NoMessage
           /\ ~Cut(1) => NamedIn(Flight(1)) = Named(slots[Head(posted).slot])
           /\ program # "pktgen"
  <1>1. /\ posted \in Seq(Descriptor) /\ completed \in Nat
        /\ Len(posted) + completed <= TxRing
        /\ TypeOK /\ Written
    BY DEF IInv, TypeOK
  <1>2. /\ Len(posted) \in Nat \ {0} /\ Head(posted) = posted[1]
        /\ 1 \in DOMAIN posted
        /\ Tail(posted) \in Seq(Descriptor) /\ Len(Tail(posted)) = Len(posted) - 1
        /\ \A k \in DOMAIN Tail(posted) :
             k + 1 \in DOMAIN posted /\ Tail(posted)[k] = posted[k + 1]
    BY <1>1
  <1>3. PICK m \in Message : slots[posted[1].slot] = Gen!WriteMessage(m)
    BY <1>1, <1>2 DEF Written
  <1>4. /\ Frame(posted[1]) \in Packet
        /\ Flight(1) = IF Cut(1) THEN NoMessage ELSE m
        /\ Flight(1) \in Body
        /\ NamedIn(Flight(1)) \subseteq NamedIn(m)
        /\ Named(slots[posted[1].slot]) = NamedIn(m)
    BY <1>1, <1>2, <1>3, FlightFacts
  <1>5. NamedIn(m) \subseteq Word
    BY BodyFacts DEF Body
  <1>6. completed + 1 \in Nat /\ Len(Tail(posted)) + (completed + 1) <= TxRing
    BY <1>1, <1>2, PathFacts
  <1>7. program # "pktgen"
    BY DEF IInv
  <1> QED BY <1>1, <1>2, <1>4, <1>5, <1>6, <1>7 DEF Flight

(* What is left of the line holds what it held.                            *)
LEMMA ShorterLine ==
    ASSUME IInv, posted # <<>>, posted' = Tail(posted), slots' = slots,
           faults' = 0 => faults = 0
    PROVE  Written' /\ Fitting'
  <1>1. \A k \in DOMAIN posted' : k + 1 \in DOMAIN posted /\ posted'[k] = posted[k + 1]
    BY TakeFrame
  <1>2. Written'
    BY <1>1 DEF IInv, Written
  <1>3. ASSUME faults' = 0, NEW k \in DOMAIN posted'
        PROVE  ~Cut(k)'
    BY <1>1, <1>3 DEF IInv, Fitting, Cut, Short
  <1> QED BY <1>2, <1>3 DEF Fitting

(* Whatever leaves pool, book and line alone keeps the invariant.          *)
LEMMA Idle ==
    ASSUME IInv, TypeOK', resting' = resting, orders' = orders,
           levels' = levels, last_quote' = last_quote, program' = program,
           slots' = slots, posted' = posted, faults' = faults,
           damaged' = damaged, collided' = collided
    PROVE  IInv'
  <1>1. BookP!IInv'
    BY DEF IInv, BookP!IInv, BookP!Consistent, BookP!LevelsType,
           BookP!Matches, BookP!Backed
  <1>2. PICK views \in [1 .. Len(posted) + 1 -> View] : InLine(views)
    BY DEF IInv
  <1>3. InLine(views)'
    BY <1>2 DEF InLine, Flight, Frame, Cut, Short
  <1>4. PoolOK' /\ Written' /\ Fitting'
    BY DEF IInv, PoolOK, Written, Fitting, Cut, Short
  <1> QED BY <1>1, <1>2, <1>3, <1>4 DEF IInv

LEMMA DeliverStep ==
    ASSUME IInv, Deliver
    PROVE  IInv'
  <1>1. /\ posted # <<>> /\ posted' = Tail(posted)
        /\ completed' = completed + 1 /\ reap_due' = reap_due
        /\ Book!ApplyPacket(Frame(Head(posted)))
        /\ resting' = resting /\ mid_price' = mid_price
        /\ next_order_id' = next_order_id /\ generated' = generated
        /\ packet' = packet /\ program' = program /\ sent' = sent
        /\ slots' = slots /\ next_slot' = next_slot /\ faults' = faults
        /\ damaged' = damaged /\ collided' = collided
    BY DEF Deliver, genVars
  <1>2. /\ posted \in Seq(Descriptor) /\ Tail(posted) \in Seq(Descriptor)
        /\ completed + 1 \in Nat /\ Len(Tail(posted)) + (completed + 1) <= TxRing
        /\ Frame(Head(posted)) \in Packet
        /\ ParsePacket(Frame(Head(posted))) = Flight(1)
        /\ program # "pktgen"
    BY <1>1, TakeFrame
  <1>3. PICK n \in Nat \ {0} : Len(posted) = n
    BY <1>1, TakeFrame
  <1>4. /\ BookP!IInv' /\ Book!BookTypeOK'
        /\ \A id \in Word : BookP!Shown(orders', id)
             = BookP!Moved(BookP!Shown(orders, id), Flight(1), id)
    BY <1>1, <1>2, BookStep DEF IInv
  <1>5. PICK views : InLine(views)
    BY DEF IInv
  <1>6. \A id \in Word \ damaged' : views[2][id] = BookP!Shown(orders', id)
    <2>1. 1 \in 1 .. n /\ 1 + 1 = 2
      OBVIOUS
    <2>2. \A id \in Word \ damaged :
             /\ views[1][id] = BookP!Shown(orders, id)
             /\ views[1 + 1][id] = BookP!Moved(views[1][id], Flight(1), id)
      BY <1>3, <1>5, <2>1, LineFacts
    <2> QED BY <1>1, <1>4, <2>1, <2>2
  <1>7. \E w \in [1 .. Len(posted') + 1 -> View] : InLine(w)'
    BY <1>1, <1>2, <1>3, <1>5, <1>6, ShiftLine
  <1>8. TypeOK'
    BY <1>1, <1>2, <1>4 DEF IInv, TypeOK, Gen!TypeOK, Slots, Descriptor
  <1>9. PoolOK' /\ (faults' = 0 => damaged' = {}) /\ program' # "pktgen"
    BY <1>1, <1>2 DEF IInv, PoolOK
  <1>10. Written' /\ Fitting'
    BY <1>1, ShorterLine
  <1> QED BY <1>4, <1>7, <1>8, <1>9, <1>10 DEF IInv

LEMMA LoseStep ==
    ASSUME IInv, Lose
    PROVE  IInv'
  <1>1. /\ posted # <<>> /\ posted' = Tail(posted)
        /\ faults < MaxFaults /\ faults' = faults + 1
        /\ completed' = completed + 1 /\ reap_due' = reap_due
        /\ damaged' = damaged \cup Named(slots[Head(posted).slot])
        /\ resting' = resting /\ mid_price' = mid_price
        /\ next_order_id' = next_order_id /\ generated' = generated
        /\ packet' = packet /\ program' = program /\ sent' = sent
        /\ slots' = slots /\ next_slot' = next_slot
        /\ orders' = orders /\ levels' = levels /\ last_quote' = last_quote
        /\ collided' = collided
    BY DEF Lose, genVars, bookVars
  <1>2. /\ posted \in Seq(Descriptor) /\ Tail(posted) \in Seq(Descriptor)
        /\ completed + 1 \in Nat /\ Len(Tail(posted)) + (completed + 1) <= TxRing
        /\ NamedIn(Flight(1)) \subseteq Named(slots[Head(posted).slot])
        /\ Named(slots[Head(posted).slot]) \subseteq Word
        /\ program # "pktgen"
    BY <1>1, TakeFrame
  <1>3. PICK n \in Nat \ {0} : Len(posted) = n
    BY <1>1, TakeFrame
  <1>4. /\ damaged \subseteq damaged' /\ NamedIn(Flight(1)) \subseteq damaged'
        /\ damaged' \subseteq Word
    BY <1>1, <1>2 DEF IInv, TypeOK
  <1>5. PICK views : InLine(views)
    BY DEF IInv
  <1>6. \A id \in Word \ damaged' : views[2][id] = BookP!Shown(orders', id)
    <2>1. 1 \in 1 .. n /\ 1 + 1 = 2
      OBVIOUS
    <2>2. \A id \in Word \ damaged :
             /\ views[1][id] = BookP!Shown(orders, id)
             /\ views[1 + 1][id] = BookP!Moved(views[1][id], Flight(1), id)
      BY <1>3, <1>5, <2>1, LineFacts
    <2> QED BY <1>1, <1>4, <2>1, <2>2, MovesNamed
  <1>7. faults \in 0 .. MaxFaults /\ damaged \subseteq Word
    BY DEF IInv, TypeOK
  <1>8. faults' \in 0 .. MaxFaults /\ faults' # 0
    BY <1>1, <1>7, PathFacts
  <1>9. \E w \in [1 .. Len(posted') + 1 -> View] : InLine(w)'
    BY <1>1, <1>2, <1>3, <1>4, <1>5, <1>6, <1>8, ShiftLine
  <1>10. BookP!IInv' /\ Book!BookTypeOK'
    <2>1. BookP!IInv'
      BY <1>1 DEF IInv, BookP!IInv, BookP!Consistent, BookP!LevelsType,
                  BookP!Matches, BookP!Backed
    <2>2. BookP!IInv' => Book!BookTypeOK'
      BY BookTypes, PTL
    <2> QED BY <2>1, <2>2
  <1>11. TypeOK'
    BY <1>1, <1>2, <1>4, <1>7, <1>8, <1>10
       DEF IInv, TypeOK, Gen!TypeOK, Slots, Descriptor
  <1>12. PoolOK' /\ program' # "pktgen" /\ Written' /\ Fitting'
    BY <1>1, <1>2, <1>8, ShorterLine DEF IInv, PoolOK
  <1> QED BY <1>8, <1>9, <1>10, <1>11, <1>12 DEF IInv

(* The sender writes packet' into its next slot; whatever that slot held   *)
(* under way is gone.                                                      *)
LEMMA SendStep ==
    ASSUME IInv, GenerateAndSend
    PROVE  IInv'
  <1> DEFINE refused == Len(posted) + completed = TxRing
             taken == next_slot \in Held
             desc == [slot |-> next_slot, len |-> packet'.size]
             overwritten == IF taken THEN Named(slots[next_slot]) ELSE {}
  <1>1. /\ program = "exchange_strategy" /\ sent < Total /\ Generate
        /\ slots' = [slots EXCEPT ![next_slot] = packet']
        /\ posted' = IF refused THEN posted ELSE Append(posted, desc)
        /\ sent' = IF refused THEN sent ELSE sent + 1
        /\ \/ /\ ~refused /\ ~taken
              /\ faults' = faults /\ damaged' = damaged
           \/ /\ refused \/ taken
              /\ faults < MaxFaults
              /\ faults' = faults + 1
              /\ damaged' = damaged \cup overwritten \cup Named(packet')
        /\ next_slot' = (next_slot + 1) % TxSlots
        /\ reap_due' = TRUE /\ completed' = completed
        /\ orders' = orders /\ levels' = levels /\ last_quote' = last_quote
        /\ program' = program
    BY DEF GenerateAndSend, bookVars
  <1>2. /\ posted \in Seq(Descriptor)
        /\ completed \in Nat /\ Len(posted) + completed <= TxRing
        /\ slots \in [Slots -> Packet] /\ next_slot \in Slots
        /\ faults \in 0 .. MaxFaults /\ damaged \subseteq Word
        /\ sent \in 0 .. Total
    BY DEF IInv, TypeOK
  <1>3. /\ Gen!TypeOK' /\ PoolOK' /\ collided' \in BOOLEAN
        /\ packet' \in Packet /\ resting' \in Seq(Gen!PoolOrder)
    BY <1>1, GenerateStep
  <1>4. PICK m \in Message :
            /\ packet' = Gen!WriteMessage(m) /\ ParsePacket(packet') = m
            /\ \A v \in View : \A bad :
                 Covered(resting, v, bad) => Covered(resting', After(v, m), bad)
            /\ ~collided' =>
                 /\ ~collided
                 /\ \A v \in View : \A bad : Mirrored(resting, v, bad) =>
                      Mirrored(resting', After(v, m), bad) /\ Expected(v, m, bad)
            /\ \A v \in View :
                 Mirrored(resting, v, {}) /\ Covered(resting, v, {}) => AtTouch(v, m)
    BY <1>1, GenerateStep
  <1>5. /\ Named(packet') = NamedIn(m) /\ NamedIn(m) \subseteq Word
        /\ Named(slots[next_slot]) \subseteq Word
        /\ packet'.size \in Nat
    BY <1>2, <1>4, BodyFacts, RoundTrip DEF Body
  <1>6. PICK n \in Nat :
            /\ Len(posted) = n /\ DOMAIN posted = 1 .. n
            /\ \A k \in 1 .. n : posted[k].slot \in Slots /\ posted[k].slot \in Held
    <2>1. /\ Len(posted) \in Nat /\ DOMAIN posted = 1 .. Len(posted)
          /\ \A k \in DOMAIN posted : posted[k].slot \in Slots
      BY <1>2, LineTypes DEF IInv
    <2> QED BY <2>1 DEF Held
  <1>7. PICK views : InLine(views)
    BY DEF IInv
  <1> DEFINE last == views[n + 1]
  <1>8. /\ views \in [1 .. n + 1 -> View] /\ last \in View
        /\ \A k \in 1 .. n : views[k] \in View
    BY <1>6, <1>7, LineFacts
  <1>9. /\ damaged \subseteq damaged'
        /\ refused \/ taken => damaged \cup NamedIn(m) \subseteq damaged'
        /\ faults' = 0 => faults = 0 /\ ~refused /\ ~taken
    BY <1>1, <1>2, <1>5
  <1>10. faults' = 0 => damaged' = {} /\ damaged = {}
    BY <1>1, <1>2, <1>9 DEF IInv
  <1> DEFINE sends(k) == ParsePacket([slots'[posted[k].slot] EXCEPT !.size = posted[k].len])
             cuts(k) == posted[k].len < slots'[posted[k].slot].size
  <1>11. ASSUME NEW k \in 1 .. n
         PROVE  \/ sends(k) = Flight(k) /\ cuts(k) = Cut(k)
                \/ /\ taken
                   /\ NamedIn(Flight(k)) \subseteq damaged'
                   /\ NamedIn(sends(k)) \subseteq damaged'
                   /\ ~cuts(k) => sends(k) = m
                   /\ cuts(k) => sends(k) = NoMessage
    <2>1. CASE posted[k].slot = next_slot
      <3>1. taken
        BY <1>6, <2>1
      <3>2. damaged' = damaged \cup overwritten \cup Named(packet')
        BY <1>1, <3>1
      <3>3. PICK old \in Message : slots[posted[k].slot] = Gen!WriteMessage(old)
        BY <1>6 DEF IInv, Written
      <3>4. /\ NamedIn(Flight(k)) \subseteq NamedIn(old)
            /\ Named(slots[posted[k].slot]) = NamedIn(old)
        BY <1>6, <3>3, FlightFacts DEF IInv
      <3>5. NamedIn(old) = overwritten
        BY <2>1, <3>1, <3>4
      <3>6. slots'[posted[k].slot] = Gen!WriteMessage(m)
        BY <1>1, <1>2, <1>4, <2>1
      <3>7. posted[k].len \in Nat
        BY <1>6, LineTypes DEF IInv
      <3>8. sends(k) = IF cuts(k) THEN NoMessage ELSE m
        BY <3>6, <3>7, RoundTrip
      <3>9. NamedIn(NoMessage) = {}
        BY DEF NamedIn, NoMessage
      <3> HIDE DEF sends, cuts
      <3> QED BY <1>5, <3>1, <3>2, <3>4, <3>5, <3>8, <3>9
    <2>2. CASE posted[k].slot # next_slot
      BY <1>1, <1>2, <1>6, <2>2 DEF Flight, Frame, Cut, Short
    <2> QED BY <2>1, <2>2
  <1> HIDE DEF sends, cuts
  (* The packets that were under way already.                              *)
  <1>12. ASSUME NEW k \in 1 .. n
         PROVE  /\ \A id \in Word \ damaged' :
                     views[k + 1][id] = BookP!Moved(views[k][id], sends(k), id)
                /\ ~collided' /\ ~cuts(k) => Expected(views[k], sends(k), damaged')
                /\ ~collided' /\ faults' = 0 => AtTouch(views[k], sends(k))
    <2> DEFINE f == Flight(k)
               g == sends(k)
    <2>1. /\ \A id \in Word \ damaged :
               views[k + 1][id] = BookP!Moved(views[k][id], f, id)
          /\ ~collided /\ ~Cut(k) => Expected(views[k], f, damaged)
          /\ ~collided /\ faults = 0 => AtTouch(views[k], f)
      BY <1>6, <1>7, LineFacts
    <2>2. \/ g = f /\ cuts(k) = Cut(k)
          \/ /\ taken /\ (~cuts(k) => g = m)
             /\ NamedIn(f) \subseteq damaged' /\ NamedIn(g) \subseteq damaged'
      BY <1>11
    <2> HIDE DEF f, g
    <2>3. CASE g = f /\ cuts(k) = Cut(k)
      BY <1>4, <1>9, <2>1, <2>3, Weaker DEF g
    <2>4. CASE /\ taken /\ (~cuts(k) => g = m)
               /\ NamedIn(f) \subseteq damaged' /\ NamedIn(g) \subseteq damaged'
      <3>1. ~(faults' = 0)
        BY <1>9, <2>4
      <3>2. ASSUME NEW id \in Word \ damaged'
            PROVE  BookP!Moved(views[k][id], f, id) = BookP!Moved(views[k][id], g, id)
        <4>1. id \notin NamedIn(f) /\ id \notin NamedIn(g)
          BY <2>4, <3>2
        <4> QED BY <4>1, MovesNamed
      <3>3. ~cuts(k) => Expected(views[k], g, damaged')
        <4> SUFFICES ASSUME ~cuts(k)
                     PROVE  Expected(views[k], g, damaged')
          OBVIOUS
        <4>1. g \in Message /\ NamedIn(g) \subseteq damaged'
          BY <2>4
        <4> HIDE DEF taken, refused, overwritten, last
        <4> QED BY <4>1, NamedExpected
      <3> QED BY <1>9, <2>1, <3>1, <3>2, <3>3 DEF g
    <2> QED BY <2>2, <2>3, <2>4
  <1>13. \A id \in Word \ damaged' : views[1][id] = BookP!Shown(orders', id)
    BY <1>1, <1>6, <1>7, <1>9, LineFacts
  <1>14. /\ Covered(resting, last, damaged)
         /\ ~collided => Mirrored(resting, last, damaged)
    BY <1>6, <1>7, LineFacts
  <1> HIDE DEF last
  <1>15. /\ Covered(resting', After(last, m), damaged)
         /\ ~collided' => /\ Mirrored(resting', After(last, m), damaged)
                          /\ Expected(last, m, damaged)
    BY <1>4, <1>8, <1>14
  <1>16. ASSUME refused
         PROVE  \E w \in [1 .. Len(posted') + 1 -> View] : InLine(w)'
    <2>1. posted' = posted
      BY <1>1, <1>16
    <2>2. /\ Covered(resting', last, damaged')
          /\ ~collided' => Mirrored(resting', last, damaged')
      BY <1>3, <1>8, <1>9, <1>15, <1>16, Missed
    <2>3. \A k : Flight(k)' = sends(k) /\ Cut(k)' = cuts(k)
      BY <2>1 DEF Flight, Frame, Cut, Short, sends, cuts
    <2>4. InLine(views)'
      BY <1>6, <1>8, <1>12, <1>13, <2>1, <2>2, <2>3 DEF InLine, last
    <2>5. views \in [1 .. Len(posted') + 1 -> View]
      BY <1>6, <1>8, <2>1
    <2> QED BY <2>4, <2>5
  <1>17. ASSUME ~refused
         PROVE  \E w \in [1 .. Len(posted') + 1 -> View] : InLine(w)'
    <2> DEFINE next == After(last, m)
               longer == [k \in 1 .. n + 2 |->
                             IF k <= n + 1 THEN views[k] ELSE next]
    <2>1. /\ posted' = Append(posted, desc) /\ Len(posted') = n + 1
          /\ \A k \in 1 .. n : posted'[k] = posted[k]
          /\ posted'[n + 1] = desc
      BY <1>1, <1>2, <1>6, <1>17
    <2>2. /\ \A k \in 1 .. n : Flight(k)' = sends(k) /\ Cut(k)' = cuts(k)
          /\ Flight(n + 1)' = m
      <3>1. \A k \in 1 .. n : Flight(k)' = sends(k) /\ Cut(k)' = cuts(k)
        BY <2>1 DEF Flight, Frame, Cut, Short, sends, cuts
      <3>2. slots'[next_slot] = Gen!WriteMessage(m)
        BY <1>1, <1>2, <1>4
      <3>3. Frame(posted[n + 1])' = [slots'[next_slot] EXCEPT !.size = packet'.size]
        <4>1. posted'[n + 1].slot = next_slot /\ posted'[n + 1].len = packet'.size
          BY <2>1
        <4> QED BY <4>1 DEF Frame
      <3>4. ~(packet'.size < packet'.size)
        BY <1>5
      <3>5. ParsePacket([packet' EXCEPT !.size = packet'.size]) = m
        BY <1>4, <1>5, <3>4, RoundTrip
      <3>6. Flight(n + 1)' = m
        BY <1>4, <3>2, <3>3, <3>5 DEF Flight
      <3> QED BY <3>1, <3>6
    <2>3. next \in View
      BY <1>8, AfterType
    <2> HIDE DEF next
    <2>4. PICK w \in [1 .. n + 2 -> View] :
              /\ \A k \in 1 .. n + 1 : w[k] = views[k]
              /\ w[n + 1] = last /\ w[n + 2] = next
      <3>1. longer \in [1 .. n + 2 -> View]
        BY <1>8, <2>3
      <3>2. /\ \A k \in 1 .. n + 1 : longer[k] = views[k]
            /\ longer[n + 2] = next
        OBVIOUS
      <3>3. longer[n + 1] = last
        BY <3>2 DEF last
      <3> QED BY <3>1, <3>2, <3>3
    <2>5. \A id \in Word \ damaged' : w[1][id] = BookP!Shown(orders', id)
      <3>1. w[1] = views[1]
        BY <1>6, <2>4
      <3> QED BY <1>13, <3>1
    <2>6. ASSUME NEW k \in 1 .. n + 1
          PROVE  /\ \A id \in Word \ damaged' :
                      w[k + 1][id] = BookP!Moved(w[k][id], Flight(k)', id)
                 /\ ~collided' /\ ~Cut(k)' => Expected(w[k], Flight(k)', damaged')
                 /\ ~collided' /\ faults' = 0 => AtTouch(w[k], Flight(k)')
      <3>1. CASE k \in 1 .. n
        <4>1. w[k] = views[k] /\ w[k + 1] = views[k + 1]
          BY <1>6, <2>4, <3>1
        <4>2. Flight(k)' = sends(k) /\ Cut(k)' = cuts(k)
          BY <2>2, <3>1
        <4> QED BY <1>12, <3>1, <4>1, <4>2
      <3>2. CASE k = n + 1
        <4>1. w[k] = last /\ w[k + 1] = next /\ Flight(k)' = m
          <5>1. k + 1 = n + 2
            BY <3>2
          <5> QED BY <2>2, <2>4, <3>2, <5>1
        <4>2. \A id \in Word : next[id] = BookP!Moved(last[id], m, id)
          BY DEF next, After
        <4>3. ~collided' => Expected(last, m, damaged')
          BY <1>9, <1>15, Weaker
        <4>4. ~collided' /\ faults' = 0 => AtTouch(last, m)
          BY <1>4, <1>8, <1>10, <1>14
        <4> QED BY <4>1, <4>2, <4>3, <4>4
      <3> QED BY <1>6, <3>1, <3>2
    <2>7. /\ Covered(resting', next, damaged')
          /\ ~collided' => Mirrored(resting', next, damaged')
      BY <1>9, <1>15, Weaker DEF next
    <2>8. InLine(w)'
      <3>1. (n + 1) + 1 = n + 2
        BY <1>6
      <3> QED BY <2>1, <2>4, <2>5, <2>6, <2>7, <3>1 DEF InLine
    <2>9. Len(posted') + 1 = n + 2
      BY <2>1
    <2> QED BY <2>4, <2>8, <2>9
  <1>18. /\ posted' \in Seq(Descriptor)
         /\ completed' \in Nat /\ Len(posted') + completed' <= TxRing
         /\ sent' \in 0 .. Total /\ slots' \in [Slots -> Packet]
         /\ next_slot' \in Slots
         /\ faults' \in 0 .. MaxFaults /\ damaged' \subseteq Word
    <2>1. /\ posted' \in Seq(Descriptor)
          /\ completed' \in Nat /\ Len(posted') + completed' <= TxRing
      <3>1. desc \in Descriptor
        BY <1>2, <1>5 DEF Descriptor
      <3>2. Len(posted) \in Nat /\ completed' = completed
        BY <1>1, <1>2
      <3>3. CASE refused
        BY <1>1, <1>2, <3>3
      <3>4. CASE ~refused
        <4>1. posted' = Append(posted, desc)
          BY <1>1, <3>4
        <4> HIDE DEF desc
        <4>2. posted' \in Seq(Descriptor) /\ Len(posted') = Len(posted) + 1
          BY <1>2, <3>1, <4>1
        <4>3. Len(posted) + completed # TxRing
          BY <3>4
        <4> QED BY <1>2, <3>2, <4>2, <4>3, PathFacts
      <3> QED BY <3>3, <3>4
    <2>2. sent' \in 0 .. Total /\ faults' \in 0 .. MaxFaults
      BY <1>1, <1>2, PathFacts
    <2>3. slots' \in [Slots -> Packet]
      BY <1>1, <1>2, <1>3
    <2>4. next_slot' \in Slots
      <3>1. \A i \in Int, j \in Nat \ {0} : i % j \in 0 .. j - 1
        OBVIOUS
      <3>2. next_slot + 1 \in Int
        BY <1>2 DEF Slots
      <3> QED BY <1>1, <3>1, <3>2, PathFacts DEF Slots
    <2>5. damaged' \subseteq Word
      BY <1>1, <1>2, <1>5
    <2> QED BY <2>1, <2>2, <2>3, <2>4, <2>5
  <1>19. BookP!IInv' /\ Book!BookTypeOK'
    <2>1. BookP!IInv'
      BY <1>1 DEF IInv, BookP!IInv, BookP!Consistent, BookP!LevelsType,
                  BookP!Matches, BookP!Backed
    <2>2. BookP!IInv' => Book!BookTypeOK'
      BY BookTypes, PTL
    <2> QED BY <2>1, <2>2
  <1>20. TypeOK'
    BY <1>1, <1>3, <1>18, <1>19 DEF TypeOK, Slots, Descriptor
  <1>22. Written'
    <2> SUFFICES ASSUME NEW k \in DOMAIN posted'
                 PROVE  \E w \in Message : slots'[posted'[k].slot] = Gen!WriteMessage(w)
      BY DEF Written
    <2>1. CASE posted'[k].slot = next_slot
      BY <1>1, <1>2, <1>4, <2>1
    <2>2. CASE posted'[k].slot # next_slot
      <3>1. k \in 1 .. n /\ posted'[k] = posted[k]
        BY <1>1, <1>2, <1>6, <2>2
      <3>2. \E w \in Message : slots[posted[k].slot] = Gen!WriteMessage(w)
        BY <1>6, <3>1 DEF IInv, Written
      <3> QED BY <1>1, <1>2, <1>6, <2>2, <3>1, <3>2
    <2> QED BY <2>1, <2>2
  <1>23. Fitting'
    <2> SUFFICES ASSUME faults' = 0, NEW k \in DOMAIN posted'
                 PROVE  ~Cut(k)'
      BY DEF Fitting
    <2>1. faults = 0 /\ ~refused /\ ~taken
      BY <1>9
    <2>2. posted' = Append(posted, desc) /\ DOMAIN posted' = 1 .. n + 1
      BY <1>1, <1>2, <1>6, <2>1
    <2>3. CASE k \in 1 .. n
      <3>1. posted'[k] = posted[k] /\ posted[k].slot # next_slot
        BY <1>2, <1>6, <2>1, <2>2, <2>3
      <3>2. slots'[posted[k].slot] = slots[posted[k].slot]
        BY <1>1, <1>2, <1>6, <2>3, <3>1
      <3>3. ~Cut(k)
        BY <1>6, <2>1, <2>3 DEF IInv, Fitting
      <3> QED BY <3>1, <3>2, <3>3 DEF Cut, Short
    <2>4. CASE k = n + 1
      <3>1. posted'[k] = desc
        BY <1>2, <1>6, <2>2, <2>4
      <3>2. slots'[next_slot] = packet' /\ ~(packet'.size < packet'.size)
        BY <1>1, <1>2, <1>5
      <3> QED BY <3>1, <3>2 DEF Cut, Short
    <2> QED BY <2>2, <2>3, <2>4
  <1> HIDE DEF refused
  <1>21. \E w \in [1 .. Len(posted') + 1 -> View] : InLine(w)'
    BY <1>16, <1>17
  <1> QED BY <1>1, <1>3, <1>10, <1>19, <1>20, <1>21, <1>22, <1>23 DEF IInv

(* Reaping touches nothing the book or the pool depend on.                 *)
LEMMA ReapStep ==
    ASSUME IInv, Reap
    PROVE  IInv'
  <1>1. /\ reap_due' = FALSE
        /\ completed' = IF completed <= EvBatch THEN 0 ELSE completed - EvBatch
        /\ resting' = resting /\ mid_price' = mid_price
        /\ next_order_id' = next_order_id /\ generated' = generated
        /\ packet' = packet /\ orders' = orders /\ levels' = levels
        /\ last_quote' = last_quote /\ program' = program /\ sent' = sent
        /\ slots' = slots /\ next_slot' = next_slot /\ posted' = posted
        /\ faults' = faults /\ damaged' = damaged /\ collided' = collided
    BY DEF Reap, genVars, bookVars
  <1>2. /\ completed \in Nat /\ posted \in Seq(Descriptor)
        /\ Len(posted) + completed <= TxRing
    BY DEF IInv, TypeOK
  <1>3. completed' \in Nat /\ Len(posted') + completed' <= TxRing
    <2>1. completed' \in Nat /\ completed' <= completed
      BY <1>1, <1>2, PathFacts
    <2>2. Len(posted) \in Nat /\ Len(posted') = Len(posted)
      BY <1>1, <1>2
    <2> QED BY <1>2, <2>1, <2>2, PathFacts
  <1>4. TypeOK'
    BY <1>1, <1>3 DEF IInv, TypeOK, Gen!TypeOK, Book!BookTypeOK, Slots, Descriptor
  <1> QED BY <1>1, <1>4, Idle

-----------------------------------------------------------------------------
(* The theorems.                                                           *)

(* Every step keeps the invariant.                                         *)
THEOREM Inductive == Spec => []IInv
  <1>1. Init => IInv
    BY InitStep
  <1>2. IInv /\ [Next]_vars => IInv'
    <2> SUFFICES ASSUME IInv, [Next]_vars
                 PROVE  IInv'
      OBVIOUS
    <2>1. CASE GenerateAndApply
      BY <2>1, ApplyStep
    <2>2. CASE GenerateAndSend
      BY <2>2, SendStep
    <2>3. CASE Deliver
      BY <2>3, DeliverStep
    <2>4. CASE Lose
      BY <2>4, LoseStep
    <2>5. CASE Reap
      BY <2>5, ReapStep
    <2>6. CASE UNCHANGED vars
      <3>1. /\ resting' = resting /\ mid_price' = mid_price
            /\ next_order_id' = next_order_id /\ generated' = generated
            /\ packet' = packet /\ orders' = orders /\ levels' = levels
            /\ last_quote' = last_quote /\ program' = program /\ sent' = sent
            /\ slots' = slots /\ next_slot' = next_slot /\ posted' = posted
            /\ completed' = completed /\ reap_due' = reap_due
            /\ faults' = faults /\ damaged' = damaged /\ collided' = collided
        BY <2>6 DEF vars, genVars, bookVars, pathVars, txVars
      <3>2. TypeOK'
        BY <3>1 DEF IInv, TypeOK, Gen!TypeOK, Book!BookTypeOK, Slots, Descriptor
      <3> QED BY <3>1, <3>2, Idle
    <2> QED BY <2>1, <2>2, <2>3, <2>4, <2>5, <2>6 DEF Next
  <1> QED BY <1>1, <1>2, PTL DEF Spec

(* Type correctness of generator, sender and book together.                *)
THEOREM TypeCorrect == Spec => []TypeOK
  <1>1. IInv => TypeOK
    BY DEF IInv
  <1> QED BY <1>1, Inductive, PTL

(* What the book holds, and what a view says of it.                        *)
LEMMA BookFacts ==
    ASSUME IInv
    PROVE  /\ DOMAIN orders \subseteq Word
           /\ \A id \in DOMAIN orders :
                /\ BookP!Shown(orders, id) = orders[id]
                /\ orders[id] # BookP!NoOrder
           /\ \A id : BookP!Shown(orders, id) # BookP!NoOrder => id \in DOMAIN orders
  <1>1. BookP!IsMap(orders, BookP!Word, BookP!RestingOrder)
    BY DEF IInv, BookP!IInv, BookP!Consistent
  <1>2. DOMAIN orders \subseteq Word
    BY <1>1, SameSets DEF BookP!IsMap
  <1>3. \A id \in DOMAIN orders : orders[id] \in BookP!RestingOrder
    BY <1>1 DEF BookP!IsMap
  <1>4. BookP!NoOrder \notin BookP!RestingOrder
    BY BookAssumptions, BookP!NoOrderFacts
  <1> QED BY <1>2, <1>3, <1>4 DEF BookP!Shown

(* When nothing is under way the book itself is the last view.             *)
LEMMA SettledFacts ==
    ASSUME IInv, posted = <<>>
    PROVE  \E v \in View :
               /\ \A id \in Word \ damaged : v[id] = BookP!Shown(orders, id)
               /\ Covered(resting, v, damaged)
               /\ ~collided => Mirrored(resting, v, damaged)
  <1>1. PICK views : InLine(views)
    BY DEF IInv
  <1>2. Len(posted) = 0 /\ 0 \in Nat /\ 0 + 1 = 1 /\ 1 \in 1 .. 1
    OBVIOUS
  <1>3. views \in [1 .. 1 -> View]
    BY <1>1, <1>2, LineFacts
  <1>4. /\ \A id \in Word \ damaged : views[1][id] = BookP!Shown(orders, id)
        /\ Covered(resting, views[1], damaged)
        /\ ~collided => Mirrored(resting, views[1], damaged)
    BY <1>1, <1>2, LineFacts
  <1> QED BY <1>2, <1>3, <1>4

(* A packet that arrives was written for a book that agrees with this one. *)
LEMMA ArrivingFacts ==
    ASSUME IInv, Arriving
    PROVE  /\ Sent = Flight(1) /\ Sent \in Body
           /\ Cut(1) => Sent = NoMessage /\ faults > 0
           /\ ~Cut(1) => NamedIn(Sent) = Named(slots[Head(posted).slot])
           /\ \E v \in View :
                /\ \A id \in Word \ damaged : v[id] = BookP!Shown(orders, id)
                /\ ~collided /\ ~Cut(1) => Expected(v, Sent, damaged)
                /\ ~collided /\ faults = 0 => AtTouch(v, Sent)
  <1>1. /\ Sent = Flight(1) /\ Sent \in Body
        /\ Cut(1) => Sent = NoMessage
        /\ ~Cut(1) => NamedIn(Sent) = Named(slots[Head(posted).slot])
    BY TakeFrame DEF Arriving, Sent
  <1>2. PICK n \in Nat \ {0} : Len(posted) = n
    BY TakeFrame DEF Arriving
  <1>3. PICK views : InLine(views)
    BY DEF IInv
  <1>4. 1 \in 1 .. n /\ 1 \in 1 .. n + 1
    OBVIOUS
  <1>5. /\ \A id \in Word \ damaged : views[1][id] = BookP!Shown(orders, id)
        /\ ~collided /\ ~Cut(1) => Expected(views[1], Flight(1), damaged)
        /\ ~collided /\ faults = 0 => AtTouch(views[1], Flight(1))
        /\ views \in [1 .. n + 1 -> View]
    BY <1>2, <1>3, <1>4, LineFacts
  <1>6. views[1] \in View
    BY <1>4, <1>5
  <1>7. Cut(1) => faults > 0
    <2>1. faults \in Nat /\ 1 \in DOMAIN posted
      BY <1>2, <1>4, PathFacts DEF IInv, TypeOK
    <2> QED BY <2>1 DEF IInv, Fitting
  <1> QED BY <1>1, <1>5, <1>6, <1>7

(* Entries with ids of their own are as many as their ids.                 *)
LEMMA DistinctIds ==
    ASSUME NEW pool \in Seq(Gen!PoolOrder), Distinct(pool)
    PROVE  Cardinality({pool[i].order_id : i \in DOMAIN pool}) = Len(pool)
  <1> DEFINE n == Len(pool)
             ids == {pool[i].order_id : i \in DOMAIN pool}
             f == [i \in 1 .. n |-> pool[i].order_id]
  <1>1. n \in Nat /\ DOMAIN pool = 1 .. n
    OBVIOUS
  <1>2. \A i, j \in 1 .. n : pool[i].order_id = pool[j].order_id => i = j
    BY <1>1 DEF Distinct
  <1>3. f \in Bijection(1 .. n, ids)
    BY <1>1, <1>2 DEF Bijection, Injection, Surjection, IsInjective
  <1>4. IsFiniteSet(1 .. n) /\ Cardinality(1 .. n) = n
    BY <1>1, FS_Interval
  <1> HIDE DEF n, ids
  <1>5. Cardinality(ids) = Cardinality(1 .. n)
    <2>1. ExistsBijection(1 .. n, ids)
      BY <1>3 DEF ExistsBijection
    <2> QED BY <1>4, <2>1, FS_Bijection
  <1> QED BY <1>4, <1>5 DEF n, ids

(* Once nothing is under way, book and pool agree on every order id that   *)
(* no fault has named, however many packets were lost or overwritten.      *)
THEOREM MirrorCorrect == Spec => []Mirror
  <1>1. IInv => Mirror
    <2> SUFFICES ASSUME IInv, posted = <<>>, ~collided
                 PROVE  /\ DOMAIN orders \ damaged = PoolIds \ damaged
                        /\ Cardinality(PoolIds) = Len(resting)
                        /\ \A i \in DOMAIN resting :
                             resting[i].order_id \notin damaged =>
                               orders[resting[i].order_id] = AsOrder(resting[i])
      BY DEF Mirror, AsOrder
    <2>1. PICK v \in View :
              /\ \A id \in Word \ damaged : v[id] = BookP!Shown(orders, id)
              /\ Covered(resting, v, damaged)
              /\ Mirrored(resting, v, damaged)
      BY SettledFacts
    <2>2. resting \in Seq(Gen!PoolOrder)
      BY DEF IInv, TypeOK, Gen!TypeOK
    <2>3. \A i \in DOMAIN resting : /\ resting[i].order_id \in Word
                                    /\ AsOrder(resting[i]) # BookP!NoOrder
      <3>1. \A e \in Gen!PoolOrder : /\ e.order_id \in Word
                                     /\ AsOrder(e) # BookP!NoOrder
        BY PoolOrders DEF AsOrder, BookP!NoOrder, Sides
      <3> QED BY <2>2, <3>1
    <2>4. \A i \in DOMAIN resting : resting[i].order_id \notin damaged =>
              /\ resting[i].order_id \in DOMAIN orders
              /\ orders[resting[i].order_id] = AsOrder(resting[i])
      BY <2>1, <2>3, BookFacts DEF Mirrored
    <2>5. \A id \in DOMAIN orders \ damaged : id \in PoolIds
      <3> SUFFICES ASSUME NEW id \in DOMAIN orders \ damaged
                   PROVE  id \in PoolIds
        OBVIOUS
      <3>1. id \in Word \ damaged /\ v[id] # BookP!NoOrder
        BY <2>1, BookFacts
      <3> QED BY <2>1, <3>1 DEF Covered, PoolIds
    <2>6. DOMAIN orders \ damaged = PoolIds \ damaged
      BY <2>4, <2>5 DEF PoolIds
    <2>7. Cardinality(PoolIds) = Len(resting)
      BY <2>1, <2>2, DistinctIds DEF Mirrored, PoolIds
    <2> QED BY <2>4, <2>6, <2>7
  <1> QED BY <1>1, Inductive, PTL

(* The book never keeps an order the generator has forgotten, even after   *)
(* order ids have wrapped round and met.                                   *)
THEOREM NoGhosts == Spec => []NoGhostOrders
  <1>1. IInv => NoGhostOrders
    <2> SUFFICES ASSUME IInv, posted = <<>>, NEW id \in DOMAIN orders \ damaged
                 PROVE  \E i \in DOMAIN resting :
                            /\ resting[i].order_id = id
                            /\ resting[i].side = orders[id].side
                            /\ resting[i].price = orders[id].price
                            /\ resting[i].quantity >= orders[id].quantity
      BY DEF NoGhostOrders
    <2>1. PICK v \in View :
              /\ \A x \in Word \ damaged : v[x] = BookP!Shown(orders, x)
              /\ Covered(resting, v, damaged)
      BY SettledFacts
    <2>2. id \in Word \ damaged /\ v[id] = orders[id] /\ v[id] # BookP!NoOrder
      BY <2>1, BookFacts
    <2> QED BY <2>1, <2>2 DEF Covered
  <1> QED BY <1>1, Inductive, PTL

(* However far the generator is ahead, the book accepts every packet that  *)
(* reaches it whole, unless a fault has named its order; one that does not *)
(* has been written over a shorter one, and is refused.                    *)
THEOREM PacketsApply == Spec => []WholePacketsApply
  <1>1. ASSUME IInv, Arriving, Short(Head(posted))
        PROVE  faults > 0 /\ ~Book!Accepts(Sent)
    <2>1. Cut(1)
      BY <1>1 DEF Cut, Arriving, IInv, TypeOK
    <2>2. Sent = NoMessage /\ faults > 0
      BY <1>1, <2>1, ArrivingFacts
    <2> QED BY <2>2 DEF Book!Accepts, NoMessage
  <1>2. ASSUME IInv, Arriving, ~Short(Head(posted)), ~collided,
               Named(slots[Head(posted).slot]) \cap damaged = {}
        PROVE  Book!Accepts(Sent)
    <2>0. ~Cut(1)
      BY <1>2 DEF Cut, Arriving, IInv, TypeOK
    <2>1. Sent \in Body
      BY <1>2, ArrivingFacts
    <2>2. PICK v \in View :
              /\ \A id \in Word \ damaged : v[id] = BookP!Shown(orders, id)
              /\ Expected(v, Sent, damaged)
      BY <1>2, <2>0, ArrivingFacts
    <2>3. NamedIn(Sent) \cap damaged = {} /\ NamedIn(Sent) \subseteq Word
      BY <1>2, <2>0, <2>1, ArrivingFacts, BodyFacts
    <2>4. CASE Sent.type \in {"AddOrder", "Quote"}
      BY <2>4 DEF Book!Accepts
    <2>5. CASE /\ Sent.type \in {"CancelOrder", "Execute"}
               /\ v[Sent.order_id] # BookP!NoOrder
      <3>1. Sent.order_id \in Word \ damaged
        BY <2>3, <2>5 DEF NamedIn
      <3>2. Sent.order_id \in DOMAIN orders
        BY <1>2, <2>2, <2>5, <3>1, BookFacts
      <3> QED BY <2>5, <3>2 DEF Book!Accepts
    <2> QED BY <2>2, <2>3, <2>4, <2>5 DEF Expected
  <1>3. IInv => WholePacketsApply
    BY <1>1, <1>2 DEF WholePacketsApply
  <1> QED BY <1>3, Inductive, PTL

(* A view without damage is the book.                                      *)
LEMMA UndamagedFacts ==
    ASSUME IInv, Arriving, ~collided, faults = 0
    PROVE  \E v \in View :
               /\ AtTouch(v, Sent)
               /\ \A id \in Word : v[id] = BookP!Shown(orders, id)
  <1>1. damaged = {}
    BY DEF IInv
  <1>2. PICK v \in View :
            /\ \A id \in Word \ damaged : v[id] = BookP!Shown(orders, id)
            /\ AtTouch(v, Sent)
    BY ArrivingFacts
  <1> QED BY <1>1, <1>2

(* An order of the view that none beats is at the book's touch.            *)
LEMMA Touch ==
    ASSUME IInv, NEW v \in View,
           \A id \in Word : v[id] = BookP!Shown(orders, id),
           NEW side \in Sides, NEW id \in Word, IsOrder(v, id, side),
           Unbeaten(v, side, v[id].price)
    PROVE  /\ id \in DOMAIN orders /\ v[id] = orders[id]
           /\ Book!BestLevel(side).price = v[id].price
           /\ Book!BestLevel(side).quantity \in Nat
           /\ Book!BestLevel(side).quantity >= v[id].quantity
           /\ v[id].quantity > 0
  <1>1. id \in DOMAIN orders /\ v[id] = orders[id]
    BY BookFacts DEF IsOrder
  <1>2. orders[id].side = side /\ orders[id].quantity > 0
    BY <1>1 DEF IsOrder, Unbeaten
  <1>3. ASSUME NEW x \in DOMAIN orders, orders[x].side = side
        PROVE  ~BookP!Better(side, orders[x].price, orders[id].price)
    <2>1. x \in Word /\ v[x] = orders[x] /\ IsOrder(v, x, side)
      BY <1>3, BookFacts DEF IsOrder
    <2> QED BY <1>1, <2>1 DEF Unbeaten
  <1>4. side \in BookP!Sides /\ BookP!IInv
    BY SameSets DEF IInv
  <1>5. /\ BookP!BestLevel(side).price = orders[id].price
        /\ BookP!BestLevel(side).quantity \in Nat
        /\ BookP!BestLevel(side).quantity >= orders[id].quantity
    BY <1>1, <1>2, <1>3, <1>4, BookAssumptions, BookP!TouchFacts
  <1> QED BY <1>1, <1>2, <1>5, SameTop

(* An execution that arrives trades at the best price of the book, for no  *)
(* more than is there, as long as nothing has gone wrong on the way.       *)
THEOREM ExecutionsAtTouch == Spec => []ExecutesAtTouch
  <1>1. IInv => ExecutesAtTouch
    <2> SUFFICES ASSUME IInv, Arriving, ~collided, faults = 0,
                        Sent.type = "Execute"
                 PROVE  \E side \in Sides :
                          /\ orders[Sent.order_id].side = side
                          /\ Book!BestLevel(side).price = Sent.exec_price
                          /\ Book!BestLevel(side).quantity >= Sent.exec_qty
      BY DEF ExecutesAtTouch
    <2>1. PICK v \in View : /\ AtTouch(v, Sent)
                            /\ \A id \in Word : v[id] = BookP!Shown(orders, id)
      BY UndamagedFacts
    <2>2. PICK side \in Sides :
              /\ Sent.order_id \in Word
              /\ IsOrder(v, Sent.order_id, side)
              /\ v[Sent.order_id].price = Sent.exec_price
              /\ v[Sent.order_id].quantity >= Sent.exec_qty
              /\ Unbeaten(v, side, Sent.exec_price)
      BY <2>1 DEF AtTouch, Executable
    <2>3. /\ v[Sent.order_id] = orders[Sent.order_id]
          /\ Book!BestLevel(side).price = v[Sent.order_id].price
          /\ Book!BestLevel(side).quantity \in Nat
          /\ Book!BestLevel(side).quantity >= v[Sent.order_id].quantity
      BY <2>1, <2>2, Touch
    <2>4. orders[Sent.order_id].side = side
      BY <2>2, <2>3 DEF IsOrder
    <2>5. v[Sent.order_id].quantity \in Nat /\ Sent.exec_qty \in Nat
      <3>1. Sent \in ExecuteMessage
        BY ArrivingFacts DEF Body, Message, AddOrderMessage, CancelOrderMessage,
                             ExecuteMessage, QuoteMessage, NoMessage
      <3>2. v[Sent.order_id] \in BookP!RestingOrder
        BY <2>2 DEF View, BookP!Rest, IsOrder
      <3> QED BY <3>1, <3>2, SameSets, WordNat DEF ExecuteMessage
    <2> QED BY <2>2, <2>3, <2>4, <2>5
  <1> QED BY <1>1, Inductive, PTL

(* One side of a quote against the book it meets.                          *)
LEMMA QuotedTouch ==
    ASSUME IInv, NEW v \in View,
           \A id \in Word : v[id] = BookP!Shown(orders, id),
           NEW side \in Sides, NEW price \in Word, NEW qty \in Word,
           QuotedSide(v, side, price, qty)
    PROVE  LET best == Book!BestLevel(side) IN
           /\ best.quantity > 0 /\ (side = "B" => best.price > 0) =>
                price = best.price /\ qty \in 1 .. best.quantity
           /\ best = Book!NoLevel => qty = 0
  <1> DEFINE best == Book!BestLevel(side)
  <1>1. CASE \E id \in Word : /\ IsOrder(v, id, side)
                              /\ v[id].price = price /\ v[id].quantity = qty
                              /\ Unbeaten(v, side, price)
    <2>1. PICK id \in Word : /\ IsOrder(v, id, side)
                             /\ v[id].price = price /\ v[id].quantity = qty
                             /\ Unbeaten(v, side, price)
      BY <1>1
    <2>2. /\ best.price = price /\ best.quantity \in Nat
          /\ best.quantity >= qty /\ qty > 0
      BY <2>1, Touch
    <2>3. qty \in Nat
      BY WordNat
    <2>4. best # Book!NoLevel
      BY <2>2 DEF Book!NoLevel
    <2> HIDE DEF best
    <2> QED BY <2>2, <2>3, <2>4 DEF best
  <1>2. CASE /\ qty = 0
             /\ \A id \in Word : IsOrder(v, id, side) => side = "B" /\ v[id].price = 0
    <2> SUFFICES ASSUME best.quantity > 0, side = "B" => best.price > 0
                 PROVE  FALSE
      BY <1>2
    <2>1. best # Book!NoLevel /\ Book!NoLevel = BookP!NoLevel
      BY DEF Book!NoLevel, BookP!NoLevel
    <2>2. side \in BookP!Sides /\ BookP!IInv /\ BookP!BestLevel(side) = best
      BY SameSets, SameTop DEF IInv
    <2>3. PICK id \in DOMAIN orders :
              orders[id].side = side /\ orders[id].price = best.price
      BY <2>1, <2>2, BookAssumptions, BookP!TopFacts
    <2>4. id \in Word /\ v[id] = orders[id] /\ IsOrder(v, id, side)
      BY <2>3, BookFacts DEF IsOrder
    <2> QED BY <1>2, <2>3, <2>4
  <1> QED BY <1>1, <1>2 DEF QuotedSide

(* A quote that arrives shows the best prices of the book and no more than *)
(* rests there, as long as nothing has gone wrong on the way.              *)
THEOREM QuotesMatch == Spec => []QuoteMatchesBook
  <1>1. IInv => QuoteMatchesBook
    <2> SUFFICES ASSUME IInv, Arriving, ~collided, faults = 0,
                        Sent.type = "Quote"
                 PROVE  LET bid == Book!BestLevel("B")
                            ask == Book!BestLevel("S")
                        IN /\ bid.quantity > 0 /\ bid.price > 0 =>
                                /\ Sent.bid_price = bid.price
                                /\ Sent.bid_qty \in 1 .. bid.quantity
                           /\ ask.quantity > 0 =>
                                /\ Sent.ask_price = ask.price
                                /\ Sent.ask_qty \in 1 .. ask.quantity
                           /\ bid = Book!NoLevel => Sent.bid_qty = 0
                           /\ ask = Book!NoLevel => Sent.ask_qty = 0
      BY DEF QuoteMatchesBook
    <2>1. PICK v \in View : /\ AtTouch(v, Sent)
                            /\ \A id \in Word : v[id] = BookP!Shown(orders, id)
      BY UndamagedFacts
    <2>2. /\ QuotedSide(v, "B", Sent.bid_price, Sent.bid_qty)
          /\ QuotedSide(v, "S", Sent.ask_price, Sent.ask_qty)
      BY <2>1 DEF AtTouch
    <2>3. /\ Sent.bid_price \in Word /\ Sent.bid_qty \in Word
          /\ Sent.ask_price \in Word /\ Sent.ask_qty \in Word
      <3>1. Sent \in QuoteMessage
        BY ArrivingFacts DEF Body, Message, AddOrderMessage, CancelOrderMessage,
                             ExecuteMessage, QuoteMessage, NoMessage
      <3> QED BY <3>1 DEF QuoteMessage
    <2>4. LET bid == Book!BestLevel("B") IN
          /\ bid.quantity > 0 /\ bid.price > 0 =>
               Sent.bid_price = bid.price /\ Sent.bid_qty \in 1 .. bid.quantity
          /\ bid = Book!NoLevel => Sent.bid_qty = 0
      BY <2>1, <2>2, <2>3, QuotedTouch DEF Sides
    <2>5. LET ask == Book!BestLevel("S") IN
          /\ ask.quantity > 0 =>
               Sent.ask_price = ask.price /\ Sent.ask_qty \in 1 .. ask.quantity
          /\ ask = Book!NoLevel => Sent.ask_qty = 0
      BY <2>1, <2>2, <2>3, QuotedTouch DEF Sides
    <2> QED BY <2>4, <2>5
  <1> QED BY <1>1, Inductive, PTL
=============================================================================
