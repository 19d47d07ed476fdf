-------------------------------- MODULE Feed --------------------------------
(***************************************************************************)
(* What becomes of the generator's packets: PacketGenerator composed with  *)
(* the order book that must come to mirror its pool, which it never reads  *)
(* back from it.                                                           *)
(*                                                                         *)
(* Two programs do this.  pktgen.cpp hands each packet to the book itself. *)
(* The exchange thread of exchange_strategy.cpp sends it through an        *)
(* EfviUdpSender to the strategy's book, and the generator has moved on    *)
(* whether or not the packet gets there: a full ring refuses it, a later   *)
(* call rewrites its slot, the receiver is not listening yet or drops it.  *)
(* Nothing numbers the packets and nothing is sent again.                  *)
(*                                                                         *)
(* A slot is rewritten in one step here (module UdpSender has the bytes),  *)
(* and a frame is in the book as soon as the NIC has read it: all that     *)
(* follows is in order.  The NIC reads what the slot holds by then, but as *)
(* many bytes as the descriptor was made for.                              *)
(***************************************************************************)
EXTENDS MarketData, SequencesExt

CONSTANTS
    PoolMax, Tick, Dists, Qtys, InitialMid, MidMoves, MidMax, EvolveEvery,
    TxSlots,      \* kTxSlots, 16 in the code
    TxRing,       \* descriptors of the sender's ring (ef_vi's default: 512)
    EvBatch,      \* events one reapCompletions() takes, 16
    Total,        \* count + kWarmupIters: packets the exchange sends
    MaxFaults     \* bound of the model: sends and arrivals that go wrong

VARIABLES
    resting, mid_price, next_order_id, generated, packet,   \* the generator
    orders, levels, last_quote,                             \* the book
    program,                   \* which of the two programs runs
    sent,                      \* the exchange's count
    slots, next_slot,          \* its sender
    posted,                    \* descriptors the NIC has yet to read, oldest
                               \* first
    completed,                 \* descriptors it has read, not yet reaped
    reap_due,                  \* send() has returned, reapCompletions() has not
    faults,                    \* history: sends and arrivals gone wrong
    damaged,                   \* history: ids the book has heard wrong of
    collided                   \* history: an AddOrder has reused the id of a
                               \* resting order

Gen == INSTANCE PacketGenerator
Book == INSTANCE OrderBook WITH
    Packets <- {}, Payloads <- {}, heard <- [call |-> "none"]

ASSUME FeedAssumption ==
    /\ Gen!GeneratorAssumption
    /\ TxSlots \in Nat \ {0} /\ TxRing \in Nat \ {0} /\ EvBatch \in Nat \ {0}
    /\ Total \in Nat /\ MaxFaults \in Nat

genVars == <<resting, mid_price, next_order_id, generated, packet>>
bookVars == <<orders, levels, last_quote>>
txVars == <<slots, next_slot, posted, completed, reap_due>>
pathVars == <<sent, txVars, faults, damaged>>
vars == <<genVars, bookVars, program, pathVars, collided>>

Slots == 0 .. TxSlots - 1
Descriptor == [slot : Slots, len : Nat]
PoolIds == {resting[i].order_id : i \in DOMAIN resting}

TypeOK ==
    /\ Gen!TypeOK
    /\ Book!BookTypeOK
    /\ program \in {"pktgen", "exchange_strategy"}
    /\ sent \in 0 .. Total
    /\ slots \in [Slots -> Packet]
    /\ next_slot \in Slots
    /\ posted \in Seq(Descriptor)
    /\ completed \in Nat /\ Len(posted) + completed <= TxRing
    /\ reap_due \in BOOLEAN
    /\ faults \in 0 .. MaxFaults
    /\ damaged \subseteq Word
    /\ collided \in BOOLEAN

Init ==
    /\ Gen!Init
    /\ Book!EmptyBook
    /\ program \in {"pktgen", "exchange_strategy"}
    /\ sent = 0
    /\ slots = [s \in Slots |-> Gen!NoPacket]
    /\ next_slot = 0
    /\ posted = <<>>
    /\ completed = 0
    /\ reap_due = FALSE
    /\ faults = 0
    /\ damaged = {}
    /\ collided = FALSE

(* The ids of the orders a packet is about.                                *)
Named(p) ==
    LET m == ParsePacket(p) IN
    IF m.type \in {"AddOrder", "CancelOrder", "Execute"} THEN {m.order_id} ELSE {}

(* nextPacket(buffer, sizeof(buffer)), which never returns 0 or less.      *)
Generate ==
    /\ Gen!NextPacket
    /\ collided' = (collided \/ (/\ next_order_id' # next_order_id
                                 /\ next_order_id \in PoolIds))

(* One turn of pktgen.cpp's loop.                                          *)
GenerateAndApply ==
    /\ program = "pktgen"
    /\ Generate
    /\ Book!ApplyPacket(packet')
    /\ UNCHANGED <<program, pathVars>>

(* Slots the NIC has yet to read for some descriptor.                      *)
Held == {posted[i].slot : i \in DOMAIN posted}

(* One turn of exchangeThreadMain's loop, up to the reaping: send() takes  *)
(* the next slot and writes into it, whatever it still holds, before the   *)
(* transmit that a ring without a free descriptor refuses.  No packet is   *)
(* short enough to be padded.                                              *)
GenerateAndSend ==
    /\ program = "exchange_strategy"
    /\ ~reap_due
    /\ sent < Total
    /\ Generate
    /\ LET refused == Len(posted) + completed = TxRing
           overwritten == IF next_slot \in Held THEN Named(slots[next_slot]) ELSE {}
       IN /\ slots' = [slots EXCEPT ![next_slot] = packet']
          /\ posted' = IF refused THEN posted
                       ELSE Append(posted, [slot |-> next_slot, len |-> packet'.size])
          /\ sent' = IF refused THEN sent ELSE sent + 1
          /\ \/ /\ ~refused /\ next_slot \notin Held
                /\ UNCHANGED <<faults, damaged>>
             \/ /\ refused \/ next_slot \in Held
                /\ faults < MaxFaults
                /\ faults' = faults + 1
                /\ damaged' = damaged \cup overwritten \cup Named(packet')
    /\ next_slot' = (next_slot + 1) % TxSlots
    /\ reap_due' = TRUE
    /\ UNCHANGED <<bookVars, program, completed>>

(* reapCompletions(), after each send(), failed ones included.             *)
Reap ==
    /\ reap_due
    /\ reap_due' = FALSE
    /\ completed' = IF completed <= EvBatch THEN 0 ELSE completed - EvBatch
    /\ UNCHANGED <<genVars, bookVars, program, sent, slots, next_slot, posted,
                   faults, damaged, collided>>

(* The bytes the NIC sends for a descriptor: what its slot holds by now,   *)
(* cut off (or with old bytes behind it) where the descriptor ends.        *)
Frame(d) == [slots[d.slot] EXCEPT !.size = d.len]

(* A later packet in the slot is longer than the descriptor.               *)
Short(d) == d.len < slots[d.slot].size

(* The NIC reads the oldest descriptor's frame, and the strategy's         *)
(* callback applies it to its book.                                        *)
Deliver ==
    /\ posted # <<>>
    /\ posted' = Tail(posted)
    /\ completed' = completed + 1
    /\ Book!ApplyPacket(Frame(Head(posted)))
    /\ UNCHANGED <<genVars, program, sent, slots, next_slot, reap_due, faults,
                   damaged, collided>>

(* Sent before the strategy's filter was in place, found no RX buffer, or  *)
(* discarded by the receiver.                                              *)
Lose ==
    /\ posted # <<>>
    /\ faults < MaxFaults
    /\ posted' = Tail(posted)
    /\ completed' = completed + 1
    /\ faults' = faults + 1
    /\ damaged' = damaged \cup Named(slots[Head(posted).slot])
    /\ UNCHANGED <<genVars, bookVars, program, sent, slots, next_slot, reap_due,
                   collided>>

Next == GenerateAndApply \/ GenerateAndSend \/ Reap \/ Deliver \/ Lose

Spec == Init /\ [][Next]_vars

-----------------------------------------------------------------------------
Sent == ParsePacket(Frame(Head(posted)))
Arriving == posted # <<>>

(* A lost, doubled or overtaken packet damages the order it names and no   *)
(* other: whenever nothing is on its way, book and pool agree on every     *)
(* other id, however far the books have parted.  Without faults (pktgen    *)
(* has none) the book holds exactly the pool's orders: no swap-with-last   *)
(* removal, partial execution, length prefix or byte swap loses or invents *)
(* one.  That is until an order id that has wrapped round meets one that   *)
(* rests (PacketGenerator.hpp:216-219).                                    *)
Mirror ==
    posted = <<>> /\ ~collided =>
        /\ DOMAIN orders \ damaged = PoolIds \ damaged
        /\ Cardinality(PoolIds) = Len(resting)
        /\ \A i \in DOMAIN resting :
            resting[i].order_id \notin damaged =>
                orders[resting[i].order_id] =
                    [side |-> resting[i].side, price |-> resting[i].price,
                     quantity |-> resting[i].quantity]

(* Even after ids have wrapped and collided, the book holds no order the   *)
(* generator has forgotten (it could never be cancelled), but those a      *)
(* fault has named: each one still has its pool entry, with at least the   *)
(* quantity the book shows.                                                *)
NoGhostOrders ==
    posted = <<>> =>
        \A id \in DOMAIN orders \ damaged : \E i \in DOMAIN resting :
            /\ resting[i].order_id = id
            /\ resting[i].side = orders[id].side
            /\ resting[i].price = orders[id].price
            /\ resting[i].quantity >= orders[id].quantity

(* applyPacket returns true for every packet that arrives whole, if no     *)
(* fault has named its order: it is well framed, and a cancel or execution *)
(* names an order the book knows, however far the generator is ahead.  One *)
(* written over a shorter one under way arrives cut off, which takes a     *)
(* fault, and is refused as a whole, whatever it is (320, 346).            *)
WholePacketsApply ==
    Arriving =>
        LET d == Head(posted) IN
        /\ Short(d) => faults > 0 /\ ~Book!Accepts(Sent)
        /\ ~Short(d) /\ ~collided /\ Named(slots[d.slot]) \cap damaged = {} =>
                Book!Accepts(Sent)

(* An execution trades at the touch: at the price the book itself shows as *)
(* best, for no more than is shown there, as long as nothing has gone      *)
(* wrong: a damaged order may stand in the way.                            *)
ExecutesAtTouch ==
    Arriving /\ ~collided /\ faults = 0 /\ Sent.type = "Execute" =>
        \E side \in Sides :
            /\ orders[Sent.order_id].side = side
            /\ Book!BestLevel(side).price = Sent.exec_price
            /\ Book!BestLevel(side).quantity >= Sent.exec_qty

(* A quote agrees with the book it is applied to: the best price each way  *)
(* and no more than the quantity there.  The one exception is a bid at     *)
(* price 0, which the generator's sentinel cannot see.                     *)
QuoteMatchesBook ==
    Arriving /\ ~collided /\ faults = 0 /\ Sent.type = "Quote" =>
        LET bid == Book!BestLevel("B")
            ask == Book!BestLevel("S")
        IN /\ bid.quantity > 0 /\ bid.price > 0 =>
                Sent.bid_price = bid.price /\ Sent.bid_qty \in 1 .. bid.quantity
           /\ ask.quantity > 0 =>
                Sent.ask_price = ask.price /\ Sent.ask_qty \in 1 .. ask.quantity
           /\ bid = Book!NoLevel => Sent.bid_qty = 0
           /\ ask = Book!NoLevel => Sent.ask_qty = 0
=============================================================================
