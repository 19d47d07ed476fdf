----------------------------- MODULE MarketData -----------------------------
(***************************************************************************)
(* The wire format of the simulated feed (MarketData.hpp) and the framing  *)
(* that PacketGenerator::writeMessage puts around a message and            *)
(* SimpleOrderBook::applyPacket takes off again: a 16-bit length in        *)
(* network order, then one packed message whose 32-bit fields are in       *)
(* network order.                                                          *)
(*                                                                         *)
(* A message is a record.  A packet is the record                          *)
(*   [size |-> bytes in hand, wire_len |-> raw length field, body |-> m]   *)
(* and a host-order payload is [size |-> bytes, body |-> m].  Timestamps   *)
(* and the symbol are left out: no decision in the program reads them.     *)
(***************************************************************************)
EXTENDS Integers

CONSTANTS
    WordMod,   \* 2^32 in the code: the number of values of a std::uint32_t
    Bswap32    \* __builtin_bswap32, a permutation of the words

Word == 0 .. WordMod - 1

(* A byte swap is its own inverse: the only fact about it the code needs.  *)
ASSUME WordAssumption ==
    /\ WordMod \in Nat \ {0}
    /\ Bswap32 \in [Word -> Word]
    /\ \A w \in Word : Bswap32[Bswap32[w]] = w

(* The two side bytes the book indexes by; "?" stands for every other byte *)
(* a std::uint8_t can hold.                                                *)
Sides == {"B", "S"}
SideByte == Sides \cup {"?"}

AddOrder(id, side, price, qty) ==
    [type |-> "AddOrder", order_id |-> id, side |-> side,
     price |-> price, quantity |-> qty]
CancelOrder(id, qty) ==
    [type |-> "CancelOrder", order_id |-> id, quantity |-> qty]
Execute(id, qty, price) ==
    [type |-> "Execute", order_id |-> id, exec_qty |-> qty, exec_price |-> price]
Quote(bp, bq, ap, aq) ==
    [type |-> "Quote", bid_price |-> bp, bid_qty |-> bq,
     ask_price |-> ap, ask_qty |-> aq]

AddOrderMessage ==
    [type : {"AddOrder"}, order_id : Word, side : SideByte,
     price : Word, quantity : Word]
CancelOrderMessage ==
    [type : {"CancelOrder"}, order_id : Word, quantity : Word]
ExecuteMessage ==
    [type : {"Execute"}, order_id : Word, exec_qty : Word, exec_price : Word]
QuoteMessage ==
    [type : {"Quote"}, bid_price : Word, bid_qty : Word,
     ask_price : Word, ask_qty : Word]
Message ==
    AddOrderMessage \cup CancelOrderMessage \cup ExecuteMessage \cup QuoteMessage

(* A body whose type byte is none of MessageType's four values.  It is     *)
(* also what parsing yields when it refuses its input.                     *)
NoMessage == [type |-> "none"]
Body == Message \cup {NoMessage}

(* The packed sizes the static_asserts of MarketData.hpp fix.              *)
SizeOf(m) ==
    CASE m.type = "AddOrder"    -> 30
      [] m.type = "CancelOrder" -> 17
      [] m.type = "Execute"     -> 21
      [] m.type = "Quote"       -> 25
      [] OTHER                  -> 1

LenPrefix == 2
Bswap16(n) == (n % 256) * 256 + n \div 256

(* Byte-swaps every multi-byte field and leaves the bytes alone.           *)
SwapFields(m) ==
    CASE m.type = "AddOrder" ->
            AddOrder(Bswap32[m.order_id], m.side, Bswap32[m.price],
                     Bswap32[m.quantity])
      [] m.type = "CancelOrder" ->
            CancelOrder(Bswap32[m.order_id], Bswap32[m.quantity])
      [] m.type = "Execute" ->
            Execute(Bswap32[m.order_id], Bswap32[m.exec_qty],
                    Bswap32[m.exec_price])
      [] m.type = "Quote" ->
            Quote(Bswap32[m.bid_price], Bswap32[m.bid_qty],
                  Bswap32[m.ask_price], Bswap32[m.ask_qty])
      [] OTHER -> m

(* Mutant: the length prefix is left in host order.                        *)
WriteMessageHostLen(m) ==
    [size |-> LenPrefix + SizeOf(m), wire_len |-> SizeOf(m), body |-> SwapFields(m)]

(* The packet a build*() function of the generator writes for message m.   *)
WriteMessage(m) ==
    [size |-> LenPrefix + SizeOf(m), wire_len |-> Bswap16(SizeOf(m)),
     body |-> SwapFields(m)]

(* applyPayload: a payload in host order is one message of exactly its     *)
(* own size, or it is refused.                                             *)
ParsePayload(payload) ==
    IF payload.size = SizeOf(payload.body) THEN payload.body ELSE NoMessage

(* Mutant: the length prefix's own two bytes are not counted.              *)
ParsePacketPrefixUncounted(packet) ==
    LET payload_size == Bswap16(packet.wire_len) IN
    IF packet.size < LenPrefix \/ packet.size < payload_size
    THEN NoMessage
    ELSE SwapFields(ParsePayload([size |-> payload_size, body |-> packet.body]))

(* applyPacket, applyNetworkPayload and copyMessage: the length prefix     *)
(* bounds the payload (bytes after it are ignored), then the size must be  *)
(* the message's own.                                                      *)
ParsePacket(packet) ==
    LET payload_size == Bswap16(packet.wire_len) IN
    IF packet.size < LenPrefix \/ packet.size < LenPrefix + payload_size
    THEN NoMessage
    ELSE SwapFields(ParsePayload([size |-> payload_size, body |-> packet.body]))

HalfWord == 0 .. 65535
Packet == [size : Nat, wire_len : HalfWord, body : Body]
Payload == [size : Nat, body : Body]
=============================================================================
