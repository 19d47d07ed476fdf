---------------------------- MODULE MCOrderBook ----------------------------
(***************************************************************************)
(* OrderBook on two-bit words: two order ids that may rest anywhere and a  *)
(* third that deepens one bid level, two prices, quantities that cancel,   *)
(* exceed, equal and saturate each other, the side bytes the book knows    *)
(* and one it does not, and packets cut short, padded, of the wrong size   *)
(* and of an unknown type.                                                 *)
(***************************************************************************)
EXTENDS OrderBook

(* Two "bytes" of one bit each: swapping them exchanges 1 and 2.           *)
MCBswap32 == [w \in 0 .. 3 |-> (w % 2) * 2 + w \div 2]

CONSTANTS Ids, DeepId, Prices, Quantities

Adds == {AddOrder(id, side, price, qty) :
            id \in Ids, side \in SideByte, price \in Prices, qty \in Quantities}
        \cup {AddOrder(DeepId, "B", 1, qty) : qty \in Quantities}
AllIds == Ids \cup {DeepId}
Cancels == {CancelOrder(id, qty) : id \in AllIds, qty \in Quantities}
Executes == {Execute(id, qty, 0) : id \in AllIds, qty \in Quantities}
Quotes == {Quote(1, 3, 2, 3)}

OneAdd == AddOrder(1, "B", 1, 1)
Damaged ==
    LET good == WriteMessage(OneAdd) IN
    { [good EXCEPT !.size = 1],                        \* no length prefix
      [good EXCEPT !.size = @ - 1],                    \* truncated
      [good EXCEPT !.wire_len = Bswap16(29)],          \* not the type's size
      [good EXCEPT !.body = NoMessage] }               \* unknown type byte
Padded == {[WriteMessage(OneAdd) EXCEPT !.size = @ + 3]}

MCPackets ==
    {WriteMessage(m) : m \in Adds \cup Cancels \cup Executes \cup Quotes}
        \cup Damaged \cup Padded
MCPayloads ==
    { [size |-> SizeOf(m), body |-> m] : m \in {OneAdd, CancelOrder(1, 0)} }
        \cup { [size |-> 29, body |-> OneAdd], [size |-> 0, body |-> NoMessage] }

(* heard is read by no step: it is what the step just taken answers.       *)
MCView == bookVars
=============================================================================
