-------------------------- MODULE OrderBook_proofs --------------------------
(***************************************************************************)
(* For every word size and every input, the book's levels are what its     *)
(* orders make them.  Consistent is the inductive invariant, stated for    *)
(* any orders and levels: a replacing AddOrder passes through the levels   *)
(* of the book without the order it replaces, and the lemmas speak of that *)
(* intermediate book too.                                                  *)
(***************************************************************************)
EXTENDS OrderBook, Sums_proofs

-----------------------------------------------------------------------------
(* The operators of Levels: what the map helpers do to a side's levels,    *)
(* and how the depth counted from the resting orders moves when one order  *)
(* comes, goes or shrinks.                                                 *)

(* What order o adds to the depth at a price of a side.                    *)
Contribution(o, side, price) ==
    IF o.side = side /\ o.price = price THEN o.quantity ELSE 0

(* Words are a finite set of naturals.                                     *)
LEMMA WordFacts ==
    /\ Word \subseteq Nat
    /\ IsFiniteSet(Word)
    /\ Cardinality(Word) = WordMod
    /\ \A w \in Word : w <= WordMod - 1
  BY FS_Interval, WordAssumption DEF Word

(* All the shares there can be fit a 64-bit level: 2^32 orders of at most  *)
(* 2^32 - 1 each.                                                          *)
LEMMA AllSharesBound ==
    /\ IsFiniteSet(Word \X (1 .. WordMod - 1))
    /\ Cardinality(Word \X (1 .. WordMod - 1)) \in 0 .. WordMod * WordMod - 1
  <1>1. IsFiniteSet(1 .. WordMod - 1) /\ Cardinality(1 .. WordMod - 1) = WordMod - 1
    BY FS_Interval, WordAssumption
  <1>2. /\ IsFiniteSet(Word \X (1 .. WordMod - 1))
        /\ Cardinality(Word \X (1 .. WordMod - 1)) = WordMod * (WordMod - 1)
    BY <1>1, WordFacts, FS_Product
  <1>3. \A n \in Nat \ {0} : n * (n - 1) \in 0 .. n * n - 1
    <2> TAKE n \in Nat \ {0}
    <2>1. n * (n - 1) = n * n - n
      OBVIOUS
    <2>2. n * (n - 1) >= 0
      OBVIOUS
    <2> QED BY <2>1, <2>2
  <1> QED BY <1>2, <1>3, WordAssumption

(* A depth is a natural number that fits a level.                          *)
LEMMA DepthType ==
    ASSUME NEW os, NEW side, NEW price
    PROVE  /\ IsFiniteSet(Shares(os, side, price))
           /\ Depth(os, side, price) \in Nat
           /\ Depth(os, side, price) \in 0 .. WordMod * WordMod - 1
  <1>1. Shares(os, side, price) \in SUBSET (Word \X (1 .. WordMod - 1))
    BY DEF Shares
  <1>2. /\ IsFiniteSet(Shares(os, side, price))
        /\ Cardinality(Shares(os, side, price))
             <= Cardinality(Word \X (1 .. WordMod - 1))
    BY <1>1, AllSharesBound, FS_Subset
  <1>3. Cardinality(Shares(os, side, price)) \in Nat
    BY <1>2, FS_CardinalityType
  <1> QED BY <1>2, <1>3, AllSharesBound, WordAssumption DEF Depth

(* Depth at a price comes from an order there.                             *)
LEMMA DepthPositive ==
    ASSUME NEW os, NEW side, NEW price, Depth(os, side, price) > 0
    PROVE  \E id \in DOMAIN os : os[id].side = side /\ os[id].price = price
  <1>1. Shares(os, side, price) # {}
    BY FS_EmptySet DEF Depth
  <1> QED BY <1>1 DEF Shares

(* No orders, no depth.                                                    *)
LEMMA DepthEmpty ==
    ASSUME NEW side, NEW price
    PROVE  Depth(EmptyMap, side, price) = 0
  BY FS_EmptySet DEF Depth, Shares, EmptyMap

(* An order with q units stands for q shares.                              *)
LEMMA OrderShares ==
    ASSUME NEW id, NEW q \in Word
    PROVE  /\ IsFiniteSet({id} \X (1 .. q))
           /\ Cardinality({id} \X (1 .. q)) = q
  <1>1. q \in Nat
    BY WordFacts
  <1>2. IsFiniteSet(1 .. q) /\ Cardinality(1 .. q) = q
    BY <1>1, FS_Interval
  <1>3. IsFiniteSet({id}) /\ Cardinality({id}) = 1
    BY FS_Singleton
  <1>4. /\ IsFiniteSet({id} \X (1 .. q))
        /\ Cardinality({id} \X (1 .. q)) = 1 * q
    BY <1>2, <1>3, FS_Product
  <1> QED BY <1>1, <1>4

(* Taking an order out of the book takes its contribution off the depth.   *)
LEMMA DepthErase ==
    ASSUME NEW os, IsMap(os, Word, RestingOrder), NEW id \in DOMAIN os,
           NEW side, NEW price
    PROVE  Depth(os, side, price) = Depth(Erase(os, id), side, price)
                                      + Contribution(os[id], side, price)
  <1> DEFINE q == os[id].quantity
             rest == Shares(Erase(os, id), side, price)
             mine == {id} \X (1 .. q)
  <1>1. id \in Word /\ os[id] \in RestingOrder /\ q \in Word
    BY DEF IsMap, RestingOrder
  <1>2. IsFiniteSet(rest) /\ Cardinality(rest) \in Nat
    BY DepthType, FS_CardinalityType
  <1>3. IsFiniteSet(mine) /\ Cardinality(mine) = q
    BY <1>1, OrderShares
  <1>4. CASE os[id].side = side /\ os[id].price = price
    <2>1. Shares(os, side, price) = rest \cup mine
      <3>1. \A k \in 1 .. q : k \in 1 .. WordMod - 1
        BY <1>1, WordFacts, WordAssumption
      <3>2. Shares(os, side, price) \subseteq rest \cup mine
        BY <1>1, WordFacts, WordAssumption DEF Shares, Erase
      <3>3. rest \subseteq Shares(os, side, price)
        BY DEF Shares, Erase
      <3>4. mine \subseteq Shares(os, side, price)
        <4> SUFFICES ASSUME NEW k \in 1 .. q
                     PROVE  <<id, k>> \in Shares(os, side, price)
          OBVIOUS
        <4>1. k <= os[id].quantity
          BY <1>1, WordFacts
        <4> QED BY <1>1, <1>4, <3>1, <4>1 DEF Shares
      <3> QED BY <3>2, <3>3, <3>4
    <2>2. rest \cap mine = {}
      BY DEF Shares, Erase
    <2>3. Cardinality(rest \cup mine) = Cardinality(rest) + Cardinality(mine) - 0
      BY <1>2, <1>3, <2>2, FS_Union, FS_EmptySet
    <2> QED BY <1>1, <1>2, <1>3, <1>4, <2>1, <2>3, WordFacts
            DEF Depth, Contribution
  <1>5. CASE ~(os[id].side = side /\ os[id].price = price)
    <2>1. Shares(os, side, price) = rest
      BY <1>5 DEF Shares, Erase
    <2> QED BY <1>2, <1>5, <2>1 DEF Depth, Contribution
  <1> QED BY <1>4, <1>5

(* Putting an order in the book adds its contribution to what the others   *)
(* already make.                                                           *)
LEMMA DepthPut ==
    ASSUME NEW os, IsMap(os, Word, RestingOrder), NEW id \in Word,
           NEW o \in RestingOrder, NEW side, NEW price
    PROVE  /\ IsMap(Put(os, id, o), Word, RestingOrder)
           /\ Depth(Put(os, id, o), side, price)
                = Depth(Erase(os, id), side, price) + Contribution(o, side, price)
  <1>1. IsMap(Put(os, id, o), Word, RestingOrder)
    BY DEF IsMap, Put
  <1>2. Erase(Put(os, id, o), id) = Erase(os, id)
    BY DEF Erase, Put
  <1>3. id \in DOMAIN Put(os, id, o) /\ Put(os, id, o)[id] = o
    BY DEF Put
  <1> QED BY <1>1, <1>2, <1>3, DepthErase

(* Erasing keeps a map a map, and erasing an absent key changes nothing.   *)
LEMMA EraseMap ==
    ASSUME NEW m, NEW K, NEW V, IsMap(m, K, V), NEW k
    PROVE  /\ IsMap(Erase(m, k), K, V)
           /\ DOMAIN Erase(m, k) = DOMAIN m \ {k}
           /\ \A x \in DOMAIN m \ {k} : Erase(m, k)[x] = m[x]
           /\ k \notin DOMAIN m => Erase(m, k) = m
  BY DEF IsMap, Erase

(* subtractLevel takes the quantity off one level, down to no level, and   *)
(* leaves every other level alone.                                         *)
LEMMA SubtractLevelFacts ==
    ASSUME NEW N \in Nat, NEW m, IsMap(m, Word, 0 .. N),
           NEW price \in Word, NEW qty \in Nat
    PROVE  LET r == SubtractLevel(m, price, qty) IN
           /\ IsMap(r, Word, 0 .. N)
           /\ DOMAIN r \subseteq DOMAIN m
           /\ \A x \in Word \ {price} :
                /\ At(r, x) = At(m, x)
                /\ x \in DOMAIN r <=> x \in DOMAIN m
           /\ At(r, price) = IF At(m, price) <= qty THEN 0 ELSE At(m, price) - qty
           /\ price \in DOMAIN r => At(r, price) > 0
  <1>1. CASE price \notin DOMAIN m
    BY <1>1 DEF SubtractLevel, At, IsMap
  <1>2. CASE price \in DOMAIN m /\ m[price] <= qty
    <2>1. SubtractLevel(m, price, qty) = Erase(m, price)
      BY <1>2 DEF SubtractLevel
    <2>2. /\ IsMap(Erase(m, price), Word, 0 .. N)
          /\ DOMAIN Erase(m, price) = DOMAIN m \ {price}
          /\ \A x \in DOMAIN m \ {price} : Erase(m, price)[x] = m[x]
      BY EraseMap
    <2> QED BY <1>2, <2>1, <2>2 DEF At
  <1>3. CASE price \in DOMAIN m /\ ~(m[price] <= qty)
    BY <1>3 DEF SubtractLevel, At, IsMap
  <1> QED BY <1>1, <1>2, <1>3

(* Storing a value of the right type keeps a map a map.                    *)
LEMMA PutMap ==
    ASSUME NEW K, NEW V, NEW m, IsMap(m, K, V), NEW k \in K, NEW v \in V
    PROVE  IsMap(Put(m, k, v), K, V)
  BY DEF Put, IsMap

(* An unsigned sum below the modulus does not wrap.                        *)
LEMMA NoWrap ==
    ASSUME NEW mod \in Nat, NEW a \in Nat, a < mod
    PROVE  a % mod = a
  OBVIOUS

-----------------------------------------------------------------------------
(* The book.                                                               *)

Matches(os, lv) ==
    \A side \in Sides, price \in Word :
        At(lv[side], price) = Depth(os, side, price)

Backed(os, lv) ==
    \A side \in Sides : \A price \in DOMAIN lv[side] :
        \E id \in DOMAIN os : os[id].side = side /\ os[id].price = price

LevelsType(lv) ==
    /\ DOMAIN lv = Sides
    /\ \A side \in Sides : IsMap(lv[side], Word, 0 .. LevelMod - 1)

Consistent(os, lv) ==
    /\ IsMap(os, Word, RestingOrder)
    /\ LevelsType(lv)
    /\ Matches(os, lv)
    /\ Backed(os, lv)

IInv ==
    /\ Consistent(orders, levels)
    /\ last_quote \in QuoteMessage \cup {NoMessage}

(* The largest level quantity is a natural number.                         *)
LEMMA LevelModFacts == LevelMod \in Nat \ {0} /\ LevelMod - 1 \in Nat
  <1>1. \A n \in Nat \ {0} : n * n \in Nat \ {0}
    OBVIOUS
  <1> QED BY <1>1, WordAssumption DEF LevelMod

(* A parsed packet or payload is a message or nothing.                     *)
LEMMA ParseType ==
    /\ \A packet \in Packet : ParsePacket(packet) \in Body
    /\ \A payload \in Payload : ParsePayload(payload) \in Body
  <1>1. ASSUME NEW m \in Body
        PROVE  SwapFields(m) \in Body
    <2>1. CASE m \in AddOrderMessage
      BY <2>1, WordAssumption
      DEF SwapFields, AddOrderMessage, AddOrder, Body, Message
    <2>2. CASE m \in CancelOrderMessage
      BY <2>2, WordAssumption
      DEF SwapFields, CancelOrderMessage, CancelOrder, Body, Message
    <2>3. CASE m \in ExecuteMessage
      BY <2>3, WordAssumption
      DEF SwapFields, ExecuteMessage, Execute, Body, Message
    <2>4. CASE m \in QuoteMessage
      BY <2>4, WordAssumption
      DEF SwapFields, QuoteMessage, Quote, Body, Message
    <2>5. CASE m = NoMessage
      BY <2>5 DEF SwapFields, NoMessage, Body
    <2> QED BY <2>1, <2>2, <2>3, <2>4, <2>5 DEF Body, Message
  <1>2. ASSUME NEW size, NEW m \in Body
        PROVE  ParsePayload([size |-> size, body |-> m]) \in Body
    BY DEF ParsePayload, Body
  <1>3. NoMessage \in Body
    BY DEF Body
  <1>4. \A packet \in Packet : ParsePacket(packet) \in Body
    <2> SUFFICES ASSUME NEW packet \in Packet
                 PROVE  ParsePacket(packet) \in Body
      OBVIOUS
    <2>1. packet.body \in Body
      BY DEF Packet
    <2> DEFINE size == Bswap16(packet.wire_len)
               parsed == ParsePayload([size |-> size, body |-> packet.body])
    <2>2. parsed \in Body
      BY <1>2, <2>1
    <2>3. SwapFields(parsed) \in Body
      BY <1>1, <2>2
    <2>4. ParsePacket(packet) \in {NoMessage, SwapFields(parsed)}
      BY DEF ParsePacket
    <2> QED BY <1>3, <2>3, <2>4
  <1>5. \A payload \in Payload : ParsePayload(payload) \in Body
    BY <1>3 DEF ParsePayload, Payload
  <1> QED BY <1>4, <1>5

(* Taking r units, no more than rest, off the level of a resting order     *)
(* lowers that one level by r.                                             *)
LEMMA RemoveFacts ==
    ASSUME NEW os, NEW lv, Consistent(os, lv), NEW id \in DOMAIN os,
           NEW r \in Nat, r <= os[id].quantity
    PROVE  LET new == RemoveFromLevels(lv, os[id].side, os[id].price, r) IN
           /\ LevelsType(new)
           /\ \A side \in Sides, price \in Word :
                IF side = os[id].side /\ price = os[id].price
                THEN /\ At(new[side], price) = At(lv[side], price) - r
                     /\ price \in DOMAIN new[side] => At(new[side], price) > 0
                ELSE /\ At(new[side], price) = At(lv[side], price)
                     /\ price \in DOMAIN new[side] => price \in DOMAIN lv[side]
  <1> DEFINE s == os[id].side
             p == os[id].price
             new == RemoveFromLevels(lv, s, p, r)
  <1>1. s \in SideByte /\ p \in Word /\ os[id].quantity \in Nat
    BY WordFacts DEF Consistent, IsMap, RestingOrder
  <1>2. CASE s \in Sides
    <2>1. IsMap(lv[s], Word, 0 .. LevelMod - 1)
      BY <1>2 DEF Consistent, LevelsType
    <2>2. At(lv[s], p) >= r
      <3>1. Depth(os, s, p) = Depth(Erase(os, id), s, p) + os[id].quantity
        BY DepthErase DEF Consistent, Contribution
      <3>2. Depth(Erase(os, id), s, p) \in Nat
        BY DepthType
      <3> QED BY <1>1, <1>2, <3>1, <3>2 DEF Consistent, Matches
    <2>3. new = [lv EXCEPT ![s] = SubtractLevel(lv[s], p, r)]
      BY <1>2 DEF RemoveFromLevels
    <2>4. LET sub == SubtractLevel(lv[s], p, r) IN
          /\ IsMap(sub, Word, 0 .. LevelMod - 1)
          /\ \A x \in Word \ {p} :
               /\ At(sub, x) = At(lv[s], x)
               /\ x \in DOMAIN sub <=> x \in DOMAIN lv[s]
          /\ At(sub, p) = IF At(lv[s], p) <= r THEN 0 ELSE At(lv[s], p) - r
          /\ p \in DOMAIN sub => At(sub, p) > 0
      BY <1>1, <2>1, LevelModFacts, SubtractLevelFacts
    <2>5. At(lv[s], p) \in Nat
      BY <1>1, <2>1, LevelModFacts DEF At, IsMap
    <2>6. At(SubtractLevel(lv[s], p, r), p) = At(lv[s], p) - r
      BY <2>2, <2>4, <2>5
    <2>7. DOMAIN lv = Sides
      BY DEF Consistent, LevelsType
    <2>8. LevelsType(new)
      BY <2>3, <2>4, <2>7 DEF LevelsType, Consistent
    <2> QED BY <2>3, <2>4, <2>6, <2>7, <2>8
  <1>3. CASE s \notin Sides
    BY <1>3 DEF RemoveFromLevels, Consistent
  <1> QED BY <1>2, <1>3

(* Removing a resting order whole keeps the book consistent.               *)
LEMMA RemoveOrder ==
    ASSUME NEW os, NEW lv, Consistent(os, lv), NEW id \in DOMAIN os
    PROVE  Consistent(Erase(os, id),
                      RemoveFromLevels(lv, os[id].side, os[id].price,
                                       os[id].quantity))
  <1> DEFINE q == os[id].quantity
             rest == Erase(os, id)
             new == RemoveFromLevels(lv, os[id].side, os[id].price, q)
  <1>1. q \in Nat
    BY WordFacts DEF Consistent, IsMap, RestingOrder
  <1>2. IsMap(os, Word, RestingOrder)
    BY DEF Consistent
  <1>3. /\ IsMap(rest, Word, RestingOrder)
        /\ DOMAIN rest = DOMAIN os \ {id}
        /\ \A x \in DOMAIN os \ {id} : rest[x] = os[x]
    BY <1>2, EraseMap
  <1>4. /\ LevelsType(new)
        /\ \A side \in Sides, price \in Word :
             IF side = os[id].side /\ price = os[id].price
             THEN /\ At(new[side], price) = At(lv[side], price) - q
                  /\ price \in DOMAIN new[side] => At(new[side], price) > 0
             ELSE /\ At(new[side], price) = At(lv[side], price)
                  /\ price \in DOMAIN new[side] => price \in DOMAIN lv[side]
    BY <1>1, RemoveFacts
  <1>5. Matches(rest, new)
    <2> SUFFICES ASSUME NEW side \in Sides, NEW price \in Word
                 PROVE  At(new[side], price) = Depth(rest, side, price)
      BY DEF Matches
    <2>1. Depth(os, side, price) = Depth(rest, side, price)
                                     + Contribution(os[id], side, price)
      BY <1>2, DepthErase
    <2>2. At(lv[side], price) = Depth(os, side, price)
      BY DEF Consistent, Matches
    <2>3. Depth(rest, side, price) \in Nat
      BY DepthType
    <2> QED BY <1>1, <1>4, <2>1, <2>2, <2>3 DEF Contribution
  <1>6. Backed(rest, new)
    <2> SUFFICES ASSUME NEW side \in Sides, NEW price \in DOMAIN new[side]
                 PROVE  \E x \in DOMAIN rest :
                            rest[x].side = side /\ rest[x].price = price
      BY DEF Backed
    <2>1. price \in Word
      BY <1>4 DEF LevelsType, IsMap
    <2>2. CASE side = os[id].side /\ price = os[id].price
      <3>1. Depth(rest, side, price) > 0
        BY <1>4, <1>5, <2>1, <2>2 DEF Matches
      <3> QED BY <3>1, DepthPositive
    <2>3. CASE ~(side = os[id].side /\ price = os[id].price)
      <3>1. price \in DOMAIN lv[side]
        BY <1>4, <2>1, <2>3
      <3>2. PICK x \in DOMAIN os : os[x].side = side /\ os[x].price = price
        BY <3>1 DEF Consistent, Backed
      <3> QED BY <1>3, <2>3, <3>2
    <2> QED BY <2>2, <2>3
  <1> QED BY <1>3, <1>4, <1>5, <1>6 DEF Consistent

(* Adding quantity to a level it fits in raises that one level by it.      *)
LEMMA AddFacts ==
    ASSUME NEW lv, LevelsType(lv), NEW s \in SideByte, NEW p \in Word,
           NEW q \in Nat, s \in Sides => At(lv[s], p) + q <= LevelMod - 1
    PROVE  LET new == AddToLevels(lv, s, p, q) IN
           /\ LevelsType(new)
           /\ \A side \in Sides, price \in Word :
                IF side = s /\ price = p
                THEN At(new[side], price) = At(lv[side], price) + q
                ELSE /\ At(new[side], price) = At(lv[side], price)
                     /\ price \in DOMAIN new[side] => price \in DOMAIN lv[side]
  <1> DEFINE new == AddToLevels(lv, s, p, q)
             added == AddLevel(lv[s], p, q, LevelMod)
  <1>1. CASE s \in Sides
    <2>1. PICK m : m = lv[s]
      OBVIOUS
    <2>2. IsMap(m, Word, 0 .. LevelMod - 1)
      BY <1>1, <2>1 DEF LevelsType
    <2>3. PICK old \in Nat : old = At(m, p)
      BY <2>2, LevelModFacts DEF At, IsMap
    <2>4. PICK sum \in 0 .. LevelMod - 1 : sum = old + q
      BY <1>1, <2>1, <2>3, LevelModFacts
    <2>5. added = Put(m, p, sum)
      <3>1. (old + q) % LevelMod = old + q
        BY <2>3, <2>4, LevelModFacts, NoWrap
      <3> QED BY <2>1, <2>3, <2>4, <3>1 DEF AddLevel
    <2>6. new = [lv EXCEPT ![s] = added] /\ DOMAIN lv = Sides
      BY <1>1 DEF AddToLevels, LevelsType
    <2> HIDE DEF added
    <2>7. /\ IsMap(added, Word, 0 .. LevelMod - 1)
          /\ DOMAIN added = DOMAIN m \cup {p}
          /\ At(added, p) = sum
          /\ \A x \in Word \ {p} : At(added, x) = At(m, x)
      <3>1. IsMap(Put(m, p, sum), Word, 0 .. LevelMod - 1)
        BY <2>2, <2>4, PutMap
      <3>2. /\ DOMAIN Put(m, p, sum) = DOMAIN m \cup {p}
            /\ At(Put(m, p, sum), p) = sum
            /\ \A x : x # p => At(Put(m, p, sum), x) = At(m, x)
        BY DEF Put, At
      <3> QED BY <2>5, <3>1, <3>2
    <2>8. LevelsType(new)
      BY <2>6, <2>7 DEF LevelsType
    <2> QED BY <2>1, <2>3, <2>4, <2>6, <2>7, <2>8
  <1>2. CASE s \notin Sides
    BY <1>2 DEF AddToLevels
  <1> QED BY <1>1, <1>2

(* Entering an order under an id that is free keeps the book consistent.   *)
LEMMA InsertOrder ==
    ASSUME NEW os, NEW lv, Consistent(os, lv), NEW id \in Word \ DOMAIN os,
           NEW o \in RestingOrder
    PROVE  Consistent(Put(os, id, o),
                      AddToLevels(lv, o.side, o.price, o.quantity))
  <1>1. PICK s \in SideByte, p \in Word, q \in Nat :
            s = o.side /\ p = o.price /\ q = o.quantity
    BY WordFacts DEF RestingOrder
  <1> DEFINE all == Put(os, id, o)
             new == AddToLevels(lv, s, p, q)
  <1>2. IsMap(os, Word, RestingOrder) /\ DOMAIN lv = Sides
    BY DEF Consistent, LevelsType
  <1>3. /\ IsMap(all, Word, RestingOrder)
        /\ \A side, price :
             Depth(all, side, price) = Depth(os, side, price)
                                         + Contribution(o, side, price)
    <2>1. Erase(os, id) = os
      BY <1>2, EraseMap
    <2> QED BY <1>2, <2>1, DepthPut
  <1>4. /\ DOMAIN all = DOMAIN os \cup {id}
        /\ all[id] = o
        /\ \A x \in DOMAIN os : all[x] = os[x]
    BY DEF Put
  <1>5. /\ LevelsType(new)
        /\ \A side \in Sides, price \in Word :
             IF side = s /\ price = p
             THEN At(new[side], price) = At(lv[side], price) + q
             ELSE /\ At(new[side], price) = At(lv[side], price)
                  /\ price \in DOMAIN new[side] => price \in DOMAIN lv[side]
    <2>1. s \in Sides => At(lv[s], p) + q <= LevelMod - 1
      <3>1. Depth(all, s, p) = Depth(os, s, p) + q
        BY <1>1, <1>3 DEF Contribution
      <3>2. Depth(all, s, p) <= LevelMod - 1
        BY DepthType DEF LevelMod
      <3> QED BY <3>1, <3>2 DEF Consistent, Matches
    <2> QED BY <2>1, AddFacts DEF Consistent
  <1>6. Matches(all, new)
    <2> SUFFICES ASSUME NEW side \in Sides, NEW price \in Word
                 PROVE  At(new[side], price) = Depth(all, side, price)
      BY DEF Matches
    <2>1. At(lv[side], price) = Depth(os, side, price)
      BY DEF Consistent, Matches
    <2>2. Depth(os, side, price) \in Nat
      BY DepthType
    <2> QED BY <1>1, <1>3, <1>5, <2>1, <2>2 DEF Contribution
  <1>7. Backed(all, new)
    <2> SUFFICES ASSUME NEW side \in Sides, NEW price \in DOMAIN new[side]
                 PROVE  \E x \in DOMAIN all :
                            all[x].side = side /\ all[x].price = price
      BY DEF Backed
    <2>1. price \in Word
      BY <1>5 DEF LevelsType, IsMap
    <2>2. CASE side = s /\ price = p
      BY <1>1, <1>4, <2>2
    <2>3. CASE ~(side = s /\ price = p)
      <3>1. price \in DOMAIN lv[side]
        BY <1>5, <2>1, <2>3
      <3>2. PICK x \in DOMAIN os : os[x].side = side /\ os[x].price = price
        BY <3>1 DEF Consistent, Backed
      <3> QED BY <1>4, <3>2
    <2> QED BY <2>2, <2>3
  <1> QED BY <1>1, <1>3, <1>5, <1>6, <1>7 DEF Consistent

(* Taking part of a resting order away keeps the book consistent.          *)
LEMMA ShrinkOrder ==
    ASSUME NEW os, NEW lv, Consistent(os, lv), NEW id \in DOMAIN os,
           NEW r \in Nat, r < os[id].quantity
    PROVE  Consistent([os EXCEPT ![id].quantity = @ - r],
                      RemoveFromLevels(lv, os[id].side, os[id].price, r))
  <1> DEFINE o == os[id]
             o2 == [os[id] EXCEPT !.quantity = @ - r]
             less == [os EXCEPT ![id].quantity = @ - r]
             new == RemoveFromLevels(lv, os[id].side, os[id].price, r)
  <1>1. IsMap(os, Word, RestingOrder) /\ id \in Word /\ o \in RestingOrder
    BY DEF Consistent, IsMap
  <1>2. o.quantity \in Nat /\ r <= o.quantity
    BY <1>1, WordFacts DEF RestingOrder
  <1>3. /\ o2 \in RestingOrder
        /\ o2.side = o.side /\ o2.price = o.price /\ o2.quantity = o.quantity - r
    BY <1>1, WordAssumption DEF RestingOrder, Word
  <1>4. less = Put(os, id, o2)
    BY <1>1 DEF Put, IsMap
  <1>5. DOMAIN less = DOMAIN os /\ \A x \in DOMAIN os :
           less[x].side = os[x].side /\ less[x].price = os[x].price
    BY <1>1, <1>3 DEF IsMap
  <1>6. /\ LevelsType(new)
        /\ \A side \in Sides, price \in Word :
             IF side = os[id].side /\ price = os[id].price
             THEN /\ At(new[side], price) = At(lv[side], price) - r
                  /\ price \in DOMAIN new[side] => At(new[side], price) > 0
             ELSE /\ At(new[side], price) = At(lv[side], price)
                  /\ price \in DOMAIN new[side] => price \in DOMAIN lv[side]
    BY <1>2, RemoveFacts
  <1>7. IsMap(less, Word, RestingOrder)
    BY <1>1, <1>3, <1>4, DepthPut
  <1>8. Matches(less, new)
    <2> SUFFICES ASSUME NEW side \in Sides, NEW price \in Word
                 PROVE  At(new[side], price) = Depth(less, side, price)
      BY DEF Matches
    <2>1. Depth(os, side, price) = Depth(Erase(os, id), side, price)
                                     + Contribution(o, side, price)
      BY <1>1, DepthErase
    <2>2. Depth(less, side, price) = Depth(Erase(os, id), side, price)
                                       + Contribution(o2, side, price)
      BY <1>1, <1>3, <1>4, DepthPut
    <2>3. At(lv[side], price) = Depth(os, side, price)
      BY DEF Consistent, Matches
    <2>4. Depth(Erase(os, id), side, price) \in Nat
      BY DepthType
    <2> HIDE DEF o, o2
    <2> QED BY <1>2, <1>3, <1>6, <2>1, <2>2, <2>3, <2>4 DEF Contribution, o
  <1>9. Backed(less, new)
    <2> SUFFICES ASSUME NEW side \in Sides, NEW price \in DOMAIN new[side]
                 PROVE  \E x \in DOMAIN less :
                            less[x].side = side /\ less[x].price = price
      BY DEF Backed
    <2>1. price \in Word
      BY <1>6 DEF LevelsType, IsMap
    <2>2. CASE side = os[id].side /\ price = os[id].price
      BY <1>5, <2>2
    <2>3. CASE ~(side = os[id].side /\ price = os[id].price)
      <3>1. price \in DOMAIN lv[side]
        BY <1>6, <2>1, <2>3
      <3>2. PICK x \in DOMAIN os : os[x].side = side /\ os[x].price = price
        BY <3>1 DEF Consistent, Backed
      <3> QED BY <1>5, <3>2
    <2> QED BY <2>2, <2>3
  <1> QED BY <1>6, <1>7, <1>8, <1>9 DEF Consistent

(* reduceOrder keeps the book consistent, whatever quantity it is asked to *)
(* take.                                                                   *)
LEMMA ReduceConsistent ==
    ASSUME Consistent(orders, levels), NEW id \in DOMAIN orders,
           NEW reduce_qty \in Word, ReduceOrder(id, reduce_qty)
    PROVE  Consistent(orders, levels)' /\ last_quote' = last_quote
  <1> DEFINE q == orders[id].quantity
             removed == IF reduce_qty >= q THEN q ELSE reduce_qty
  <1>1. q \in Nat /\ reduce_qty \in Nat
    BY WordFacts DEF Consistent, IsMap, RestingOrder
  <1>2. /\ levels' = RemoveFromLevels(levels, orders[id].side,
                                      orders[id].price, removed)
        /\ orders' = IF q = removed THEN Erase(orders, id)
                     ELSE [orders EXCEPT ![id].quantity = @ - removed]
        /\ last_quote' = last_quote
    BY DEF ReduceOrder
  <1>3. CASE q = removed
    <2>1. Consistent(Erase(orders, id),
                     RemoveFromLevels(levels, orders[id].side,
                                      orders[id].price, orders[id].quantity))
      BY RemoveOrder
    <2> QED BY <1>2, <1>3, <2>1
  <1>4. CASE q # removed
    <2>1. removed \in Nat /\ removed < q
      BY <1>1, <1>4
    <2> HIDE DEF removed
    <2>2. Consistent([orders EXCEPT ![id].quantity = @ - removed],
                     RemoveFromLevels(levels, orders[id].side,
                                      orders[id].price, removed))
      BY <2>1, ShrinkOrder
    <2> QED BY <1>2, <1>4, <2>2
  <1> QED BY <1>3, <1>4

(* The empty book is consistent.                                           *)
LEMMA EmptyConsistent ==
    Consistent(EmptyMap, [side \in Sides |-> EmptyMap])
  <1>1. \A K, V : IsMap(EmptyMap, K, V)
    BY DEF IsMap, EmptyMap
  <1>2. Matches(EmptyMap, [side \in Sides |-> EmptyMap])
    BY DepthEmpty DEF Matches, At, EmptyMap
  <1> QED BY <1>1, <1>2 DEF Consistent, LevelsType, Backed, EmptyMap

(* Each of the four apply() overloads, and refusing, keeps the invariant.  *)
LEMMA ApplyInductive ==
    ASSUME IInv, NEW m \in Body, Apply(m)
    PROVE  IInv'
  <1> USE DEF IInv
  <1>1. CASE m.type = "AddOrder" /\ ApplyAddOrder(m)
    <2> DEFINE id == m.order_id
               o == [side |-> m.side, price |-> m.price, quantity |-> m.quantity]
    <2>1. m \in AddOrderMessage
      BY <1>1 DEF Body, Message, AddOrderMessage, CancelOrderMessage,
                  ExecuteMessage, QuoteMessage, NoMessage
    <2>2. id \in Word /\ o \in RestingOrder
      BY <2>1 DEF AddOrderMessage, RestingOrder
    <2>3. IsMap(orders, Word, RestingOrder)
      BY DEF Consistent
    <2>4. CASE id \in DOMAIN orders
      <3> DEFINE rest == Erase(orders, id)
                 cleared == RemoveFromLevels(levels, orders[id].side,
                                orders[id].price, orders[id].quantity)
      <3>1. Consistent(rest, cleared)
        BY <2>4, RemoveOrder
      <3>2. id \in Word \ DOMAIN rest
        BY <2>2 DEF Erase
      <3>3. orders' = Put(rest, id, o)
        <4>1. orders' = Put(orders, id, o)
          BY <1>1 DEF ApplyAddOrder
        <4>2. Put(orders, id, o) = Put(rest, id, o)
          BY <2>4 DEF Put, Erase
        <4> QED BY <4>1, <4>2
      <3>4. levels' = AddToLevels(cleared, o.side, o.price, o.quantity)
        BY <1>1, <2>4 DEF ApplyAddOrder
      <3> HIDE DEF rest, cleared, o
      <3>5. Consistent(Put(rest, id, o),
                       AddToLevels(cleared, o.side, o.price, o.quantity))
        BY <2>2, <3>1, <3>2, InsertOrder
      <3> QED BY <1>1, <3>3, <3>4, <3>5 DEF ApplyAddOrder
    <2>5. CASE id \notin DOMAIN orders
      <3>1. orders' = Put(orders, id, o)
        BY <1>1 DEF ApplyAddOrder
      <3>2. levels' = AddToLevels(levels, o.side, o.price, o.quantity)
        BY <1>1, <2>5 DEF ApplyAddOrder
      <3> HIDE DEF o
      <3>3. Consistent(Put(orders, id, o),
                       AddToLevels(levels, o.side, o.price, o.quantity))
        BY <2>2, <2>5, InsertOrder
      <3> QED BY <1>1, <3>1, <3>2, <3>3 DEF ApplyAddOrder
    <2> QED BY <2>4, <2>5
  <1>2. CASE m.type = "CancelOrder" /\ ApplyCancelOrder(m)
    <2>1. m \in CancelOrderMessage
      BY <1>2 DEF Body, Message, AddOrderMessage, CancelOrderMessage,
                  ExecuteMessage, QuoteMessage, NoMessage
    <2>2. m.quantity \in Word
      BY <2>1 DEF CancelOrderMessage
    <2>3. m.order_id \in DOMAIN orders
      BY <1>2 DEF ApplyCancelOrder
    <2>4. orders[m.order_id].quantity \in Word
      BY <2>3 DEF Consistent, IsMap, RestingOrder
    <2> DEFINE cancel_qty == IF m.quantity = 0
                             THEN orders[m.order_id].quantity ELSE m.quantity
    <2>5. cancel_qty \in Word /\ ReduceOrder(m.order_id, cancel_qty)
      BY <1>2, <2>2, <2>4 DEF ApplyCancelOrder
    <2> HIDE DEF cancel_qty
    <2> QED BY <2>3, <2>5, ReduceConsistent
  <1>3. CASE m.type = "Execute" /\ ApplyExecute(m)
    <2>1. m \in ExecuteMessage
      BY <1>3 DEF Body, Message, AddOrderMessage, CancelOrderMessage,
                  ExecuteMessage, QuoteMessage, NoMessage
    <2>2. m.exec_qty \in Word
      BY <2>1 DEF ExecuteMessage
    <2>3. m.order_id \in DOMAIN orders /\ ReduceOrder(m.order_id, m.exec_qty)
      BY <1>3 DEF ApplyExecute
    <2> QED BY <2>2, <2>3, ReduceConsistent
  <1>4. CASE m.type = "Quote" /\ ApplyQuote(m)
    <2>1. m \in QuoteMessage
      BY <1>4 DEF Body, Message, AddOrderMessage, CancelOrderMessage,
                  ExecuteMessage, QuoteMessage, NoMessage
    <2> QED BY <1>4, <2>1 DEF ApplyQuote
  <1>5. CASE ~Accepts(m) /\ UNCHANGED bookVars
    BY <1>5 DEF bookVars
  <1> QED BY <1>1, <1>2, <1>3, <1>4, <1>5 DEF Apply

(* The book's levels agree with its orders in every reachable state, for   *)
(* any word size, any byte swap and any packets.                           *)
THEOREM Inductive == Spec => []IInv
  <1>1. Init => IInv
    BY EmptyConsistent DEF Init, EmptyBook, IInv
  <1>2. IInv /\ [Next]_vars => IInv'
    <2> SUFFICES ASSUME IInv, [Next]_vars
                 PROVE  IInv'
      OBVIOUS
    <2>1. ASSUME NEW packet \in Packets, ApplyPacket(packet)
          PROVE  IInv'
      BY <2>1, ParseType, ApplyInductive, InputAssumption DEF ApplyPacket
    <2>2. ASSUME NEW payload \in Payloads, ApplyMessage(payload)
          PROVE  IInv'
      BY <2>2, ParseType, ApplyInductive, InputAssumption DEF ApplyMessage
    <2>3. CASE Clear
      BY <2>3, EmptyConsistent DEF Clear, IInv
    <2>4. CASE UNCHANGED vars
      BY <2>4 DEF vars, IInv
    <2> QED BY <2>1, <2>2, <2>3, <2>4 DEF Next
  <1> QED BY <1>1, <1>2, PTL DEF Spec

(* The invariant implies the types of the book's state.                    *)
LEMMA InvariantTypes == IInv => BookTypeOK
  BY DEF IInv, BookTypeOK, Consistent, LevelsType

(* Type correctness of the book's state.                                   *)
THEOREM TypeCorrect == Spec => []TypeOK
  <1>1. Init => heard \in Calls
    BY DEF Init, Calls
  <1>2. heard \in Calls /\ [Next]_vars => (heard \in Calls)'
    BY DEF Next, Calls, vars
  <1>3. BookTypeOK /\ heard \in Calls => TypeOK
    BY DEF TypeOK
  <1> QED BY <1>1, <1>2, <1>3, InvariantTypes, Inductive, PTL DEF Spec

(* Every level holds exactly what rests at its price: addToLevels and      *)
(* subtractLevel (419-459) never drift from orders_, and a 64-bit level    *)
(* never overflows.                                                        *)
THEOREM LevelsCorrect == Spec => []LevelsMatchOrders
  <1>1. IInv => LevelsMatchOrders
    BY DEF IInv, Consistent, Matches, LevelsMatchOrders
  <1> QED BY <1>1, Inductive, PTL

(* No level is left behind by the orders that made it, zero-quantity       *)
(* orders included.                                                        *)
THEOREM NoPhantoms == Spec => []NoPhantomLevel
  <1>1. IInv => NoPhantomLevel
    BY DEF IInv, Consistent, Backed, NoPhantomLevel
  <1> QED BY <1>1, Inductive, PTL
-----------------------------------------------------------------------------
(* The top of the book.                                                    *)

(* Among prices there is a lowest and a highest, and Min and Max are they. *)
LEMMA Extremes ==
    ASSUME NEW T \in SUBSET Word, T # {}
    PROVE  /\ Min(T) \in T /\ \A p \in T : ~(p < Min(T))
           /\ Max(T) \in T /\ \A p \in T : ~(p > Max(T))
  <1>1. \A p \in T : p \in Nat /\ WordMod - 1 - p \in Nat
    BY WordFacts, WordAssumption
  <1>2. Min(T) \in T /\ \A p \in T : Min(T) <= p
    <2>1. \E x \in T : \A y \in T : x <= y
      BY <1>1, Least
    <2> QED BY <2>1 DEF Min
  <1>3. Max(T) \in T /\ \A p \in T : Max(T) >= p
    <2> DEFINE mirrored == {WordMod - 1 - p : p \in T}
    <2>1. PICK u \in mirrored : \A v \in mirrored : u <= v
      <3>1. mirrored \in SUBSET Nat /\ mirrored # {}
        BY <1>1
      <3> QED BY <3>1, Least
    <2>2. PICK x \in T : u = WordMod - 1 - x
      BY <2>1
    <2>3. ASSUME NEW y \in T
          PROVE  x >= y
      <3>1. u <= WordMod - 1 - y
        BY <2>1
      <3> QED BY <1>1, <2>2, <3>1, WordAssumption
    <2> QED BY <2>3 DEF Max
  <1> QED BY <1>1, <1>2, <1>3

(* An order with quantity left makes a level at its price.                 *)
LEMMA LiveHasLevel ==
    ASSUME IInv, NEW side \in Sides, NEW id \in DOMAIN orders,
           orders[id].side = side, orders[id].quantity > 0
    PROVE  orders[id].price \in DOMAIN levels[side]
  <1> DEFINE price == orders[id].price
  <1>1. price \in Word /\ orders[id].quantity \in Nat
    BY WordFacts DEF IInv, Consistent, IsMap, RestingOrder
  <1>2. Depth(orders, side, price)
          = Depth(Erase(orders, id), side, price) + orders[id].quantity
    BY DepthErase DEF IInv, Consistent, Contribution
  <1>3. Depth(Erase(orders, id), side, price) \in Nat
    BY DepthType
  <1>4. At(levels[side], price) = Depth(orders, side, price)
    BY <1>1 DEF IInv, Consistent, Matches
  <1>5. At(levels[side], price) # 0
    BY <1>1, <1>2, <1>3, <1>4
  <1> QED BY <1>5 DEF At

(* What bestBid and bestAsk report is the price of some resting order, no  *)
(* order with quantity left rests at a better one, and the quantity is the *)
(* depth there, saturated.                                                 *)
LEMMA TopFacts ==
    ASSUME IInv, NEW side \in Sides
    PROVE  LET best == BestLevel(side)
               live == {id \in DOMAIN orders :
                          orders[id].side = side /\ orders[id].quantity > 0}
           IN /\ best = NoLevel => live = {}
              /\ best # NoLevel =>
                   /\ \A id \in live : ~Better(side, orders[id].price, best.price)
                   /\ best.quantity
                        = NarrowQuantity(Depth(orders, side, best.price))
                   /\ \E id \in DOMAIN orders :
                        orders[id].side = side /\ orders[id].price = best.price
  <1> DEFINE prices == DOMAIN levels[side]
             top == IF side = "B" THEN Max(prices) ELSE Min(prices)
             live == {id \in DOMAIN orders :
                        orders[id].side = side /\ orders[id].quantity > 0}
  <1>1. prices \in SUBSET Word
    BY DEF IInv, Consistent, LevelsType, IsMap
  <1>2. \A id \in live : orders[id].price \in prices
    BY LiveHasLevel
  <1>3. CASE prices = {}
    <2>1. BestLevel(side) = NoLevel
      BY <1>3 DEF BestLevel
    <2>2. live = {}
      BY <1>2, <1>3
    <2> QED BY <2>1, <2>2
  <1>4. CASE prices # {}
    <2>1. top \in prices /\ \A p \in prices : ~Better(side, p, top)
      BY <1>1, <1>4, Extremes DEF Better
    <2>2. BestLevel(side)
            = [price |-> top, quantity |-> NarrowQuantity(levels[side][top])]
      BY <1>4 DEF BestLevel
    <2> HIDE DEF top
    <2>3. levels[side][top] = Depth(orders, side, top)
      <3>1. At(levels[side], top) = Depth(orders, side, top)
        BY <1>1, <2>1 DEF IInv, Consistent, Matches
      <3> QED BY <2>1, <3>1 DEF At
    <2>4. /\ BestLevel(side).price = top
          /\ BestLevel(side).quantity = NarrowQuantity(Depth(orders, side, top))
      BY <2>2, <2>3
    <2>5. \E id \in DOMAIN orders :
             orders[id].side = side /\ orders[id].price = top
      BY <2>1 DEF IInv, Consistent, Backed
    <2>6. \A id \in live : ~Better(side, orders[id].price, top)
      BY <1>2, <2>1
    <2> QED
      <3> HIDE DEF live
      <3>1. live = {} \/ BestLevel(side) # NoLevel
        <4>1. NarrowQuantity(Depth(orders, side, top)) # -1
          BY DepthType, WordAssumption DEF NarrowQuantity
        <4> QED BY <2>4, <4>1 DEF NoLevel
      <3> QED BY <2>4, <2>5, <2>6, <3>1 DEF live
  <1> QED BY <1>3, <1>4

(* bestBid and bestAsk (46-60) never miss an order, and show all that      *)
(* rests at the best price, saturated to 32 bits.                          *)
THEOREM TopCorrect == Spec => []TopOfBook
  <1>1. \A d \in Nat : /\ NarrowQuantity(d) <= d
                       /\ NarrowQuantity(d) < d => NarrowQuantity(d) = WordMod - 1
    BY WordAssumption DEF NarrowQuantity
  <1>2. IInv => TopOfBook
    BY <1>1, TopFacts, DepthType DEF TopOfBook
  <1> QED BY <1>2, Inductive, PTL
-----------------------------------------------------------------------------
(* The depth chart.                                                        *)

(* Numbers up to a bound have a greatest, and Max is it.                   *)
LEMMA Greatest ==
    ASSUME NEW b \in Nat, NEW T \in SUBSET (0 .. b), T # {}
    PROVE  Max(T) \in T /\ \A y \in T : Max(T) >= y
  <1> DEFINE mirrored == {b - x : x \in T}
  <1>1. mirrored \in SUBSET Nat /\ mirrored # {}
    <2>1. \A x \in T : x \in 0 .. b
      OBVIOUS
    <2>2. \A x \in 0 .. b : b - x \in Nat
      OBVIOUS
    <2> QED BY <2>1, <2>2
  <1>2. PICK u \in mirrored : \A v \in mirrored : u <= v
    BY <1>1, Least
  <1>3. PICK x \in T : u = b - x
    BY <1>2
  <1>4. ASSUME NEW y \in T PROVE x >= y
    <2>1. u <= b - y
      BY <1>2
    <2> QED BY <1>3, <2>1
  <1> QED BY <1>4 DEF Max

LEMMA MaxWithOne ==
    ASSUME NEW x \in Nat
    PROVE  Max({1, x}) = IF x = 0 THEN 1 ELSE x
  <1> DEFINE greater == IF x = 0 THEN 1 ELSE x
  <1>1. greater \in {1, x} /\ \A y \in {1, x} : greater >= y
    OBVIOUS
  <1>2. \A m \in {1, x} : (\A y \in {1, x} : m >= y) => m = greater
    OBVIOUS
  <1> QED BY <1>1, <1>2 DEF Max

(* A quotient of at most c divisors is at most c.                          *)
LEMMA Quotient ==
    ASSUME NEW a \in Nat, NEW d \in Nat \ {0}, NEW c \in Nat
    PROVE  /\ a \div d \in Nat
           /\ a <= d * c => a \div d <= c
           /\ (d * c) \div d = c
  <1> DEFINE q == a \div d
  <1>1. q \in Nat /\ d * q <= a /\ a < d * q + d
    OBVIOUS
  <1> HIDE DEF q
  <1>2. ASSUME a <= d * c PROVE q <= c
    <2> SUFFICES ASSUME c < q PROVE FALSE
      BY <1>1
    <2>1. d * (c + 1) <= d * q
      <3>1. q - (c + 1) \in Nat
        BY <1>1
      <3>2. d * (q - (c + 1)) \in Nat /\ d * q = d * (c + 1) + d * (q - (c + 1))
        BY <1>1, <3>1
      <3> QED BY <1>1, <3>2
    <2>2. d * (c + 1) = d * c + d /\ d * c \in Nat /\ d * q \in Nat
      BY <1>1
    <2> QED BY <1>1, <1>2, <2>1, <2>2
  <1>3. (d * c) \div d = c
    OBVIOUS
  <1> QED BY <1>1, <1>2, <1>3 DEF q

(* The quantity shown down to a row is what rests there or better.         *)
LEMMA CumulativeDepth ==
    ASSUME IInv, NEW side \in Sides, NEW price \in DOMAIN levels[side]
    PROVE  Cumulative(side, price) =
             SumFunctionOnSet([p \in Word |-> Depth(orders, side, p)],
                              {p \in Word : ~Better(side, price, p)}) % LevelMod
  <1> DEFINE depth == [p \in Word |-> Depth(orders, side, p)]
             S == {p \in Word : ~Better(side, price, p)}
             R == {p \in DOMAIN levels[side] : ~Better(side, price, p)}
  <1>1. DOMAIN levels[side] \subseteq Word
    BY DEF IInv, Consistent, LevelsType, IsMap
  <1>2. /\ IsFiniteSet(S) /\ IsFiniteSet(R) /\ R \in SUBSET S
    BY <1>1, WordFacts, FS_Subset
  <1>3. \A p \in S : depth[p] \in Int /\ At(levels[side], p) = depth[p]
    BY DepthType DEF IInv, Consistent, Matches
  <1>4. \A p \in S \ R : depth[p] = 0
    BY <1>3 DEF At
  <1>5. SumFunctionOnSet(depth, S) = SumFunctionOnSet(depth, R)
    BY <1>2, <1>3, <1>4, SumZeros
  <1>6. \A p \in R : depth[p] \in Int /\ levels[side][p] = depth[p]
    BY <1>2, <1>3 DEF At
  <1>7. SumFunctionOnSet(levels[side], R) = SumFunctionOnSet(depth, R)
    BY <1>2, <1>6, SumAgrees
  <1> HIDE DEF S, R, depth
  <1>8. Cumulative(side, price) = SumFunctionOnSet(depth, S) % LevelMod
    BY <1>5, <1>7, Zenon DEF Cumulative, R
  <1> QED BY <1>8 DEF depth, S

LEMMA CumulativeType ==
    ASSUME IInv, NEW side \in Sides, NEW price \in DOMAIN levels[side]
    PROVE  Cumulative(side, price) \in 0 .. LevelMod
  <1> DEFINE depth == [p \in Word |-> Depth(orders, side, p)]
             S == {p \in Word : ~Better(side, price, p)}
  <1>1. IsFiniteSet(S) /\ \A p \in S : depth[p] \in Int
    BY WordFacts, FS_Subset, DepthType
  <1>2. SumFunctionOnSet(depth, S) \in Int
    BY <1>1, SumType
  <1> HIDE DEF depth, S
  <1>3. Cumulative(side, price) = SumFunctionOnSet(depth, S) % LevelMod
    BY CumulativeDepth DEF depth, S
  <1> QED BY <1>2, <1>3, LevelModFacts

(* Every row shown is at most the greatest, which some row is unless all   *)
(* are below two.                                                          *)
LEMMA MaxCumulativeFacts ==
    ASSUME IInv, NEW rows
    PROVE  LET most == MaxCumulative(rows) IN
           /\ most \in Nat \ {0}
           /\ \A side \in Sides : \A p \in Rows(side, rows) : Cumulative(side, p) <= most
           /\ most > 1 => \E side \in Sides : \E p \in Rows(side, rows) :
                              Cumulative(side, p) = most
  <1> DEFINE T == {1} \cup UNION {{Cumulative(side, p) : p \in Rows(side, rows)} : side \in Sides}
             most == MaxCumulative(rows)
  <1>1. \A side \in Sides : \A p \in Rows(side, rows) : Cumulative(side, p) \in 0 .. LevelMod
    BY CumulativeType DEF Rows
  <1>2. T \in SUBSET (0 .. LevelMod) /\ T # {}
    <2>1. 1 \in 0 .. LevelMod
      BY LevelModFacts
    <2> QED BY <1>1, <2>1
  <1>3. most = Max(T)
    BY DEF MaxCumulative
  <1> HIDE DEF T, most
  <1>4. most \in T /\ \A x \in T : most >= x
    BY <1>2, <1>3, Greatest, LevelModFacts
  <1>5. 1 \in T /\ \A side \in Sides : \A p \in Rows(side, rows) : Cumulative(side, p) \in T
    BY DEF T
  <1>6. most \in Nat /\ most >= 1
    BY <1>2, <1>4, <1>5, LevelModFacts
  <1>7. \A side \in Sides : \A p \in Rows(side, rows) : Cumulative(side, p) <= most
    BY <1>1, <1>4, <1>5, <1>6, LevelModFacts
  <1>8. ASSUME most > 1
        PROVE  \E side \in Sides : \E p \in Rows(side, rows) : Cumulative(side, p) = most
    BY <1>4, <1>8 DEF T
  <1> QED BY <1>6, <1>7, <1>8 DEF most

(* A bar is at least one character and at most the field, which a row with *)
(* the greatest quantity fills if the product does not wrap.               *)
LEMMA BarFacts ==
    ASSUME IInv, NEW rows, NEW width \in Word, NEW side \in Sides, NEW p \in Rows(side, rows)
    PROVE  LET field == ChartWidth(width)  most == MaxCumulative(rows) IN
           /\ BarWidth(side, p, rows, width) \in 1 .. field
           /\ Cumulative(side, p) = most /\ most * field < LevelMod =>
                BarWidth(side, p, rows, width) = field
  <1> DEFINE field == ChartWidth(width)  most == MaxCumulative(rows)
             c == Cumulative(side, p)  scaled == (c * field) % LevelMod
  <1>1. field \in Nat \ {0}
    BY WordFacts DEF ChartWidth
  <1>2. c \in Nat /\ c <= most /\ most \in Nat \ {0}
    BY CumulativeType, MaxCumulativeFacts, LevelModFacts DEF Rows
  <1>3. BarWidth(side, p, rows, width) = Max({1, scaled \div most})
    BY DEF BarWidth
  <1> HIDE DEF field, most, c
  <1>4. c * field \in Nat /\ c * field <= most * field
    <2>1. most - c \in Nat
      BY <1>2
    <2>2. (most - c) * field \in Nat /\ c * field \in Nat
      BY <1>1, <1>2, <2>1
    <2>3. most * field = c * field + (most - c) * field
      BY <1>1, <1>2
    <2> QED BY <2>2, <2>3
  <1>5. \A x \in Nat : /\ x % LevelMod \in Nat /\ x % LevelMod <= x
                       /\ x < LevelMod => x % LevelMod = x
    BY LevelModFacts
  <1>6. scaled \in Nat /\ scaled <= most * field
    <2>1. scaled \in Nat /\ scaled <= c * field
      BY <1>4, <1>5
    <2>2. most * field \in Nat
      BY <1>1, <1>2
    <2> HIDE DEF scaled
    <2> QED BY <1>4, <2>1, <2>2
  <1>7. c = most /\ most * field < LevelMod => scaled = most * field
    BY <1>4, <1>5
  <1> HIDE DEF scaled
  <1>8. scaled \div most \in Nat /\ scaled \div most <= field
    BY <1>1, <1>2, <1>6, Quotient
  <1>9. scaled = most * field => scaled \div most = field
    BY <1>1, <1>2, <1>6, Quotient
  <1>10. Max({1, scaled \div most})
           = IF scaled \div most = 0 THEN 1 ELSE scaled \div most
    BY <1>8, MaxWithOne
  <1>11. Max({1, scaled \div most}) \in 1 .. field
    BY <1>1, <1>8, <1>10
  <1>12. scaled = most * field => Max({1, scaled \div most}) = field
    BY <1>1, <1>9, <1>10
  <1> QED BY <1>3, <1>7, <1>11, <1>12 DEF field, most, c

(* The chart (126-245) shows what rests at a row's price or better, every  *)
(* bar fits its field, and the longest fills it unless the product wraps.  *)
THEOREM ChartCorrect == Spec => []ChartFits
  <1>1. IInv => ChartFits
    <2> SUFFICES ASSUME IInv PROVE ChartFits
      OBVIOUS
    <2>1. \A side \in Sides : \A price \in DOMAIN levels[side] :
            Cumulative(side, price) =
              SumFunctionOnSet([p \in Word |-> Depth(orders, side, p)],
                               {p \in Word : ~Better(side, price, p)}) % LevelMod
      BY CumulativeDepth
    <2>2. ASSUME NEW rows \in Word, NEW width \in Word
          PROVE  LET field == ChartWidth(width)
                     most == MaxCumulative(rows)
                     bars == UNION {{BarWidth(side, price, rows, width) :
                                       price \in Rows(side, rows)} : side \in Sides}
                 IN /\ bars \subseteq 1 .. field
                    /\ bars # {} /\ most > 1 /\ most * field < LevelMod => field \in bars
      <3> DEFINE field == ChartWidth(width)
                 most == MaxCumulative(rows)
                 bar(side, p) == BarWidth(side, p, rows, width)
      <3>1. \A side \in Sides : \A p \in Rows(side, rows) : bar(side, p) \in 1 .. field
        BY BarFacts
      <3>2. ASSUME most > 1, most * field < LevelMod
            PROVE  \E side \in Sides : \E p \in Rows(side, rows) : bar(side, p) = field
        <4>1. PICK side \in Sides : \E p \in Rows(side, rows) : Cumulative(side, p) = most
          BY <3>2, MaxCumulativeFacts
        <4>2. PICK p \in Rows(side, rows) : Cumulative(side, p) = most
          BY <4>1
        <4>3. bar(side, p) = field
          BY <3>2, <4>2, BarFacts
        <4> QED BY <4>3
      <3> HIDE DEF field, most, bar
      <3> DEFINE bars == UNION {{bar(side, p) : p \in Rows(side, rows)} : side \in Sides}
      <3>3. bars \subseteq 1 .. field
        BY <3>1
      <3>4. most > 1 /\ most * field < LevelMod => field \in bars
        BY <3>2
      <3> QED BY <3>3, <3>4 DEF field, most, bar
    <2> QED BY <2>1, <2>2, Zenon DEF ChartFits
  <1> QED BY <1>1, Inductive, PTL

-----------------------------------------------------------------------------
(* The book seen one order id at a time.                                   *)

NoOrder == [side |-> "none"]
Rest == RestingOrder \cup {NoOrder}

(* What rests under an id.                                                 *)
Shown(os, id) == IF id \in DOMAIN os THEN os[id] ELSE NoOrder

(* What becomes of it when message m has been applied.                     *)
Reduced(o, qty) ==
    IF o = NoOrder \/ o.quantity <= qty THEN NoOrder
    ELSE [o EXCEPT !.quantity = @ - qty]

Moved(o, m, id) ==
    IF m.type \notin {"AddOrder", "CancelOrder", "Execute"} THEN o
    ELSE IF m.order_id # id THEN o
    ELSE IF m.type = "AddOrder"
         THEN [side |-> m.side, price |-> m.price, quantity |-> m.quantity]
    ELSE IF m.type = "Execute" THEN Reduced(o, m.exec_qty)
    ELSE IF m.quantity = 0 THEN NoOrder ELSE Reduced(o, m.quantity)

(* NoOrder is no resting order.                                            *)
LEMMA NoOrderFacts == NoOrder \notin RestingOrder
  BY DEF NoOrder, RestingOrder, SideByte, Sides

(* reduceOrder changes what rests under its own id, and nothing else.      *)
LEMMA ReduceMoves ==
    ASSUME IInv, NEW id \in DOMAIN orders, NEW qty \in Word,
           ReduceOrder(id, qty)
    PROVE  \A x \in Word :
               Shown(orders', x) = IF x = id THEN Reduced(Shown(orders, x), qty)
                                   ELSE Shown(orders, x)
  <1>1. /\ orders \in [DOMAIN orders -> RestingOrder]
        /\ orders[id].quantity \in Nat /\ qty \in Nat
        /\ orders[id] # NoOrder
    BY WordFacts, NoOrderFacts DEF IInv, Consistent, IsMap, RestingOrder
  <1>2. CASE orders[id].quantity <= qty
    <2>1. orders' = Erase(orders, id)
      BY <1>1, <1>2 DEF ReduceOrder
    <2> QED BY <1>1, <1>2, <2>1 DEF Erase, Shown, Reduced
  <1>3. CASE ~(orders[id].quantity <= qty)
    <2>1. orders' = [orders EXCEPT ![id].quantity = @ - qty]
      BY <1>1, <1>3 DEF ReduceOrder
    <2> QED BY <1>1, <1>3, <2>1 DEF Shown, Reduced
  <1> QED BY <1>2, <1>3

(* So does every apply(): it moves the order it names as Moved says.       *)
LEMMA ApplyMoves ==
    ASSUME IInv, NEW m \in Body, Apply(m)
    PROVE  \A id \in Word : Shown(orders', id) = Moved(Shown(orders, id), m, id)
  <1>1. CASE m.type = "AddOrder" /\ ApplyAddOrder(m)
    BY <1>1 DEF ApplyAddOrder, Put, Shown, Moved
  <1>2. CASE m.type = "CancelOrder" /\ ApplyCancelOrder(m)
    <2> DEFINE id == m.order_id
               qty == IF m.quantity = 0 THEN orders[id].quantity ELSE m.quantity
    <2>1. m \in CancelOrderMessage
      BY <1>2 DEF Body, Message, AddOrderMessage, CancelOrderMessage,
                  ExecuteMessage, QuoteMessage, NoMessage
    <2>2. id \in DOMAIN orders /\ ReduceOrder(id, qty)
      BY <1>2 DEF ApplyCancelOrder
    <2>3. orders[id].quantity \in Word /\ m.quantity \in Word
      BY <2>1, <2>2 DEF IInv, Consistent, IsMap, RestingOrder, CancelOrderMessage
    <2>4. \A x \in Word :
              Shown(orders', x) = IF x = id THEN Reduced(Shown(orders, x), qty)
                                  ELSE Shown(orders, x)
      <3>1. qty \in Word
        BY <2>3
      <3> HIDE DEF qty, id
      <3> QED BY <2>2, <3>1, ReduceMoves
    <2>5. Shown(orders, id) = orders[id] /\ orders[id].quantity <= orders[id].quantity
      <3>1. \A n \in Word : n <= n
        BY WordFacts
      <3> QED BY <2>2, <2>3, <3>1 DEF Shown
    <2>6. m.quantity = 0 => Reduced(Shown(orders, id), qty) = NoOrder
      BY <2>5 DEF Reduced
    <2> QED BY <1>2, <2>4, <2>6 DEF Moved
  <1>3. CASE m.type = "Execute" /\ ApplyExecute(m)
    <2>1. m \in ExecuteMessage
      BY <1>3 DEF Body, Message, AddOrderMessage, CancelOrderMessage,
                  ExecuteMessage, QuoteMessage, NoMessage
    <2>2. m.exec_qty \in Word
      BY <2>1 DEF ExecuteMessage
    <2> QED BY <1>3, <2>2, ReduceMoves DEF ApplyExecute, Moved
  <1>4. CASE m.type = "Quote" /\ ApplyQuote(m)
    BY <1>4 DEF ApplyQuote, Moved
  <1>5. CASE ~Accepts(m) /\ UNCHANGED bookVars
    BY <1>5 DEF bookVars, Accepts, Moved, Shown, Reduced
  <1> QED BY <1>1, <1>2, <1>3, <1>4, <1>5 DEF Apply

(* An order no other beats is at the best price, and its quantity shows.   *)
LEMMA TouchFacts ==
    ASSUME IInv, NEW side \in Sides, NEW id \in DOMAIN orders,
           orders[id].side = side, orders[id].quantity > 0,
           \A x \in DOMAIN orders : orders[x].side = side =>
               ~Better(side, orders[x].price, orders[id].price)
    PROVE  /\ BestLevel(side).price = orders[id].price
           /\ BestLevel(side).quantity \in Nat
           /\ BestLevel(side).quantity >= orders[id].quantity
  <1> DEFINE best == BestLevel(side)
             price == orders[id].price
             qty == orders[id].quantity
             live == {x \in DOMAIN orders :
                        orders[x].side = side /\ orders[x].quantity > 0}
  <1>1. /\ \A x \in DOMAIN orders : orders[x].price \in Nat
        /\ price \in Word /\ qty \in Nat /\ qty <= WordMod - 1
    BY WordFacts DEF IInv, Consistent, IsMap, RestingOrder
  <1>2. id \in live
    OBVIOUS
  <1>3. /\ ~Better(side, price, best.price)
        /\ best.quantity = NarrowQuantity(Depth(orders, side, best.price))
        /\ \E x \in DOMAIN orders :
             orders[x].side = side /\ orders[x].price = best.price
    BY <1>2, TopFacts
  <1>4. best.price = price
    <2>1. best.price \in Nat /\ ~Better(side, best.price, price)
      BY <1>1, <1>3
    <2> HIDE DEF best, price
    <2> QED BY <1>1, <1>3, <2>1, WordFacts DEF Better, Sides
  <1>5. Depth(orders, side, price) \in Nat /\ Depth(orders, side, price) >= qty
    <2>1. Depth(orders, side, price) = Depth(Erase(orders, id), side, price) + qty
      BY <1>1, DepthErase DEF IInv, Consistent, Contribution
    <2>2. Depth(Erase(orders, id), side, price) \in Nat
      BY DepthType
    <2> HIDE DEF price, qty
    <2> QED BY <1>1, <2>1, <2>2
  <1> HIDE DEF best, price, qty
  <1>6. best.quantity \in Nat /\ best.quantity >= qty
    BY <1>1, <1>3, <1>4, <1>5, WordAssumption DEF NarrowQuantity
  <1> QED BY <1>4, <1>6 DEF best, price, qty
-----------------------------------------------------------------------------
(* The incremental book implements the book that recounts its depth: every *)
(* step of OrderBook is a step of AbstractBook, or a stutter, when depth   *)
(* is read off the levels.                                                 *)

LevelDepth == [side \in Sides |-> [price \in Word |-> At(levels[side], price)]]

(* In a consistent book the depth read off the levels is the depth counted *)
(* from the orders.                                                        *)
LEMMA DepthAgrees ==
    ASSUME NEW os, NEW lv, Matches(os, lv)
    PROVE  [side \in Sides |-> [price \in Word |-> At(lv[side], price)]]
             = Abstract!DepthOf(os)
  <1>1. Abstract!Word = Word /\ Abstract!Sides = Sides
    BY DEF Abstract!Word, Word, Abstract!Sides, Sides
  <1>2. \A S : Abstract!Cardinality(S) = Cardinality(S)
    BY DEF Abstract!Cardinality, Cardinality
  <1>3. \A side, price : Abstract!Shares(os, side, price) = Shares(os, side, price)
    BY <1>1 DEF Abstract!Shares, Shares
  <1>4. \A side \in Sides, price \in Word :
            At(lv[side], price) = Abstract!Depth(os, side, price)
    BY <1>2, <1>3 DEF Matches, Abstract!Depth, Depth
  <1> QED BY <1>1, <1>4 DEF Abstract!DepthOf

(* reduceOrder is the abstract book's Leave.                               *)
LEMMA ReduceRefines ==
    ASSUME IInv, NEW id \in DOMAIN orders, NEW qty \in Word,
           ReduceOrder(id, qty)
    PROVE  Abstract!Leave(id, qty) /\ UNCHANGED last_quote
  <1>1. orders[id].quantity \in Nat /\ qty \in Nat
    BY WordFacts DEF IInv, Consistent, IsMap, RestingOrder
  <1>2. Abstract!Erase(orders, id) = Erase(orders, id)
    BY DEF Abstract!Erase, Erase
  <1>3. CASE orders[id].quantity <= qty
    BY <1>1, <1>2, <1>3 DEF ReduceOrder, Abstract!Leave
  <1>4. CASE ~(orders[id].quantity <= qty)
    <2>1. orders' = [orders EXCEPT ![id].quantity = @ - qty]
      BY <1>1, <1>4 DEF ReduceOrder
    <2> QED BY <1>4, <2>1 DEF Abstract!Leave, ReduceOrder
  <1> QED BY <1>3, <1>4

(* A cancel of all that rests is a cancel of any quantity as large.        *)
LEMMA CancelAllRefines ==
    ASSUME IInv, NEW id \in DOMAIN orders,
           ReduceOrder(id, orders[id].quantity)
    PROVE  Abstract!Leave(id, Abstract!All) /\ UNCHANGED last_quote
  <1>1. /\ orders[id].quantity \in Word /\ orders[id].quantity \in Nat
        /\ orders[id].quantity <= Abstract!All
    BY WordFacts DEF IInv, Consistent, IsMap, RestingOrder, Word, Abstract!All
  <1>2. orders' = Erase(orders, id) /\ UNCHANGED last_quote
    BY <1>1 DEF ReduceOrder
  <1> QED BY <1>1, <1>2 DEF Abstract!Leave, Abstract!Erase, Erase

(* Every apply() does to the abstract book what its message says.          *)
LEMMA ApplyRefines ==
    ASSUME IInv, NEW m \in Body, Apply(m)
    PROVE  Abstract!Obey(m)
  <1>1. CASE m.type = "AddOrder" /\ ApplyAddOrder(m)
    BY <1>1 DEF ApplyAddOrder, Abstract!Obey, Abstract!Enter, Abstract!Put, Put
  <1>2. CASE m.type = "CancelOrder" /\ ApplyCancelOrder(m)
    <2> DEFINE id == m.order_id
    <2>1. m \in CancelOrderMessage
      BY <1>2 DEF Body, Message, AddOrderMessage, CancelOrderMessage,
                  ExecuteMessage, QuoteMessage, NoMessage
    <2>2. m.quantity \in Word /\ id \in DOMAIN orders
      BY <1>2, <2>1 DEF CancelOrderMessage, ApplyCancelOrder
    <2>3. CASE m.quantity = 0
      <3>1. ReduceOrder(id, orders[id].quantity)
        BY <1>2, <2>3 DEF ApplyCancelOrder
      <3>2. Abstract!Leave(id, Abstract!All) /\ UNCHANGED last_quote
        BY <2>2, <3>1, CancelAllRefines
      <3> QED BY <1>2, <2>3, <3>2 DEF Abstract!Obey
    <2>4. CASE m.quantity # 0
      <3>1. ReduceOrder(id, m.quantity)
        BY <1>2, <2>4 DEF ApplyCancelOrder
      <3>2. Abstract!Leave(id, m.quantity) /\ UNCHANGED last_quote
        BY <2>2, <3>1, ReduceRefines
      <3> QED BY <1>2, <2>4, <3>2 DEF Abstract!Obey
    <2> QED BY <2>3, <2>4
  <1>3. CASE m.type = "Execute" /\ ApplyExecute(m)
    <2>1. m \in ExecuteMessage
      BY <1>3 DEF Body, Message, AddOrderMessage, CancelOrderMessage,
                  ExecuteMessage, QuoteMessage, NoMessage
    <2>2. m.exec_qty \in Word
      BY <2>1 DEF ExecuteMessage
    <2>3. Abstract!Leave(m.order_id, m.exec_qty) /\ UNCHANGED last_quote
      BY <1>3, <2>2, ReduceRefines DEF ApplyExecute
    <2> QED BY <1>3, <2>3 DEF Abstract!Obey
  <1>4. CASE m.type = "Quote" /\ ApplyQuote(m)
    BY <1>4 DEF ApplyQuote, Abstract!Obey
  <1>5. CASE ~Accepts(m) /\ UNCHANGED bookVars
    <2>1. m.type \in {"CancelOrder", "Execute"} => m.order_id \notin DOMAIN orders
      BY <1>5 DEF Accepts
    <2>2. m.type \in {"CancelOrder", "Execute", "none"}
      BY <1>5 DEF Accepts, Body, Message, AddOrderMessage, CancelOrderMessage,
                  ExecuteMessage, QuoteMessage, NoMessage
    <2> QED BY <1>5, <2>1, <2>2 DEF bookVars, Abstract!Obey, Abstract!Leave
  <1> QED BY <1>1, <1>2, <1>3, <1>4, <1>5 DEF Apply

(* The parser and the abstract book read the same message, or none, out of *)
(* the same bytes.                                                         *)
LEMMA SaidIsParsed ==
    /\ \A packet \in Packet :
          Abstract!Said([call |-> "packet", bytes |-> packet]) = ParsePacket(packet)
    /\ \A payload \in Payload :
          Abstract!Said([call |-> "message", bytes |-> payload]) = ParsePayload(payload)
  <1>1. \A m : Abstract!SizeOf(m) = SizeOf(m) /\ Abstract!SwapFields(m) = SwapFields(m)
    BY DEF Abstract!SizeOf, SizeOf, Abstract!SwapFields, SwapFields,
           Abstract!AddOrder, AddOrder, Abstract!CancelOrder, CancelOrder,
           Abstract!Execute, Execute, Abstract!Quote, Quote
  <1>2. \A n : Abstract!Bswap16(n) = Bswap16(n)
    BY DEF Abstract!Bswap16, Bswap16
  <1>3. Abstract!NoMessage = NoMessage /\ Abstract!LenPrefix = LenPrefix
    BY DEF Abstract!NoMessage, NoMessage, Abstract!LenPrefix, LenPrefix
  <1>4. SwapFields(NoMessage) = NoMessage
    BY DEF SwapFields, NoMessage
  <1>5. ASSUME NEW packet \in Packet
        PROVE  Abstract!Said([call |-> "packet", bytes |-> packet]) = ParsePacket(packet)
    <2> DEFINE n == Bswap16(packet.wire_len)
               body == packet.body
    <2>1. packet.size \in Nat /\ n \in Nat
      <3>1. packet.size \in Nat /\ packet.wire_len \in Nat
        <4>1. packet.size \in Nat /\ packet.wire_len \in HalfWord
          BY DEF Packet
        <4>2. \A k \in HalfWord : k \in Nat
          BY DEF HalfWord
        <4> QED BY <4>1, <4>2
      <3>2. \A k \in Nat : k % 256 \in Nat /\ k \div 256 \in Nat
        OBVIOUS
      <3>3. \A i, j \in Nat : i * 256 + j \in Nat
        OBVIOUS
      <3> QED BY <3>1, <3>2, <3>3 DEF Bswap16
    <2>2. ParsePacket(packet) =
            IF packet.size < LenPrefix \/ packet.size < LenPrefix + n THEN NoMessage
            ELSE SwapFields(IF n = SizeOf(body) THEN body ELSE NoMessage)
      BY DEF ParsePacket, ParsePayload
    <2>3. Abstract!Said([call |-> "packet", bytes |-> packet]) =
            IF n = SizeOf(body) /\ packet.size >= LenPrefix + SizeOf(body)
            THEN SwapFields(body) ELSE NoMessage
      BY <1>1, <1>2, <1>3 DEF Abstract!Said, Abstract!WellFramed
    <2> HIDE DEF n, body
    <2>4. CASE n = SizeOf(body)
      <3>1. packet.size >= LenPrefix + n <=>
              ~(packet.size < LenPrefix \/ packet.size < LenPrefix + n)
        BY <2>1 DEF LenPrefix
      <3> QED BY <2>2, <2>3, <2>4, <3>1
    <2>5. CASE n # SizeOf(body)
      BY <1>4, <2>2, <2>3, <2>5
    <2> QED BY <2>4, <2>5
  <1>6. ASSUME NEW payload \in Payload
        PROVE  Abstract!Said([call |-> "message", bytes |-> payload]) = ParsePayload(payload)
    BY <1>1, <1>3 DEF Abstract!Said, Abstract!WellSized, ParsePayload
  <1> QED BY <1>5, <1>6

(* SimpleOrderBook implements the abstract book, for every word size and   *)
(* every input: each call does to the orders what its bytes say, and what  *)
(* bestBid and bestAsk are read from is always the depth of the orders.    *)
THEOREM Refinement == Spec => ImplementsAbstractBook
  <1>1. Init => Abstract!Init
    <2> SUFFICES ASSUME Init
                 PROVE  Abstract!Init
      OBVIOUS
    <2>1. IInv
      BY EmptyConsistent DEF Init, EmptyBook, IInv
    <2>2. orders = Abstract!EmptyMap /\ last_quote = Abstract!NoMessage
      BY DEF Init, EmptyBook, EmptyMap, Abstract!EmptyMap, NoMessage,
             Abstract!NoMessage
    <2>3. LevelDepth = Abstract!DepthOf(orders)
      BY <2>1, DepthAgrees DEF IInv, Consistent, LevelDepth
    <2> QED BY <2>2, <2>3 DEF Abstract!Init, LevelDepth, Init, NoCall
  <1>2. IInv /\ IInv' /\ [Next]_vars =>
          [Abstract!Next]_<<orders, last_quote, LevelDepth, heard>>
    <2> SUFFICES ASSUME IInv, IInv', [Next]_vars
                 PROVE  [Abstract!Next]_<<orders, last_quote, LevelDepth, heard>>
      OBVIOUS
    <2>1. LevelDepth' = Abstract!DepthOf(orders')
      BY DepthAgrees DEF IInv, Consistent, LevelDepth
    <2>2. ASSUME NEW packet \in Packets, ApplyPacket(packet),
                 heard' = [call |-> "packet", bytes |-> packet]
          PROVE  Abstract!Next
      <3>1. Abstract!Obey(ParsePacket(packet))
        BY <2>2, ParseType, ApplyRefines, InputAssumption DEF ApplyPacket
      <3>2. Abstract!Said(heard') = ParsePacket(packet)
        BY <2>2, SaidIsParsed, InputAssumption
      <3> QED BY <2>1, <2>2, <3>1, <3>2 DEF Abstract!Next, LevelDepth
    <2>3. ASSUME NEW payload \in Payloads, ApplyMessage(payload),
                 heard' = [call |-> "message", bytes |-> payload]
          PROVE  Abstract!Next
      <3>1. Abstract!Obey(ParsePayload(payload))
        BY <2>3, ParseType, ApplyRefines, InputAssumption DEF ApplyMessage
      <3>2. Abstract!Said(heard') = ParsePayload(payload)
        BY <2>3, SaidIsParsed, InputAssumption
      <3> QED BY <2>1, <2>3, <3>1, <3>2 DEF Abstract!Next, LevelDepth
    <2>4. CASE Clear /\ heard' = ClearCall
      <3>1. Abstract!Reset
        BY <2>4 DEF Clear, Abstract!Reset, EmptyMap, Abstract!EmptyMap,
                    NoMessage, Abstract!NoMessage
      <3> QED BY <2>1, <2>4, <3>1 DEF Abstract!Next, LevelDepth, ClearCall
    <2>5. CASE UNCHANGED vars
      BY <2>5 DEF vars, LevelDepth
    <2> QED BY <2>2, <2>3, <2>4, <2>5 DEF Next
  <1> QED BY <1>1, <1>2, Inductive, PTL
          DEF Spec, ImplementsAbstractBook, Abstract!Spec, LevelDepth
=============================================================================
