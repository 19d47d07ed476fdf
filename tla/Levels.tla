------------------------------- MODULE Levels -------------------------------
(***************************************************************************)
(* Finite maps as functions: the std::map and std::unordered_map           *)
(* operations SimpleOrderBook uses on orders_, bids_ and asks_, and its    *)
(* two helpers on one side's price levels.                                 *)
(***************************************************************************)
EXTENDS MarketData, FiniteSets

Put(m, k, v) == [x \in DOMAIN m \cup {k} |-> IF x = k THEN v ELSE m[x]]
Erase(m, k) == [x \in DOMAIN m \ {k} |-> m[x]]
At(m, k) == IF k \in DOMAIN m THEN m[k] ELSE 0
EmptyMap == [x \in {} |-> 0]
IsMap(m, K, V) == DOMAIN m \subseteq K /\ m \in [DOMAIN m -> V]

(* levels[price] += quantity, in an unsigned integer of modulus mod.       *)
AddLevel(m, price, qty, mod) == Put(m, price, (At(m, price) + qty) % mod)

(* Mutant: an emptied level stays.                                         *)
SubtractLevelKeepsEmpty(m, price, qty) ==
    IF price \notin DOMAIN m THEN m
    ELSE IF m[price] < qty THEN Erase(m, price)
    ELSE [m EXCEPT ![price] = @ - qty]

(* subtractLevel: a level not above the quantity taken off it goes away.   *)
SubtractLevel(m, price, qty) ==
    IF price \notin DOMAIN m THEN m
    ELSE IF m[price] <= qty THEN Erase(m, price)
    ELSE [m EXCEPT ![price] = @ - qty]

(* RestingOrder, without its timestamp.                                    *)
RestingOrder == [side : SideByte, price : Word, quantity : Word]

(* What a price level has to count: the shares resting there, one element  *)
(* <<order_id, k>> for each unit of quantity of each order at that price.  *)
Shares(os, side, price) ==
    {share \in Word \X (1 .. WordMod - 1) :
        /\ share[1] \in DOMAIN os
        /\ os[share[1]].side = side
        /\ os[share[1]].price = price
        /\ share[2] <= os[share[1]].quantity}

Depth(os, side, price) == Cardinality(Shares(os, side, price))
=============================================================================
