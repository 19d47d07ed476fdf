----------------------------- MODULE Rig_proofs -----------------------------
(***************************************************************************)
(* Rig's safety properties for every number of packets and every size of   *)
(* the two rings and of the batches.  Fairness plays no part here; that    *)
(* the rig ends is left to model checking.                                 *)
(***************************************************************************)
EXTENDS Rig, TLAPS

(* What makes the two properties inductive: the exchange decides to send   *)
(* only below its total, and main() waits for the strategy only after the  *)
(* exchange.                                                               *)
SendsBelowTotal == exchange = "send" => sent < Total
JoinsInOrder == main \in {"join_strategy", "report"} => exchange = "done"

IInv ==
    /\ TypeOK
    /\ FramesAccounted
    /\ ReportIsFinal
    /\ SendsBelowTotal
    /\ JoinsInOrder

LEMMA InitIInv == Init => IInv
<1> SUFFICES ASSUME Init PROVE IInv
  OBVIOUS
<1>1. TypeOK
  <2>1. g_running \in BOOLEAN /\ listening \in BOOLEAN
    BY Zenon DEF Init
  <2>2. /\ sent \in 0 .. Total /\ n \in 0 .. Total /\ lost \in 0 .. Total
        /\ tx \in 0 .. TxRing /\ completed \in 0 .. TxRing
        /\ tx + completed <= TxRing
        /\ rx \in 0 .. RxBufs /\ bad \in 0 .. RxBufs /\ n_discards \in 0 .. RxBufs
        /\ rx + bad + n_discards <= RxBufs
    BY RigAssumption DEF Init
  <2>3. main = "start" /\ exchange = "new" /\ strategy = "new"
    BY DEF Init
  <2> QED BY <2>1, <2>2, <2>3 DEF TypeOK
<1>2. FramesAccounted
  BY DEF Init, FramesAccounted
<1>3. ReportIsFinal /\ SendsBelowTotal /\ JoinsInOrder
  BY DEF Init, ReportIsFinal, SendsBelowTotal, JoinsInOrder
<1> QED BY <1>1, <1>2, <1>3 DEF IInv

LEMMA MainStep == IInv /\ Main => IInv'
<1>1. ASSUME IInv, StartStrategy PROVE IInv'
  BY <1>1, RigAssumption
     DEF StartStrategy, IInv, TypeOK, FramesAccounted, ReportIsFinal,
         SendsBelowTotal, JoinsInOrder, counts, rxCounts
<1>2. ASSUME IInv, StartExchange PROVE IInv'
  BY <1>2, RigAssumption
     DEF StartExchange, IInv, TypeOK, FramesAccounted, ReportIsFinal,
         SendsBelowTotal, JoinsInOrder, counts, rxCounts
<1>3. ASSUME IInv, JoinExchange PROVE IInv'
  BY <1>3, RigAssumption
     DEF JoinExchange, IInv, TypeOK, FramesAccounted, ReportIsFinal,
         SendsBelowTotal, JoinsInOrder, counts, rxCounts
<1>4. ASSUME IInv, JoinStrategy PROVE IInv'
  BY <1>4, RigAssumption
     DEF JoinStrategy, IInv, TypeOK, FramesAccounted, ReportIsFinal,
         SendsBelowTotal, JoinsInOrder, counts, rxCounts
<1> QED BY <1>1, <1>2, <1>3, <1>4 DEF Main

LEMMA SigintStep == IInv /\ OnSigint => IInv'
BY RigAssumption
   DEF OnSigint, IInv, TypeOK, FramesAccounted, ReportIsFinal,
       SendsBelowTotal, JoinsInOrder, counts, rxCounts

LEMMA ExchangeStep == IInv /\ Exchange => IInv'
<1>1. ASSUME IInv, ExchangeConstruct PROVE IInv'
  BY <1>1, RigAssumption
     DEF ExchangeConstruct, IInv, TypeOK, FramesAccounted, ReportIsFinal,
         SendsBelowTotal, JoinsInOrder, counts, rxCounts
<1>2. ASSUME IInv, ExchangeCheck PROVE IInv'
  BY <1>2, RigAssumption
     DEF ExchangeCheck, More, IInv, TypeOK, FramesAccounted, ReportIsFinal,
         SendsBelowTotal, JoinsInOrder, rxCounts
<1>3. ASSUME IInv, ExchangeSend PROVE IInv'
  BY <1>3, RigAssumption
     DEF ExchangeSend, IInv, TypeOK, FramesAccounted, ReportIsFinal,
         SendsBelowTotal, JoinsInOrder, rxCounts
<1>4. ASSUME IInv, ExchangeReap PROVE IInv'
  BY <1>4, RigAssumption
     DEF ExchangeReap, Least, IInv, TypeOK, FramesAccounted, ReportIsFinal,
         SendsBelowTotal, JoinsInOrder, rxCounts
<1> QED BY <1>1, <1>2, <1>3, <1>4 DEF Exchange

(* A poll never counts past Total: what it takes has been sent.            *)
LEMMA StrategyStep == IInv /\ Strategy => IInv'
<1>1. ASSUME IInv, StrategyConstruct PROVE IInv'
  BY <1>1, RigAssumption
     DEF StrategyConstruct, IInv, TypeOK, FramesAccounted, ReportIsFinal,
         SendsBelowTotal, JoinsInOrder, counts, rxCounts
<1>2. ASSUME IInv, StrategyCheck PROVE IInv'
  <2>1. CASE g_running /\ n < Total
    BY <1>2, <2>1, RigAssumption
       DEF StrategyCheck, IInv, TypeOK, FramesAccounted, ReportIsFinal,
           SendsBelowTotal, JoinsInOrder
  <2>2. CASE ~(g_running /\ n < Total)
    <3>1. /\ strategy' = "done" /\ rx' = 0 /\ bad' = 0 /\ lost' = lost + rx + bad
          /\ UNCHANGED <<g_running, main, exchange, sent, n, n_discards, tx,
                         completed>>
      BY <1>2, <2>2 DEF StrategyCheck
    <3>2. listening' \in BOOLEAN
      BY <1>2, <2>2, Zenon DEF StrategyCheck
    <3>3. FramesAccounted' /\ lost' \in 0 .. Total
      BY <1>2, <3>1, RigAssumption DEF IInv, TypeOK, FramesAccounted
    <3>4. TypeOK'
      BY <1>2, <3>1, <3>2, <3>3, RigAssumption DEF IInv, TypeOK
    <3> QED
      BY <1>2, <3>1, <3>3, <3>4
         DEF IInv, ReportIsFinal, SendsBelowTotal, JoinsInOrder
  <2> QED BY <2>1, <2>2
<1>3. ASSUME IInv, StrategyPoll PROVE IInv'
  <2>1. PICK good \in 0 .. rx, discards \in 0 .. bad :
            /\ rx' = rx - good /\ n' = Least(Total, n + good)
            /\ bad' = bad - discards /\ n_discards' = n_discards + discards
            /\ lost' = lost + discards
    BY <1>3 DEF StrategyPoll
  <2>2. n' = n + good /\ n + good <= Total /\ lost + discards <= Total
    BY <1>3, <2>1, RigAssumption DEF Least, IInv, TypeOK, FramesAccounted
  <2> QED
    BY <1>3, <2>1, <2>2, RigAssumption
       DEF StrategyPoll, IInv, TypeOK, FramesAccounted, ReportIsFinal,
           SendsBelowTotal, JoinsInOrder
<1> QED BY <1>1, <1>2, <1>3 DEF Strategy

LEMMA NicStep == IInv /\ NicTransfer => IInv'
<1> SUFFICES ASSUME IInv, NicTransfer PROVE IInv'
  OBVIOUS
<1>1. CASE listening /\ rx + bad + n_discards < RxBufs
  <2>1. /\ tx > 0 /\ tx' = tx - 1 /\ completed' = completed + 1
        /\ UNCHANGED <<g_running, main, exchange, strategy, listening, sent, n,
                       n_discards, lost>>
    BY <1>1 DEF NicTransfer
  <2>2. CASE rx' = rx + 1 /\ bad' = bad
    BY <1>1, <2>1, <2>2, RigAssumption
       DEF IInv, TypeOK, FramesAccounted, ReportIsFinal, SendsBelowTotal,
           JoinsInOrder
  <2>3. CASE bad' = bad + 1 /\ rx' = rx
    BY <1>1, <2>1, <2>3, RigAssumption
       DEF IInv, TypeOK, FramesAccounted, ReportIsFinal, SendsBelowTotal,
           JoinsInOrder
  <2> QED BY <1>1, <2>2, <2>3 DEF NicTransfer
<1>2. CASE ~(listening /\ rx + bad + n_discards < RxBufs)
  BY <1>2, RigAssumption
     DEF NicTransfer, IInv, TypeOK, FramesAccounted, ReportIsFinal,
         SendsBelowTotal, JoinsInOrder
<1> QED BY <1>1, <1>2

(* The strengthened invariant holds in every reachable state.              *)
THEOREM Inductive == Spec => []IInv
<1>1. IInv /\ [Next]_vars => IInv'
  <2>1. CASE UNCHANGED vars
    BY <2>1 DEF vars, IInv, TypeOK, FramesAccounted, ReportIsFinal,
                SendsBelowTotal, JoinsInOrder
  <2> QED
    BY <2>1, MainStep, SigintStep, ExchangeStep, StrategyStep, NicStep DEF Next
<1> QED BY <1>1, InitIInv, PTL DEF Spec

(* No counter leaves its range: in particular tx + completed never exceeds *)
(* the descriptors there are, nor n or sent the total.                     *)
THEOREM TypeCorrect == Spec => []TypeOK
<1>1. IInv => TypeOK BY DEF IInv
<1> QED BY <1>1, Inductive, PTL

(* Every packet counted as sent is under way, received or lost, and every  *)
(* discard is one of the lost.                                             *)
THEOREM Accounted == Spec => []FramesAccounted
<1>1. IInv => FramesAccounted BY DEF IInv
<1> QED BY <1>1, Inductive, PTL

(* main() reports only what nobody writes any more.                        *)
THEOREM FinalReport == Spec => []ReportIsFinal
<1>1. IInv => ReportIsFinal BY DEF IInv
<1> QED BY <1>1, Inductive, PTL
=============================================================================
