---------------------------- MODULE Loopback_proofs ----------------------------
(***************************************************************************)
(* For every number of RX buffers, iterations and clock readings, a sample *)
(* of the loopback tool is made of one frame's times and of a fit that is  *)
(* due, the counters tally, and the program looks at the right buffer.     *)
(*                                                                         *)
(* The argument: one frame is under way at a time, in one of four places,  *)
(* and only while the program waits for it (Carried).                      *)
(***************************************************************************)
EXTENDS Loopback, FiniteSetTheorems, TLAPS

Total == Iters + Warmup
RxEvent == [type : {"RX", "RX_DISCARD", "other"}, frame : Frames]
Kinds == {"precise", "offset"}
ClockMap == [it : Int, points : Seq(Kinds)]
Row == [frame : Frames, t1 : Frames, t2 : Frames, t_mem : Frames, cm : ClockMap]

Types ==
    /\ TypeOK
    /\ rx_evs \in Seq(RxEvent)
    /\ samples \in Seq(Row) /\ csv \in Seq(Row)
    /\ points \in Seq(Kinds) /\ clockmap \in ClockMap

Awaiting == pc \in {"spin", "poll_rx", "express_rx", "future_poll"}
Running == Awaiting \/ pc \in {"transmit", "reap_tx", "derive"}
Calibrating == pc \in {"calibrate", "precise", "offset"}

(* Where the frame of this iteration is.                                   *)
FrameEvents == {i \in DOMAIN rx_evs : rx_evs[i].type # "other"}
Left == \E c \in BOOLEAN : tx_evs = <<[frame |-> Frame, ctpio |-> c]>>
AtOut ==
    /\ out = [frame |-> Frame] /\ flying = None /\ landed = None
    /\ FrameEvents = {} /\ tx_evs = <<>>
AtCable ==
    /\ out = None /\ landed = None /\ FrameEvents = {} /\ Left
    /\ \E poison \in BOOLEAN : flying = [frame |-> Frame, poison |-> poison]
AtHost ==
    /\ out = None /\ flying = None /\ FrameEvents = {} /\ Left
    /\ \E poison \in BOOLEAN : landed = [frame |-> Frame, poison |-> poison]
AtQueue ==
    /\ out = None /\ flying = None /\ landed = None /\ Left
    /\ \E i \in DOMAIN rx_evs : FrameEvents = {i} /\ rx_evs[i].frame = Frame
Nowhere ==
    out = None /\ flying = None /\ landed = None /\ FrameEvents = {}

Carried ==
    /\ Awaiting => AtOut \/ AtCable \/ AtHost \/ AtQueue
    /\ ~Awaiting => Nowhere
    /\ pc = "reap_tx" => Left
    /\ ~Awaiting /\ pc \notin {"reap_tx", "exit"} => tx_evs = <<>>
    /\ pc \in {"spin", "poll_rx"} => ~express
    /\ pc \in {"express_rx", "future_poll"} => express
    /\ Running => it < Total
    /\ pc = "poll_rx" => AtHost \/ AtQueue

(* What has been read of this iteration's frame is this frame's.           *)
OwnReadings ==
    /\ pc = "transmit" /\ ~express => mem[Slot] = 0
    /\ pc = "spin" => IF AtOut \/ AtCable THEN mem[Slot] = 0
                      ELSE mem[Slot] \in {0, Frame} /\ prefix[Slot] = Frame
    /\ pc = "poll_rx" => t_mem = Frame /\ prefix[Slot] = Frame
    /\ pc = "transmit" => t_mem = 0
    /\ pc \in {"express_rx", "future_poll"} => t_mem \in {0, Frame}
    /\ future \in {0, Frame}
    /\ ~Awaiting \/ ~express => future = 0
    /\ pc \in {"reap_tx", "derive"} /\ ~missed_future /\ ~poisoned =>
           t2 = Frame /\ t_mem = Frame
    /\ pc = "derive" => t1 = Frame

(* The buffers posted are the next ones in turn, one fewer while a frame   *)
(* is in one of them.                                                      *)
Buffered == IF landed # None \/ FrameEvents # {} THEN 1 ELSE 0
Rotation ==
    /\ rx_next = IF express THEN 0 ELSE IF pc \in {"reap_tx", "derive"} THEN it + 1 ELSE it
    /\ ~express /\ clockmap # Unfitted /\ pc \notin {"setup", "exit"} =>
         /\ Len(ring) = NRxBufs - Buffered
         /\ \A j \in 1 .. NRxBufs - Buffered :
              ring[j] = (rx_next + Buffered + (j - 1)) % NRxBufs

(* A fit that is due: of this stretch of iterations, of one kind of        *)
(* readings, and enough of them.                                           *)
GoodFit(cm) == Len(cm.points) >= MinFit /\ \E x \in Kinds : ToSet(cm.points) = {x}
Fitted ==
    /\ clockmap # Unfitted =>
         /\ GoodFit(clockmap)
         /\ it - clockmap.it \in 0 .. CalPeriod
         /\ clockmap.it >= 0 /\ clockmap.it % CalPeriod = 0
    /\ clockmap = Unfitted => it = 0 /\ (Calibrating \/ pc = "exit")
    /\ pc = "setup" => it = 0
    /\ Calibrating => it % CalPeriod = 0
    /\ Running => it - clockmap.it < CalPeriod

(* SamplesUnmixed, with fits that are good.                                *)
GoodSamples ==
    /\ pc # "done" => \A i \in DOMAIN samples : OwnTimes(samples[i])
    /\ \A i \in DOMAIN csv : OwnTimes(csv[i])
    /\ \A i \in DOMAIN samples :
         /\ samples[i].frame - 1 - samples[i].cm.it \in 0 .. CalPeriod - 1
         /\ GoodFit(samples[i].cm)

IInv ==
    /\ Types /\ Carried /\ OwnReadings /\ Rotation /\ Fitted /\ GoodSamples
    /\ CountsTally

-----------------------------------------------------------------------------
(* Remainders: the buffers are used in turn.                               *)
LEMMA ModUnique ==
    ASSUME NEW k \in Nat \ {0}, NEW x \in Int, NEW q \in Int, NEW r \in 0 .. k - 1,
           x = q * k + r
    PROVE x % k = r
  OBVIOUS

LEMMA ModSplit ==
    ASSUME NEW k \in Nat \ {0}, NEW x \in Int
    PROVE /\ (x % k) \in 0 .. k - 1
          /\ \E q \in Int : x = q * k + (x % k)
<1>1. x % k \in 0 .. k - 1
  OBVIOUS
<1>2. x = (x \div k) * k + (x % k) /\ x \div k \in Int
  OBVIOUS
<1> QED
  BY <1>1, <1>2

LEMMA ModShift ==
    ASSUME NEW k \in Nat \ {0}, NEW x \in Int
    PROVE (x + k) % k = x % k
<1>1. PICK q \in Int : x = q * k + (x % k)
  BY ModSplit
<1>2. x + k = (q + 1) * k + (x % k)
  BY <1>1
<1>3. x % k \in 0 .. k - 1 /\ q + 1 \in Int /\ x + k \in Int
  BY ModSplit
<1> QED
  BY <1>2, <1>3, ModUnique

LEMMA ModSmall ==
    ASSUME NEW k \in Nat \ {0}, NEW x \in 0 .. k - 1
    PROVE x % k = x
<1>1. x = 0 * k + x
  OBVIOUS
<1> QED
  BY <1>1, ModUnique

LEMMA ModApart ==
    ASSUME NEW k \in Nat \ {0}, NEW x \in Int, NEW j \in 1 .. k - 1
    PROVE (x + j) % k # x % k
<1>1. PICK q \in Int : x = q * k + (x % k)
  BY ModSplit
<1>2. x % k \in 0 .. k - 1
  BY ModSplit
<1>3. CASE (x % k) + j < k
  <2>1. x + j = q * k + ((x % k) + j) /\ (x % k) + j \in 0 .. k - 1
    BY <1>1, <1>2, <1>3
  <2>2. (x + j) % k = (x % k) + j
    BY <2>1, ModUnique, SMTT(30)
  <2> QED
    BY <2>2, <1>2
<1>4. CASE (x % k) + j >= k
  <2>1. x + j = (q + 1) * k + ((x % k) + j - k) /\ (x % k) + j - k \in 0 .. k - 1
    BY <1>1, <1>2, <1>4
  <2>2. q + 1 \in Int /\ x + j \in Int
    OBVIOUS
  <2>3. (x + j) % k = (x % k) + j - k
    BY <2>1, <2>2, ModUnique
  <2> QED
    BY <2>3, <1>2
<1> QED
  BY <1>2, <1>3, <1>4

-----------------------------------------------------------------------------
(* The events of a batch.                                                  *)
LEMMA Singletons ==
    ASSUME NEW i \in Int
    PROVE Max({i}) = i /\ Min({i}) = i /\ Cardinality({i}) = 1
  BY FS_Singleton DEF Max, Min

LEMMA NoEvent ==
    ASSUME FrameEvents = {}
    PROVE OfType("RX") = {} /\ OfType("RX_DISCARD") = {}
  BY DEF FrameEvents, OfType

LEMMA OneEvent ==
    ASSUME rx_evs \in Seq(RxEvent), NEW i \in DOMAIN rx_evs, FrameEvents = {i}
    PROVE \/ OfType("RX") = {i} /\ OfType("RX_DISCARD") = {}
          \/ OfType("RX") = {} /\ OfType("RX_DISCARD") = {i}
<1>1. rx_evs[i].type \in {"RX", "RX_DISCARD"}
  <2>1. i \in FrameEvents
    OBVIOUS
  <2>2. rx_evs[i].type # "other"
    BY <2>1 DEF FrameEvents
  <2>3. rx_evs[i] \in RxEvent
    OBVIOUS
  <2> QED
    BY <2>2, <2>3 DEF RxEvent
<1>2. \A j \in DOMAIN rx_evs : rx_evs[j].type # "other" => j = i
  BY DEF FrameEvents
<1>3. CASE rx_evs[i].type = "RX"
  <2>1. OfType("RX") = {i}
    BY <1>2, <1>3 DEF OfType
  <2>2. OfType("RX_DISCARD") = {}
    BY <1>2, <1>3 DEF OfType
  <2> QED
    BY <2>1, <2>2
<1>4. CASE rx_evs[i].type = "RX_DISCARD"
  <2>1. OfType("RX") = {}
    BY <1>2, <1>4 DEF OfType
  <2>2. OfType("RX_DISCARD") = {i}
    BY <1>2, <1>4 DEF OfType
  <2> QED
    BY <2>1, <2>2
<1> QED
  BY <1>1, <1>3, <1>4

LEMMA Emptied ==
    ASSUME rx_evs' = <<>>
    PROVE FrameEvents' = {}
  BY DEF FrameEvents

(* A new event is the only frame event when it is one and there was none.  *)
LEMMA EventAdded ==
    ASSUME rx_evs \in Seq(RxEvent), NEW e \in RxEvent, rx_evs' = Append(rx_evs, e)
    PROVE /\ rx_evs' \in Seq(RxEvent)
          /\ \A i \in DOMAIN rx_evs : i \in DOMAIN rx_evs' /\ rx_evs'[i] = rx_evs[i]
          /\ e.type = "other" => FrameEvents' = FrameEvents
          /\ e.type # "other" /\ FrameEvents = {} =>
               \E i \in DOMAIN rx_evs' : FrameEvents' = {i} /\ rx_evs'[i] = e
<1> DEFINE n == Len(rx_evs) + 1
<1>1. rx_evs' \in Seq(RxEvent) /\ DOMAIN rx_evs = 1 .. n - 1 /\ n \in Nat \ {0}
  OBVIOUS
<1>2. DOMAIN rx_evs' = 1 .. n /\ rx_evs'[n] = e
  OBVIOUS
<1>3. \A i \in 1 .. n - 1 : rx_evs'[i] = rx_evs[i]
  OBVIOUS
<1> HIDE DEF n
<1>4. ASSUME e.type = "other" PROVE FrameEvents' = FrameEvents
  BY <1>1, <1>2, <1>3, <1>4 DEF FrameEvents
<1>5. ASSUME e.type # "other", FrameEvents = {} PROVE FrameEvents' = {n}
  BY <1>1, <1>2, <1>3, <1>5 DEF FrameEvents
<1> QED
  BY <1>1, <1>2, <1>3, <1>4, <1>5

-----------------------------------------------------------------------------
(* What a step leaves alone.                                               *)
LEMMA SlotTyped ==
    ASSUME Types
    PROVE Slot \in Slots /\ rx_next \in Int /\ NRxBufs \in Nat \ {0}
<1>1. rx_next \in Int /\ NRxBufs \in Nat \ {0}
  BY LoopbackAssumption DEF Types, TypeOK, Frames
<1>2. rx_next % NRxBufs \in 0 .. NRxBufs - 1
  BY <1>1, ModSplit
<1> QED
  BY <1>1, <1>2 DEF Slot, Slots

LEMMA FrameTyped ==
    ASSUME Types
    PROVE /\ 0 \in Frames /\ it \in Nat
          /\ it < Total => Frame \in Frames /\ Frame # 0
<1>1. Iters \in Nat /\ Warmup \in Nat
  BY LoopbackAssumption
<1>2. it \in Frames
  BY DEF Types, TypeOK
<1> QED
  BY <1>1, <1>2 DEF Frames, Frame, Total

LEMMA KeepsCounts ==
    ASSUME CountsTally, UNCHANGED <<countVars, it>>
    PROVE CountsTally'
  BY DEF CountsTally, countVars

LEMMA KeepsSamples ==
    ASSUME GoodSamples, UNCHANGED <<samples, csv>>, pc # "done"
    PROVE GoodSamples'
  BY DEF GoodSamples, OwnTimes, GoodFit

LEMMA KeepsRotation ==
    ASSUME Rotation, UNCHANGED <<express, rx_next, it, clockmap, ring>>,
           Buffered' = Buffered,
           pc \in {"reap_tx", "derive"} <=> pc' \in {"reap_tx", "derive"},
           pc \in {"setup", "exit"} => pc' \in {"setup", "exit"}
    PROVE Rotation'
  BY DEF Rotation, Unfitted

LEMMA KeepsFit ==
    ASSUME Fitted, UNCHANGED <<it, clockmap>>,
           Calibrating' => Calibrating,
           Running' => Running,
           clockmap = Unfitted /\ pc # "exit" => Calibrating' \/ pc' = "exit",
           pc' = "setup" => pc = "setup",
           pc = "exit" => pc' = "exit"
    PROVE Fitted'
  BY DEF Fitted, GoodFit, Unfitted

(* No frame is sent, and none was under way.                               *)
LEMMA StaysIdle ==
    ASSUME Carried, UNCHANGED <<express, rx_evs, tx_evs, out, flying, landed>>,
           ~Awaiting, ~Awaiting', pc \notin {"reap_tx", "exit"}, pc' # "reap_tx",
           Running' => it' < Total
    PROVE Carried' /\ Buffered' = 0 /\ Buffered = 0
<1>1. Nowhere /\ tx_evs = <<>>
  BY DEF Carried
<1>2. Nowhere' /\ tx_evs' = <<>> /\ FrameEvents' = FrameEvents
  BY <1>1 DEF Nowhere, None, FrameEvents
<1>3. Carried'
  BY <1>2 DEF Carried, Awaiting
<1>4. Buffered' = 0 /\ Buffered = 0
  BY <1>1, <1>2 DEF Nowhere, Buffered, None
<1> QED
  BY <1>3, <1>4

LEMMA ReadsNothing ==
    ASSUME OwnReadings, UNCHANGED future, ~Awaiting, ~Running'
    PROVE OwnReadings'
<1>1. future = 0
  BY DEF OwnReadings
<1> QED
  BY <1>1 DEF OwnReadings, Running, Awaiting

-----------------------------------------------------------------------------
(* Calibration and set-up: no frame is under way.                          *)
LEMMA CalibrateTscStep ==
    ASSUME IInv, CalibrateTsc
    PROVE IInv'
<1> USE DEF IInv
<1>1. /\ pc = "calibrate" /\ pc' \in {"exit", "precise"}
      /\ UNCHANGED <<optVars, it, rx_next, timeVars, resultVars, mem, prefix, future, nicVars>>
  BY DEF CalibrateTsc
<1> USE <1>1 DEF optVars, timeVars, resultVars, countVars, calVars, nicVars
<1>2. Types'
  BY DEF Types, TypeOK
<1>3. Carried' /\ Buffered' = Buffered
  BY StaysIdle DEF Awaiting, Running
<1>4. OwnReadings'
  BY ReadsNothing DEF Awaiting, Running
<1>5. Rotation'
  BY <1>3, KeepsRotation
<1>6. Fitted'
  BY KeepsFit DEF Calibrating, Running, Awaiting
<1>7. GoodSamples' /\ CountsTally'
  BY KeepsSamples, KeepsCounts
<1> QED
  BY <1>2, <1>3, <1>4, <1>5, <1>6, <1>7

(* A new fit is due here, when the next step is taken from it.             *)
LEMMA NewFit ==
    ASSUME Types, Fitted, Calibrating, UNCHANGED it, NEW ps, TakeFit(ps),
           ps \in Seq(Kinds), \E x \in Kinds : \A i \in DOMAIN ps : ps[i] = x
    PROVE /\ Fitted' /\ clockmap' \in ClockMap
          /\ pc' \in {"setup", "arm", "exit"}
          /\ pc' = "arm" => clockmap # Unfitted /\ clockmap' # Unfitted
          /\ pc' = "exit" => UNCHANGED clockmap
<1>1. it \in Nat /\ MinFit \in Nat \ {0} /\ CalPeriod \in Nat \ {0}
  BY LoopbackAssumption DEF Types, TypeOK, Frames
<1>2. CASE Len(ps) < MinFit
  <2>1. pc' = "exit" /\ UNCHANGED clockmap
    BY <1>2 DEF TakeFit
  <2> QED
    BY <2>1, KeepsFit DEF Calibrating, Running, Awaiting, Types
<1>3. CASE ~(Len(ps) < MinFit)
  <2>1. /\ clockmap' = [it |-> it, points |-> ps]
        /\ pc' = IF clockmap = Unfitted THEN "setup" ELSE "arm"
    BY <1>3 DEF TakeFit
  <2>2. clockmap' \in ClockMap /\ clockmap' # Unfitted
    BY <1>1, <2>1 DEF ClockMap, Unfitted
  <2>3. Len(clockmap'.points) >= MinFit
    BY <1>1, <1>3, <2>1
  <2>4. \E x \in Kinds : ToSet(clockmap'.points) = {x}
    <3>1. PICK x \in Kinds : \A i \in DOMAIN ps : ps[i] = x
      OBVIOUS
    <3>2. 1 \in DOMAIN ps
      BY <1>1, <1>3
    <3>3. ToSet(ps) = {x}
      BY <3>1, <3>2 DEF ToSet
    <3> QED
      BY <3>3, <2>1
  <2>5. GoodFit(clockmap)'
    BY <2>3, <2>4 DEF GoodFit
  <2>6. it % CalPeriod = 0 /\ clockmap'.it = it /\ (clockmap = Unfitted => it = 0)
    BY <2>1 DEF Fitted
  <2>7. ~Calibrating' /\ ~Running'
    BY <2>1 DEF Calibrating, Running, Awaiting
  <2>8. Fitted'
    BY <1>1, <2>1, <2>2, <2>5, <2>6, <2>7 DEF Fitted
  <2> QED
    BY <2>1, <2>2, <2>8
<1> QED
  BY <1>2, <1>3

LEMMA Alike ==
    ASSUME NEW n \in Nat, NEW x \in Kinds, NEW ps, ps = [i \in 1 .. n |-> x]
    PROVE ps \in Seq(Kinds) /\ \A i \in DOMAIN ps : ps[i] = x
<1>1. [i \in 1 .. n |-> x] \in Seq(Kinds)
  OBVIOUS
<1> QED
  BY <1>1

LEMMA CalibratePreciseStep ==
    ASSUME IInv, CalibratePrecise
    PROVE IInv'
<1> USE DEF IInv
<1>1. PICK n \in 0 .. CalSamples :
        LET ps == [i \in 1 .. n |-> "precise"] IN
        /\ points' = ps
        /\ IF n < MinFit THEN pc' = "offset" /\ UNCHANGED clockmap
           ELSE TakeFit(ps)
  BY DEF CalibratePrecise
<1> DEFINE ps == [i \in 1 .. n |-> "precise"]
<1>2. /\ pc = "precise"
      /\ UNCHANGED <<optVars, it, rx_next, timeVars, countVars, samples, csv, mem, prefix,
                     future, nicVars>>
  BY DEF CalibratePrecise
<1>3. n \in Nat /\ ps \in Seq(Kinds) /\ \A i \in DOMAIN ps : ps[i] = "precise"
  <2>1. n \in Nat /\ "precise" \in Kinds
    BY LoopbackAssumption DEF Kinds
  <2> QED
    BY <2>1, Alike
<1>4. /\ Fitted' /\ clockmap' \in ClockMap
      /\ pc' \in {"offset", "setup", "arm", "exit"}
      /\ pc' = "arm" => clockmap # Unfitted /\ clockmap' # Unfitted
      /\ pc' \in {"exit", "offset"} => UNCHANGED clockmap
  <2>1. CASE n < MinFit
    <3>1. pc' = "offset" /\ UNCHANGED clockmap
      BY <1>1, <2>1
    <3>2. Fitted'
      BY <1>2, <3>1, KeepsFit DEF Calibrating, Running, Awaiting
    <3> QED
      BY <3>1, <3>2 DEF Types
  <2>2. CASE ~(n < MinFit)
    <3>1. TakeFit(ps) /\ Calibrating
      BY <1>1, <1>2, <2>2 DEF Calibrating
    <3>2. \E x \in Kinds : \A i \in DOMAIN ps : ps[i] = x
      BY <1>3 DEF Kinds
    <3> HIDE DEF ps
    <3> QED
      BY <3>1, <3>2, <1>2, <1>3, NewFit
  <2> QED
    BY <2>1, <2>2
<1>5. points' \in Seq(Kinds)
  BY <1>1, <1>3
<1> HIDE DEF ps
<1> USE <1>2, <1>4 DEF optVars, timeVars, countVars, nicVars
<1>6. Types'
  BY <1>5 DEF Types, TypeOK
<1>7. Carried' /\ Buffered' = Buffered /\ Buffered = 0
  BY StaysIdle DEF Awaiting, Running
<1>8. OwnReadings'
  BY ReadsNothing DEF Awaiting, Running
<1>9. Rotation'
  BY <1>7 DEF Rotation
<1>10. GoodSamples' /\ CountsTally'
  BY KeepsSamples, KeepsCounts
<1> QED
  BY <1>6, <1>7, <1>8, <1>9, <1>10

LEMMA CalibrateOffsetStep ==
    ASSUME IInv, CalibrateOffset
    PROVE IInv'
<1> USE DEF IInv
<1>1. /\ pc = "offset"
      /\ UNCHANGED <<optVars, it, rx_next, timeVars, countVars, samples, csv, mem, prefix,
                     future, nicVars>>
  BY DEF CalibrateOffset
<1>2. /\ Fitted' /\ clockmap' \in ClockMap /\ points' \in Seq(Kinds)
      /\ pc' \in {"setup", "arm", "exit"}
      /\ pc' = "arm" => clockmap # Unfitted /\ clockmap' # Unfitted
      /\ pc' = "exit" => UNCHANGED clockmap
  <2>1. CASE /\ points' = [i \in 1 .. CalSamples |-> "offset"]
             /\ TakeFit(points')
    <3> DEFINE ps == [i \in 1 .. CalSamples |-> "offset"]
    <3>1. ps \in Seq(Kinds) /\ \A i \in DOMAIN ps : ps[i] = "offset"
      <4>1. CalSamples \in Nat /\ "offset" \in Kinds
        BY LoopbackAssumption DEF Kinds
      <4> QED
        BY <4>1, Alike
    <3>2. points' = ps /\ TakeFit(ps) /\ Calibrating
      BY <1>1, <2>1 DEF Calibrating
    <3>3. \E x \in Kinds : \A i \in DOMAIN ps : ps[i] = x
      BY <3>1 DEF Kinds
    <3> HIDE DEF ps
    <3> QED
      BY <1>1, <3>1, <3>2, <3>3, NewFit
  <2>2. CASE pc' = "exit" /\ UNCHANGED calVars
    <3>1. Fitted'
      BY <1>1, <2>2, KeepsFit DEF Calibrating, Running, Awaiting, calVars
    <3> QED
      BY <2>2, <3>1 DEF Types, calVars
  <2> QED
    BY <2>1, <2>2 DEF CalibrateOffset
<1> USE <1>1, <1>2 DEF optVars, timeVars, countVars, nicVars
<1>6. Types'
  BY DEF Types, TypeOK
<1>7. Carried' /\ Buffered' = Buffered /\ Buffered = 0
  BY StaysIdle DEF Awaiting, Running
<1>8. OwnReadings'
  BY ReadsNothing DEF Awaiting, Running
<1>9. Rotation'
  BY <1>7 DEF Rotation
<1>10. GoodSamples' /\ CountsTally'
  BY KeepsSamples, KeepsCounts
<1> QED
  BY <1>6, <1>7, <1>8, <1>9, <1>10

LEMMA SetupStep ==
    ASSUME IInv, Setup
    PROVE IInv'
<1> USE DEF IInv
<1>1. /\ pc = "setup" /\ pc' \in {"arm", "exit"}
      /\ pc' = "arm" =>
           ring' = IF express THEN <<>> ELSE [i \in 1 .. NRxBufs |-> i - 1]
      /\ pc' = "exit" => UNCHANGED ring
      /\ UNCHANGED <<optVars, it, rx_next, timeVars, resultVars, mem, prefix, future,
                     rx_evs, tx_evs, out, flying, landed, house>>
  BY DEF Setup
<1> USE <1>1 DEF optVars, timeVars, resultVars, countVars, calVars
<1>2. NRxBufs \in Nat \ {0}
  BY LoopbackAssumption
<1> DEFINE posted == [i \in 1 .. NRxBufs |-> i - 1]
<1>3. /\ posted \in Seq(Slots) /\ Len(posted) = NRxBufs
      /\ \A j \in 1 .. NRxBufs : posted[j] = j - 1
  <2>1. posted \in [1 .. NRxBufs -> Slots]
    BY <1>2 DEF Slots
  <2> QED
    BY <1>2, <2>1
<1>4. pc' = "arm" => ring' = IF express THEN <<>> ELSE posted
  OBVIOUS
<1> HIDE DEF posted
<1>5. ring' \in Seq(Slots)
  <2>1. ring \in Seq(Slots) /\ <<>> \in Seq(Slots)
    BY DEF Types, TypeOK
  <2>2. CASE pc' = "arm"
    BY <2>1, <2>2, <1>3, <1>4
  <2>3. CASE pc' = "exit"
    BY <2>1, <2>3
  <2> QED
    BY <2>2, <2>3
<1>6. Types'
  BY <1>5 DEF Types, TypeOK
<1>7. Carried' /\ Buffered' = 0
  BY StaysIdle DEF Awaiting, Running
<1>8. OwnReadings'
  BY ReadsNothing DEF Awaiting, Running
<1>9. Fitted'
  BY KeepsFit DEF Calibrating, Running, Awaiting, Fitted
<1>10. Rotation'
  <2>1. it = 0
    BY DEF Fitted
  <2>2. rx_next' = 0
    BY <2>1 DEF Rotation
  <2>3. ASSUME pc' = "arm", ~express
        PROVE /\ Len(ring') = NRxBufs - 0
              /\ \A j \in 1 .. NRxBufs - 0 : ring'[j] = (0 + 0 + (j - 1)) % NRxBufs
    <3>1. Len(ring') = NRxBufs /\ \A j \in 1 .. NRxBufs : ring'[j] = j - 1
      BY <2>3, <1>3, <1>4
    <3>2. \A j \in 1 .. NRxBufs : j - 1 \in 0 .. NRxBufs - 1
      BY <1>2
    <3>3. \A j \in 1 .. NRxBufs : (j - 1) % NRxBufs = j - 1
      BY <1>2, <3>2, ModSmall
    <3> QED
      BY <1>2, <3>1, <3>3
  <2> QED
    BY <1>7, <2>1, <2>2, <2>3 DEF Rotation
<1>11. GoodSamples' /\ CountsTally'
  BY KeepsSamples, KeepsCounts
<1> QED
  BY <1>6, <1>7, <1>8, <1>9, <1>10, <1>11

-----------------------------------------------------------------------------
(* The measuring loop, one iteration.                                      *)
LEMMA FitAtArm ==
    ASSUME Types, Fitted, pc = "arm"
    PROVE /\ CalibrateDue => it % CalPeriod = 0
          /\ ~CalibrateDue /\ it < Total => it - clockmap.it < CalPeriod
<1>1. /\ it \in Nat /\ CalPeriod \in Nat \ {0} /\ clockmap # Unfitted
      /\ clockmap.it \in Int /\ it - clockmap.it \in 0 .. CalPeriod
      /\ clockmap.it >= 0 /\ clockmap.it % CalPeriod = 0
  BY LoopbackAssumption
     DEF Types, TypeOK, Frames, Fitted, ClockMap, Calibrating
<1>2. ASSUME ~CalibrateDue, it < Total, it - clockmap.it >= CalPeriod PROVE FALSE
  <2>1. it = clockmap.it + CalPeriod
    BY <1>1, <1>2
  <2>2. it % CalPeriod = 0
    BY <1>1, <2>1, ModShift
  <2> QED
    BY <1>1, <1>2, <2>1, <2>2 DEF CalibrateDue, Total
<1>3. CalibrateDue => it % CalPeriod = 0
  BY DEF CalibrateDue
<1> QED
  BY <1>1, <1>2, <1>3

LEMMA RecalibrateStep ==
    ASSUME IInv, Recalibrate
    PROVE IInv'
<1> USE DEF IInv
<1>1. /\ pc = "arm" /\ pc' = "calibrate" /\ CalibrateDue
      /\ UNCHANGED <<optVars, it, rx_next, timeVars, resultVars, mem, prefix, future, nicVars>>
  BY DEF Recalibrate
<1> USE <1>1 DEF optVars, timeVars, resultVars, countVars, calVars, nicVars
<1>2. Types'
  BY DEF Types, TypeOK
<1>3. Carried' /\ Buffered' = Buffered
  BY StaysIdle DEF Awaiting, Running
<1>4. OwnReadings'
  BY ReadsNothing DEF Awaiting, Running
<1>5. Rotation'
  BY <1>3, KeepsRotation
<1>6. Fitted'
  BY FitAtArm DEF Fitted, GoodFit, Unfitted, Calibrating, Running, Awaiting
<1>7. GoodSamples' /\ CountsTally'
  BY KeepsSamples, KeepsCounts
<1> QED
  BY <1>2, <1>3, <1>4, <1>5, <1>6, <1>7

LEMMA ArmStep ==
    ASSUME IInv, Arm
    PROVE IInv'
<1> USE DEF IInv
<1>1. /\ pc = "arm" /\ ~CalibrateDue
      /\ pc' = IF it < Total THEN "transmit" ELSE "csv"
      /\ mem' = IF it < Total /\ ~express THEN Armed ELSE mem
      /\ t_mem' = 0 /\ t2' = 0 /\ t1' = 0 /\ tx_ctpio' = FALSE
      /\ missed_future' = FALSE /\ poisoned' = FALSE
      /\ UNCHANGED <<optVars, it, rx_next, resultVars, prefix, future, nicVars>>
  BY DEF Arm, Total
<1> USE <1>1 DEF optVars, resultVars, countVars, calVars, nicVars
<1>2. 0 \in Frames /\ Slot \in Slots /\ mem \in [Slots -> Frames]
  BY SlotTyped, FrameTyped DEF Types, TypeOK
<1>3. mem' \in [Slots -> Frames] /\ (it < Total /\ ~express => mem'[Slot] = 0)
  BY <1>2 DEF Armed
<1>4. Types'
  BY <1>2, <1>3 DEF Types, TypeOK
<1>5. Carried' /\ Buffered' = Buffered
  BY StaysIdle DEF Awaiting, Running
<1>6. OwnReadings'
  BY <1>3 DEF OwnReadings, Awaiting, Slot
<1>7. Rotation'
  BY <1>5, KeepsRotation
<1>8. Fitted'
  BY FitAtArm DEF Fitted, GoodFit, Unfitted, Calibrating, Running, Awaiting
<1>9. GoodSamples' /\ CountsTally'
  BY KeepsSamples, KeepsCounts
<1> QED
  BY <1>4, <1>5, <1>6, <1>7, <1>8, <1>9

LEMMA TransmitStep ==
    ASSUME IInv, Transmit
    PROVE IInv'
<1> USE DEF IInv
<1>1. /\ pc = "transmit" /\ out' = [frame |-> Frame]
      /\ pc' = IF express THEN "express_rx" ELSE "spin"
      /\ UNCHANGED <<optVars, it, rx_next, timeVars, resultVars, mem, prefix, future,
                     ring, rx_evs, tx_evs, flying, landed, house>>
  BY DEF Transmit
<1> USE <1>1 DEF optVars, timeVars, resultVars, countVars, calVars
<1>2. Types'
  BY DEF Types, TypeOK
<1>3. Nowhere /\ tx_evs = <<>> /\ it < Total /\ FrameEvents' = FrameEvents
  BY DEF Carried, Awaiting, Running, FrameEvents
<1>4. AtOut'
  BY <1>3 DEF AtOut, Nowhere, Frame, None
<1>5. Carried'
  BY <1>3, <1>4 DEF Carried, Awaiting, Running
<1>6. Buffered' = Buffered
  BY <1>3 DEF Buffered, None
<1>7. OwnReadings'
  BY <1>4 DEF OwnReadings, Awaiting, Slot
<1>8. Rotation'
  BY <1>6, KeepsRotation
<1>9. Fitted'
  BY KeepsFit, <1>3 DEF Calibrating, Running, Awaiting, Fitted
<1>10. GoodSamples' /\ CountsTally'
  BY KeepsSamples, KeepsCounts
<1> QED
  BY <1>2, <1>5, <1>7, <1>8, <1>9, <1>10

LEMMA SpinStep ==
    ASSUME IInv, Spin
    PROVE IInv'
<1> USE DEF IInv
<1>1. /\ pc = "spin" /\ mem[Slot] # 0 /\ t_mem' = mem[Slot] /\ pc' = "poll_rx"
      /\ UNCHANGED <<optVars, it, rx_next, t2, t1, tx_ctpio, missed_future,
                     poisoned, resultVars, mem, prefix, future, nicVars>>
  BY DEF Spin
<1> USE <1>1 DEF optVars, resultVars, countVars, calVars, nicVars
<1>2. mem[Slot] \in Frames
  BY SlotTyped DEF Types, TypeOK
<1>3. Types'
  BY <1>2 DEF Types, TypeOK
<1>4. /\ AtHost \/ AtQueue
      /\ mem[Slot] = Frame /\ prefix[Slot] = Frame
  BY DEF Carried, Awaiting, OwnReadings
<1>5. AtHost' \/ AtQueue'
  BY <1>4 DEF AtHost, AtQueue, Left, Frame, FrameEvents, None
<1>6. Carried'
  BY <1>5 DEF Carried, Awaiting, Running
<1>7. OwnReadings'
  BY <1>4 DEF OwnReadings, Awaiting, Frame, Slot
<1>8. Rotation'
  <2>1. Buffered' = Buffered
    BY DEF Buffered, FrameEvents, None
  <2> QED
    BY <2>1, KeepsRotation
<1>9. Fitted'
  BY KeepsFit DEF Calibrating, Running, Awaiting, Fitted
<1>10. GoodSamples' /\ CountsTally'
  BY KeepsSamples, KeepsCounts
<1> QED
  BY <1>3, <1>6, <1>7, <1>8, <1>9, <1>10

LEMMA PollRxStep ==
    ASSUME IInv, PollRx
    PROVE IInv'
<1> USE DEF IInv
<1> DEFINE rxs == OfType("RX")
<1>1. /\ pc = "poll_rx" /\ rx_evs' = <<>>
      /\ UNCHANGED <<optVars, it, t_mem, t1, tx_ctpio, missed_future, poisoned,
                     resultVars, mem, prefix, future, tx_evs, out, flying, landed, house>>
  BY DEF PollRx
<1> USE <1>1 DEF optVars, resultVars, countVars, calVars
<1>2. /\ ~express /\ it < Total /\ (AtHost \/ AtQueue) /\ t_mem = Frame /\ future = 0
      /\ prefix[Slot] = Frame
  BY DEF Carried, OwnReadings, Awaiting, Running
<1>3. FrameEvents' = {}
  BY Emptied
<1>5. CASE OfType("RX_DISCARD") # {}
  <2>1. pc' = "exit" /\ UNCHANGED <<t2, ring, rx_next>>
    BY <1>5 DEF PollRx
  <2>2. AtQueue
    BY <1>2, <1>5, NoEvent DEF AtHost
  <2>3. Types'
    BY <2>1 DEF Types, TypeOK
  <2>4. Carried'
    BY <1>3, <2>1, <2>2 DEF Carried, Awaiting, Running, Nowhere, AtQueue, None
  <2>5. OwnReadings'
    BY <1>2, <2>1 DEF OwnReadings, Awaiting, Running
  <2>6. Rotation'
    BY <2>1 DEF Rotation
  <2>7. Fitted'
    BY <2>1, KeepsFit DEF Calibrating, Running, Awaiting
  <2>8. GoodSamples' /\ CountsTally'
    BY KeepsSamples, KeepsCounts
  <2> QED
    BY <2>3, <2>4, <2>5, <2>6, <2>7, <2>8
<1>6. CASE OfType("RX_DISCARD") = {} /\ rxs = {}
  <2>1. AtHost
    <3>1. ASSUME AtQueue PROVE FALSE
      <4>1. PICK i \in DOMAIN rx_evs : FrameEvents = {i}
        BY <3>1 DEF AtQueue
      <4> QED
        BY <4>1, <1>6, OneEvent DEF Types
    <3> QED
      BY <1>2, <3>1
  <2>2. UNCHANGED <<t2, rx_next, pc>> /\ ring' = ring
    <3>1. /\ t2' = t2 /\ pc' = pc /\ rx_next' = NextRx({})
          /\ ring' = ring \o [i \in 1 .. Cardinality({}) |-> Slot]
      BY <1>6 DEF PollRx
    <3>2. Cardinality({}) = 0
      BY FS_EmptySet
    <3>3. rx_next' = rx_next
      BY <3>1, <3>2, SlotTyped DEF NextRx
    <3>4. ring' = ring
      <4>1. [i \in 1 .. 0 |-> Slot] = <<>>
        OBVIOUS
      <4> QED
        BY <3>1, <3>2, <4>1 DEF Types, TypeOK
    <3> QED
      BY <3>1, <3>3, <3>4
  <2>3. Types'
    BY <2>2 DEF Types, TypeOK
  <2>4. AtHost'
    BY <1>3, <2>1 DEF AtHost, Left, Frame, None
  <2>5. Carried'
    BY <2>2, <2>4 DEF Carried, Awaiting, Running
  <2>6. OwnReadings'
    BY <2>2 DEF OwnReadings, Awaiting, Frame, Slot
  <2>7. Buffered' = Buffered
    BY <1>3, <2>1 DEF Buffered, AtHost
  <2>8. Rotation'
    BY <2>2, <2>7, KeepsRotation
  <2>9. Fitted'
    BY <2>2, KeepsFit DEF Calibrating, Running, Awaiting, Fitted
  <2>10. GoodSamples' /\ CountsTally'
    BY KeepsSamples, KeepsCounts
  <2> QED
    BY <2>3, <2>5, <2>6, <2>8, <2>9, <2>10
<1>7. CASE OfType("RX_DISCARD") = {} /\ rxs # {}
  <2>1. AtQueue
    BY <1>2, <1>7, NoEvent DEF AtHost
  <2>2. PICK i \in DOMAIN rx_evs : FrameEvents = {i} /\ rx_evs[i].frame = Frame
    BY <2>1 DEF AtQueue
  <2>3. rxs = {i}
    BY <1>7, <2>2, OneEvent DEF Types
  <2>4. Max(rxs) = i /\ Cardinality(rxs) = 1
    <3>1. i \in Int
      BY DEF Types
    <3> QED
      BY <2>3, <3>1, Singletons
  <2>5. /\ t2' = Frame /\ pc' = "reap_tx" /\ rx_next' = rx_next + 1
        /\ ring' = ring \o [k \in 1 .. 1 |-> Slot]
    <3>1. /\ t2' = prefix[Slot] /\ pc' = "reap_tx"
          /\ rx_next' = rx_next + Cardinality(rxs)
          /\ ring' = ring \o [k \in 1 .. Cardinality(rxs) |-> Slot]
      BY <1>7 DEF PollRx, NextRx
    <3> QED
      BY <1>2, <2>4, <3>1
  <2> HIDE DEF rxs
  <2>6. ring' = Append(ring, Slot)
    <3>1. [k \in 1 .. 1 |-> Slot] = <<Slot>>
      OBVIOUS
    <3> QED
      BY <2>5, <3>1 DEF Types, TypeOK
  <2>7. rx_next = it
    BY <1>2 DEF Rotation
  <2>8. Types'
    <3>1. ring' \in Seq(Slots)
      BY <2>6, SlotTyped DEF Types, TypeOK
    <3>2. rx_next' \in Frames /\ t2' \in Frames
      BY <1>2, <2>5, <2>7, FrameTyped DEF Frame
    <3>3. <<>> \in Seq(RxEvent)
      OBVIOUS
    <3> QED
      BY <2>5, <3>1, <3>2, <3>3 DEF Types, TypeOK
  <2>9. Carried'
    BY <1>2, <1>3, <2>1, <2>5
       DEF Carried, Awaiting, Running, Nowhere, AtQueue, Left, Frame, None
  <2>10. OwnReadings'
    BY <1>2, <2>5 DEF OwnReadings, Awaiting, Running, Frame
  <2>11. Rotation'
    <3>1. Buffered = 1 /\ Buffered' = 0
      BY <1>3, <2>1, <2>2 DEF Buffered, AtQueue, None
    <3>2. clockmap # Unfitted
      BY DEF Fitted, Calibrating
    <3> DEFINE n == NRxBufs
    <3>3. /\ n \in Nat \ {0} /\ rx_next \in Nat /\ Len(ring) = n - 1
          /\ \A j \in 1 .. n - 1 : ring[j] = (rx_next + 1 + (j - 1)) % n
      BY <1>2, <2>7, <3>1, <3>2, SlotTyped, FrameTyped DEF Rotation
    <3>4. /\ Len(ring') = n /\ ring'[n] = Slot
          /\ \A j \in 1 .. n - 1 : ring'[j] = ring[j]
      BY <2>6, <3>3, SlotTyped DEF Types, TypeOK
    <3>5. Slot = (rx_next + n) % n
      <4>1. n \in Nat \ {0} /\ rx_next \in Int
        BY <3>3
      <4>2. (rx_next + n) % n = rx_next % n
        BY <4>1, ModShift
      <4> QED
        BY <4>2 DEF Slot
    <3>6. \A j \in 1 .. n : ring'[j] = (rx_next + 1 + 0 + (j - 1)) % n
      <4>1. TAKE j \in 1 .. n
      <4>2. CASE j = n
        <5>1. rx_next + 1 + 0 + (j - 1) = rx_next + n
          BY <3>3, <4>2
        <5> QED
          BY <5>1, <4>2, <3>4, <3>5
      <4>3. CASE j # n
        <5>1. j \in 1 .. n - 1
          BY <3>3, <4>3
        <5>2. rx_next + 1 + 0 + (j - 1) = rx_next + 1 + (j - 1)
          BY <3>3
        <5> QED
          BY <5>1, <5>2, <3>3, <3>4
      <4> QED
        BY <4>2, <4>3
    <3>7. n - 0 = n
      BY <3>3
    <3> QED
      BY <1>2, <2>5, <2>7, <3>1, <3>4, <3>6, <3>7 DEF Rotation
  <2>12. Fitted'
    BY <2>5, KeepsFit DEF Calibrating, Running, Awaiting, Fitted
  <2>13. GoodSamples' /\ CountsTally'
    BY KeepsSamples, KeepsCounts
  <2> QED
    BY <2>8, <2>9, <2>10, <2>11, <2>12, <2>13
<1> QED
  BY <1>5, <1>6, <1>7

LEMMA PeekStep ==
    ASSUME IInv, Peek
    PROVE IInv'
<1> USE DEF IInv
<1>1. /\ pc = "express_rx" /\ future # 0 /\ t_mem' = future /\ pc' = "future_poll"
      /\ UNCHANGED <<optVars, it, rx_next, t2, t1, tx_ctpio, missed_future,
                     poisoned, resultVars, mem, prefix, future, nicVars>>
  BY DEF Peek
<1> USE <1>1 DEF optVars, resultVars, countVars, calVars, nicVars
<1>2. future = Frame /\ express
  BY DEF OwnReadings, Carried
<1>3. Types'
  BY DEF Types, TypeOK
<1>4. AtOut' = AtOut /\ AtCable' = AtCable /\ AtHost' = AtHost /\ AtQueue' = AtQueue
  BY DEF AtOut, AtCable, AtHost, AtQueue, Left, Frame, FrameEvents, None
<1>5. Carried'
  BY <1>2, <1>4 DEF Carried, Awaiting, Running
<1>6. OwnReadings'
  BY <1>2 DEF OwnReadings, Awaiting, Frame
<1>7. Rotation'
  <2>1. Buffered' = Buffered
    BY DEF Buffered, FrameEvents, None
  <2> QED
    BY <2>1, KeepsRotation
<1>8. Fitted'
  BY KeepsFit DEF Calibrating, Running, Awaiting, Fitted
<1>9. GoodSamples' /\ CountsTally'
  BY KeepsSamples, KeepsCounts
<1> QED
  BY <1>3, <1>5, <1>6, <1>7, <1>8, <1>9

LEMMA ExpressEventsStep ==
    ASSUME IInv, ExpressEvents
    PROVE IInv'
<1> USE DEF IInv
<1> DEFINE rxs == OfType("RX")
           arrived == rx_evs[Min(rxs)].frame
           discarded == OfType("RX_DISCARD") # {}
<1>1. /\ pc \in {"express_rx", "future_poll"} /\ rx_evs' = <<>>
      /\ UNCHANGED <<optVars, it, rx_next, t1, tx_ctpio, resultVars, mem, prefix, ring,
                     tx_evs, out, flying, landed, house>>
  BY DEF ExpressEvents
<1>2. /\ t2' = IF rxs = {} THEN t2 ELSE arrived
      /\ t_mem' = IF rxs # {} /\ t_mem = 0 THEN arrived ELSE t_mem
      /\ missed_future' = (rxs # {} /\ t_mem = 0)
      /\ poisoned' = (discarded /\ tx_mode = "ctpio")
      /\ future' = IF rxs # {} \/ discarded THEN 0 ELSE future
      /\ pc' = IF discarded /\ tx_mode # "ctpio" THEN "exit"
               ELSE IF rxs # {} \/ discarded THEN "reap_tx"
               ELSE "express_rx"
  BY DEF ExpressEvents
<1> USE <1>1 DEF optVars, resultVars, countVars, calVars
<1>3. /\ express /\ it < Total /\ (AtOut \/ AtCable \/ AtHost \/ AtQueue)
      /\ t_mem \in {0, Frame} /\ future \in {0, Frame}
  BY DEF Carried, OwnReadings, Awaiting, Running
<1>4. FrameEvents' = {}
  BY Emptied
<1>5. rxs # {} => AtQueue /\ arrived = Frame /\ ~discarded
  <2>1. SUFFICES ASSUME rxs # {} PROVE AtQueue /\ arrived = Frame /\ ~discarded
    OBVIOUS
  <2>2. AtQueue
    BY <1>3, <2>1, NoEvent DEF AtOut, AtCable, AtHost
  <2>3. PICK i \in DOMAIN rx_evs : FrameEvents = {i} /\ rx_evs[i].frame = Frame
    BY <2>2 DEF AtQueue
  <2>4. rxs = {i} /\ ~discarded
    BY <2>1, <2>3, OneEvent DEF Types
  <2>5. i \in Int
    BY DEF Types
  <2>6. Min(rxs) = i
    BY <2>4, <2>5, Singletons
  <2> QED
    BY <2>2, <2>3, <2>4, <2>6
<1>6. discarded => AtQueue
  BY <1>3, NoEvent DEF AtOut, AtCable, AtHost
<1>7. rxs = {} /\ ~discarded => ~AtQueue
  <2>1. SUFFICES ASSUME rxs = {}, ~discarded, AtQueue PROVE FALSE
    OBVIOUS
  <2>2. PICK i \in DOMAIN rx_evs : FrameEvents = {i}
    BY <2>1 DEF AtQueue
  <2> QED
    BY <2>1, <2>2, OneEvent DEF Types
<1> HIDE DEF rxs, arrived, discarded
<1>8. Types'
  <2>1. Frame \in Frames /\ 0 \in Frames /\ <<>> \in Seq(RxEvent)
    BY <1>3, FrameTyped
  <2> QED
    BY <1>2, <1>5, <2>1 DEF Types, TypeOK
<1>9. Carried'
  <2>1. CASE rxs = {} /\ ~discarded
    <3>1. AtOut' \/ AtCable' \/ AtHost'
      BY <1>3, <1>4, <1>7, <2>1
         DEF AtOut, AtCable, AtHost, Left, Frame, None
    <3>2. pc' = "express_rx"
      BY <1>2, <2>1
    <3> QED
      BY <1>3, <3>1, <3>2 DEF Carried, Awaiting, Running
  <2>2. CASE rxs # {} \/ discarded
    <3>1. Nowhere' /\ Left'
      BY <1>4, <1>5, <1>6, <2>2 DEF AtQueue, Nowhere, Left, Frame, None
    <3>2. pc' \in {"exit", "reap_tx"}
      BY <1>2, <2>2
    <3> QED
      BY <1>3, <3>1, <3>2 DEF Carried, Awaiting, Running
  <2> QED
    BY <2>1, <2>2
<1>10. OwnReadings'
  <2>1. CASE rxs = {} /\ ~discarded
    BY <1>2, <1>3, <2>1 DEF OwnReadings, Awaiting, Frame
  <2>2. CASE rxs # {}
    BY <1>2, <1>3, <1>5, <2>2 DEF OwnReadings, Awaiting, Frame
  <2>3. CASE rxs = {} /\ discarded
    BY <1>2, <1>3, <2>3 DEF OwnReadings, Awaiting, Frame
  <2> QED
    BY <2>1, <2>2, <2>3
<1>11. Rotation'
  BY <1>2, <1>3 DEF Rotation
<1>12. Fitted'
  BY <1>2, KeepsFit DEF Calibrating, Running, Awaiting, Fitted
<1>13. GoodSamples' /\ CountsTally'
  BY KeepsSamples, KeepsCounts
<1> QED
  BY <1>8, <1>9, <1>10, <1>11, <1>12, <1>13

LEMMA ReapTxStep ==
    ASSUME IInv, ReapTx
    PROVE IInv'
<1> USE DEF IInv
<1>1. /\ pc = "reap_tx" /\ tx_evs' = <<>> /\ pc' = "derive"
      /\ t1' = Last(tx_evs).frame /\ tx_ctpio' = Last(tx_evs).ctpio
      /\ UNCHANGED <<optVars, it, rx_next, t_mem, t2, missed_future, poisoned,
                     resultVars, mem, prefix, future, ring, rx_evs, out, flying, landed,
                     house>>
  BY DEF ReapTx
<1> USE <1>1 DEF optVars, resultVars, countVars, calVars
<1>2. Nowhere /\ Left /\ it < Total
  BY DEF Carried, Awaiting, Running
<1>3. t1' = Frame /\ tx_ctpio' \in BOOLEAN
  <2>1. PICK c \in BOOLEAN : tx_evs = <<[frame |-> Frame, ctpio |-> c]>>
    BY <1>2 DEF Left
  <2>2. Last(tx_evs) = [frame |-> Frame, ctpio |-> c]
    BY <2>1 DEF Last
  <2> QED
    BY <2>1, <2>2
<1>4. Types'
  BY <1>2, <1>3, FrameTyped DEF Types, TypeOK
<1>5. Nowhere' /\ Buffered' = Buffered
  BY <1>2 DEF Nowhere, FrameEvents, Buffered, None
<1>6. Carried'
  BY <1>2, <1>5 DEF Carried, Awaiting, Running
<1>7. OwnReadings'
  BY <1>3 DEF OwnReadings, Awaiting, Frame
<1>8. Rotation'
  BY <1>5, KeepsRotation
<1>9. Fitted'
  BY KeepsFit DEF Calibrating, Running, Awaiting, Fitted
<1>10. GoodSamples' /\ CountsTally'
  BY KeepsSamples, KeepsCounts
<1> QED
  BY <1>4, <1>6, <1>7, <1>8, <1>9, <1>10

LEMMA DeriveStep ==
    ASSUME IInv, Derive
    PROVE IInv'
<1> USE DEF IInv
<1> DEFINE row == [frame |-> Frame, t1 |-> t1, t2 |-> t2, t_mem |-> t_mem,
                   cm |-> clockmap]
<1>1. /\ pc = "derive" /\ it' = it + 1 /\ pc' = "arm"
      /\ UNCHANGED <<optVars, rx_next, timeVars, csv, calVars, mem, prefix, future, nicVars>>
  BY DEF Derive
<1>2. Keep => /\ samples' = Append(samples, row) /\ n_ok' = n_ok + 1
              /\ n_fallback' \in {n_fallback, n_fallback + 1}
              /\ UNCHANGED <<n_missed_future, n_poisoned>>
  BY DEF Derive
<1>3. ~Keep => /\ n_missed_future' = IF it >= Warmup /\ missed_future
                                     THEN n_missed_future + 1 ELSE n_missed_future
               /\ n_poisoned' = IF it >= Warmup /\ ~missed_future /\ poisoned
                                THEN n_poisoned + 1 ELSE n_poisoned
               /\ UNCHANGED <<samples, n_ok, n_fallback>>
  BY DEF Derive
<1> USE <1>1 DEF optVars, timeVars, calVars, nicVars
<1>4. /\ it \in Nat /\ it < Total /\ Frame \in Frames /\ t1 = Frame
      /\ Iters \in Nat /\ Warmup \in Nat /\ CalPeriod \in Nat \ {0}
      /\ {t_mem, t2, t1} \subseteq Frames /\ clockmap \in ClockMap
      /\ Nowhere /\ tx_evs = <<>> /\ Len(csv) <= n_ok /\ Len(samples) = n_ok
      /\ samples \in Seq(Row)
  BY FrameTyped, LoopbackAssumption
     DEF Carried, OwnReadings, Awaiting, Running, Types, TypeOK
<1>5. {n_ok, n_fallback, n_missed_future, n_poisoned} \subseteq Nat
  BY DEF Types, TypeOK
<1>6. clockmap # Unfitted /\ it - clockmap.it \in 0 .. CalPeriod - 1
  BY <1>4 DEF Fitted, Running, Calibrating, ClockMap
<1>7. CountsTally' /\ {n_ok, n_fallback, n_missed_future, n_poisoned}' \subseteq Nat
  <2>1. CASE Keep
    <3>1. it >= Warmup
      BY <2>1 DEF Keep
    <3> QED
      BY <1>2, <1>4, <1>5, <2>1, <3>1 DEF CountsTally
  <2>2. CASE ~Keep
    <3>1. CASE it >= Warmup
      <4>1. missed_future \/ poisoned
        BY <2>2, <3>1 DEF Keep
      <4> QED
        BY <1>3, <1>4, <1>5, <2>2, <3>1, <4>1, SMTT(30) DEF CountsTally
    <3>2. CASE ~(it >= Warmup)
      BY <1>3, <1>4, <1>5, <2>2, <3>2 DEF CountsTally
    <3> QED
      BY <3>1, <3>2
  <2> QED
    BY <2>1, <2>2
<1>8. {n_ok, n_fallback, n_missed_future, n_poisoned}' \subseteq 0 .. Iters
  BY <1>4, <1>7 DEF CountsTally, Total
<1>9. row \in Row
  BY <1>4 DEF Row
<1>10. /\ samples' \in Seq(Row) /\ Len(samples') = n_ok' /\ Len(csv) <= n_ok'
  <2>1. CASE Keep
    <3>1. samples' = Append(samples, row) /\ n_ok' = n_ok + 1
      BY <1>2, <2>1
    <3>2. n_ok \in Nat /\ Len(csv) \in Int
      BY <1>5 DEF Types
    <3> HIDE DEF row
    <3> QED
      BY <1>4, <1>9, <3>1, <3>2
  <2>2. CASE ~Keep
    BY <1>3, <1>4, <2>2
  <2> QED
    BY <2>1, <2>2
<1>11. Types'
  <2>1. it' \in Frames
    BY <1>4 DEF Frames, Total
  <2> QED
    BY <1>8, <1>10, <2>1 DEF Types, TypeOK
<1>12. Nowhere' /\ Buffered' = Buffered
  BY <1>4 DEF Nowhere, FrameEvents, Buffered, None
<1>13. Carried'
  BY <1>4, <1>12 DEF Carried, Awaiting, Running
<1>14. OwnReadings'
  BY ReadsNothing DEF Awaiting, Running
<1>15. Rotation'
  BY <1>12 DEF Rotation, Unfitted
<1>16. Fitted'
  <2>1. it' - clockmap'.it \in 0 .. CalPeriod
    <3>1. clockmap.it \in Int
      BY <1>4 DEF ClockMap
    <3> QED
      BY <1>4, <1>6, <3>1
  <2>2. ~Calibrating' /\ ~Running' /\ pc' # "setup" /\ clockmap' # Unfitted'
    BY <1>6 DEF Calibrating, Running, Awaiting, Unfitted
  <2> QED
    BY <1>6, <2>1, <2>2 DEF Fitted, GoodFit
<1>17. GoodSamples'
  <2>1. CASE Keep
    <3>1. t2 = Frame /\ t_mem = Frame
      BY <2>1 DEF Keep, OwnReadings
    <3>2. OwnTimes(row)
      BY <1>4, <3>1 DEF OwnTimes
    <3>3. /\ row.frame - 1 - row.cm.it \in 0 .. CalPeriod - 1
          /\ GoodFit(row.cm)
      BY <1>4, <1>6 DEF Fitted, Frame, ClockMap
    <3> HIDE DEF row
    <3> DEFINE n == Len(samples)
    <3>4. /\ DOMAIN samples' = 1 .. n + 1 /\ DOMAIN samples = 1 .. n /\ n \in Nat
          /\ samples'[n + 1] = row /\ \A i \in 1 .. n : samples'[i] = samples[i]
      BY <1>2, <1>4, <1>9, <2>1
    <3>5. \A i \in DOMAIN samples' : i \in DOMAIN samples \/ i = n + 1
      BY <3>4
    <3>6. \A i \in DOMAIN samples' :
            \/ samples'[i] = row
            \/ i \in DOMAIN samples /\ samples'[i] = samples[i]
      BY <3>4, <3>5
    <3>7. \A i \in DOMAIN samples' : OwnTimes(samples'[i])
      BY <3>2, <3>6 DEF GoodSamples
    <3>8. \A i \in DOMAIN samples' :
            /\ samples'[i].frame - 1 - samples'[i].cm.it \in 0 .. CalPeriod - 1
            /\ GoodFit(samples'[i].cm)
      BY <3>3, <3>6 DEF GoodSamples
    <3> QED
      BY <3>7, <3>8 DEF GoodSamples, OwnTimes, GoodFit
  <2>2. CASE ~Keep
    BY <1>3, <2>2, KeepsSamples
  <2> QED
    BY <2>1, <2>2
<1> QED
  BY <1>7, <1>11, <1>13, <1>14, <1>15, <1>16, <1>17

-----------------------------------------------------------------------------
(* The results.                                                            *)
LEMMA WriteCsvStep ==
    ASSUME IInv, WriteCsv
    PROVE IInv'
<1> USE DEF IInv
<1>1. /\ pc = "csv" /\ pc' \in {"report", "exit"} /\ csv' \in {csv, samples}
      /\ UNCHANGED <<optVars, it, rx_next, timeVars, countVars, samples, calVars,
                     mem, prefix, future, nicVars>>
  BY DEF WriteCsv
<1> USE <1>1 DEF optVars, timeVars, countVars, calVars, nicVars
<1>2. Types'
  BY DEF Types, TypeOK
<1>3. Carried' /\ Buffered' = Buffered
  BY StaysIdle DEF Awaiting, Running
<1>4. OwnReadings'
  BY ReadsNothing DEF Awaiting, Running
<1>5. Rotation'
  BY <1>3, KeepsRotation
<1>6. Fitted'
  BY KeepsFit DEF Calibrating, Running, Awaiting, Fitted
<1>7. GoodSamples'
  BY DEF GoodSamples, OwnTimes, GoodFit
<1>8. CountsTally'
  BY KeepsCounts
<1> QED
  BY <1>2, <1>3, <1>4, <1>5, <1>6, <1>7, <1>8

LEMMA ReportStep ==
    ASSUME IInv, Report
    PROVE IInv'
<1> USE DEF IInv
<1>1. /\ pc = "report" /\ pc' \in {"exit", "done"}
      /\ UNCHANGED <<optVars, it, rx_next, timeVars, countVars, csv, calVars, mem, prefix,
                     future, nicVars>>
  BY DEF Report
<1> USE <1>1 DEF optVars, timeVars, countVars, calVars, nicVars
<1>3. /\ samples' \in Seq(Row) /\ Len(samples') = Len(samples)
      /\ \A i \in DOMAIN samples' : /\ i \in DOMAIN samples
                                    /\ samples'[i].frame = samples[i].frame
                                    /\ samples'[i].cm = samples[i].cm
  <2>1. CASE UNCHANGED samples
    BY <2>1 DEF Types
  <2>2. CASE ~UNCHANGED samples
    <3>1. PICK p \in Bijection(1 .. n_ok, 1 .. n_ok) :
            samples' = [i \in 1 .. n_ok |->
                          [samples[i] EXCEPT !.t_mem = samples[p[i]].t_mem]]
      BY <2>2 DEF Report
    <3>2. n_ok \in Nat /\ samples \in Seq(Row) /\ Len(samples) = n_ok
      BY DEF Types, TypeOK
    <3>3. \A i \in 1 .. n_ok : p[i] \in 1 .. n_ok
      BY <3>1 DEF Bijection, Injection, IsInjective
    <3>4. \A i \in 1 .. n_ok : samples[i] \in Row /\ samples[p[i]] \in Row
      BY <3>2, <3>3
    <3>5. \A i \in 1 .. n_ok :
            LET r == [samples[i] EXCEPT !.t_mem = samples[p[i]].t_mem] IN
            /\ r \in Row /\ r.frame = samples[i].frame /\ r.cm = samples[i].cm
      BY <3>4 DEF Row
    <3>6. samples' \in [1 .. n_ok -> Row]
      BY <3>1, <3>5
    <3>7. samples' \in Seq(Row) /\ Len(samples') = n_ok
      BY <3>2, <3>6
    <3>8. DOMAIN samples = 1 .. n_ok /\ DOMAIN samples' = 1 .. n_ok
      BY <3>1, <3>2
    <3>9. \A i \in 1 .. n_ok :
            samples'[i] = [samples[i] EXCEPT !.t_mem = samples[p[i]].t_mem]
      BY <3>1
    <3>10. \A i \in 1 .. n_ok : /\ samples'[i].frame = samples[i].frame
                                /\ samples'[i].cm = samples[i].cm
      BY <3>5, <3>9
    <3> QED
      BY <3>2, <3>7, <3>8, <3>10
  <2> QED
    BY <2>1, <2>2
<1>4. Types'
  BY <1>3 DEF Types, TypeOK
<1>5. Carried' /\ Buffered' = Buffered
  BY StaysIdle DEF Awaiting, Running
<1>6. OwnReadings'
  BY ReadsNothing DEF Awaiting, Running
<1>7. Rotation'
  BY <1>5, KeepsRotation
<1>8. Fitted'
  BY KeepsFit DEF Calibrating, Running, Awaiting, Fitted
<1>9. CountsTally'
  BY KeepsCounts
<1>10. GoodSamples'
  <2>1. CASE pc' = "exit"
    <3>1. UNCHANGED samples
      BY <2>1 DEF Report
    <3> QED
      BY <3>1, KeepsSamples
  <2>2. CASE pc' = "done"
    BY <1>3, <2>2, ZenonT(60) DEF GoodSamples, OwnTimes, GoodFit
  <2> QED
    BY <2>1, <2>2
<1> QED
  BY <1>4, <1>5, <1>6, <1>7, <1>8, <1>9, <1>10

-----------------------------------------------------------------------------
(* The NIC: the frame goes on from one place to the next.                  *)
LEMMA NicSendStep ==
    ASSUME IInv, NicSend
    PROVE IInv'
<1> USE DEF IInv
<1>1. PICK ctpio \in BOOLEAN, poison \in BOOLEAN :
        /\ tx_evs' = Append(tx_evs, [frame |-> out.frame, ctpio |-> ctpio])
        /\ flying' = [frame |-> out.frame, poison |-> poison]
  BY DEF NicSend
<1>2. /\ out # None /\ out' = None
      /\ UNCHANGED <<optVars, pc, it, rx_next, timeVars, resultVars, mem, prefix, future,
                     ring, rx_evs, landed, house>>
  BY DEF NicSend
<1> USE <1>2 DEF optVars, timeVars, resultVars, countVars, calVars
<1>3. Awaiting /\ AtOut
  BY DEF Carried, Nowhere, AtCable, AtHost, AtQueue
<1>4. tx_evs' = <<[frame |-> Frame, ctpio |-> ctpio]>>
  BY <1>1, <1>3 DEF AtOut
<1>5. AtCable' /\ FrameEvents' = FrameEvents
  BY <1>1, <1>3, <1>4 DEF AtOut, AtCable, Left, Frame, FrameEvents, None
<1>6. Types'
  BY DEF Types, TypeOK
<1>7. pc # "poll_rx"
  BY <1>3 DEF Carried, AtOut, AtHost, AtQueue, FrameEvents, None, Frame
<1>8. Carried'
  BY <1>3, <1>5, <1>7 DEF Carried, Awaiting, Running
<1>9. OwnReadings'
  BY <1>3, <1>5, <1>7 DEF OwnReadings, Awaiting, Frame, Slot
<1>10. Rotation'
  <2>1. Buffered' = Buffered
    BY <1>5 DEF Buffered, None
  <2> QED
    BY <2>1, KeepsRotation
<1>11. Fitted'
  BY KeepsFit DEF Calibrating, Running, Awaiting, Fitted
<1>12. GoodSamples' /\ CountsTally'
  BY KeepsCounts DEF GoodSamples, OwnTimes, GoodFit
<1> QED
  BY <1>6, <1>8, <1>9, <1>10, <1>11, <1>12

LEMMA NicLandStep ==
    ASSUME IInv, NicLand
    PROVE IInv'
<1> USE DEF IInv
<1>1. PICK whole \in BOOLEAN :
        IF express
        THEN /\ future' = IF whole THEN flying.frame ELSE future
             /\ UNCHANGED <<mem, prefix, ring>>
        ELSE /\ ring # <<>>
             /\ mem' = IF whole THEN [mem EXCEPT ![Head(ring)] = flying.frame]
                       ELSE mem
             /\ prefix' = [prefix EXCEPT ![Head(ring)] = flying.frame]
             /\ ring' = Tail(ring)
             /\ UNCHANGED future
  BY DEF NicLand
<1>2. /\ flying # None /\ landed' = flying /\ flying' = None
      /\ UNCHANGED <<optVars, pc, it, rx_next, timeVars, resultVars, rx_evs,
                     tx_evs, out, house>>
  BY DEF NicLand
<1> USE <1>2 DEF optVars, timeVars, resultVars, countVars, calVars
<1>3. Awaiting /\ AtCable
  BY DEF Carried, Nowhere, AtOut, AtHost, AtQueue
<1>4. /\ it < Total /\ Frame \in Frames /\ 0 \in Frames /\ Frame # 0
      /\ flying.frame = Frame
  BY <1>3, FrameTyped DEF Carried, Running, AtCable
<1>5. AtHost' /\ FrameEvents' = FrameEvents /\ FrameEvents = {}
  BY <1>3 DEF AtCable, AtHost, Left, Frame, FrameEvents, None
<1>6. pc # "poll_rx"
  BY <1>3 DEF Carried, AtCable, AtHost, AtQueue, None
<1>7. Buffered = 0 /\ Buffered' = 1
  BY <1>3, <1>5 DEF AtCable, Buffered, None
<1>8. ~express => /\ pc = "spin" /\ Head(ring) = Slot /\ Slot \in Slots
                  /\ {mem, prefix} \subseteq [Slots -> Frames] /\ ring \in Seq(Slots)
                  /\ Len(ring) = NRxBufs /\ NRxBufs \in Nat \ {0} /\ rx_next \in Int
                  /\ \A j \in 1 .. NRxBufs : ring[j] = (rx_next + (j - 1)) % NRxBufs
  <2>1. SUFFICES ASSUME ~express
                 PROVE /\ pc = "spin" /\ Head(ring) = Slot /\ Slot \in Slots
                       /\ {mem, prefix} \subseteq [Slots -> Frames]
                       /\ ring \in Seq(Slots)
                       /\ Len(ring) = NRxBufs /\ NRxBufs \in Nat \ {0}
                       /\ rx_next \in Int
                       /\ \A j \in 1 .. NRxBufs :
                            ring[j] = (rx_next + (j - 1)) % NRxBufs
    OBVIOUS
  <2>2. pc = "spin"
    BY <1>3, <1>6, <2>1 DEF Carried, Awaiting
  <2>3. clockmap # Unfitted
    BY <2>2 DEF Fitted, Calibrating
  <2>4. Slot \in Slots /\ rx_next \in Int /\ NRxBufs \in Nat \ {0}
    BY SlotTyped
  <2>5. NRxBufs - 0 = NRxBufs /\ rx_next + 0 = rx_next
    BY <2>4
  <2>6. Len(ring) = NRxBufs /\ \A j \in 1 .. NRxBufs :
                                 ring[j] = (rx_next + (j - 1)) % NRxBufs
    BY <1>7, <2>1, <2>2, <2>3, <2>5 DEF Rotation
  <2>7. 1 \in 1 .. NRxBufs /\ rx_next + (1 - 1) = rx_next
    BY <2>4
  <2>8. ring[1] = Slot
    BY <2>6, <2>7 DEF Slot
  <2>9. {mem, prefix} \subseteq [Slots -> Frames] /\ ring \in Seq(Slots)
    BY DEF Types, TypeOK
  <2>10. Head(ring) = ring[1]
    BY <2>4, <2>6, <2>9
  <2> QED
    BY <2>2, <2>4, <2>6, <2>8, <2>9, <2>10
<1>9. CASE express
  <2>1. future' \in {future, Frame} /\ UNCHANGED <<mem, prefix, ring>>
    BY <1>1, <1>4, <1>9
  <2>2. Types'
    BY <1>4, <2>1 DEF Types, TypeOK
  <2>3. OwnReadings'
    BY <1>3, <1>5, <1>6, <1>9, <2>1 DEF OwnReadings, Awaiting, Frame, Carried
  <2>4. Rotation'
    BY <1>9, <2>1 DEF Rotation
  <2> QED
    BY <1>3, <1>5, <1>6, <2>2, <2>3, <2>4, KeepsFit, KeepsCounts
       DEF Carried, Awaiting, Running, Calibrating, Fitted, GoodSamples, OwnTimes,
           GoodFit
<1>10. CASE ~express
  <2>1. /\ mem' \in {mem, [mem EXCEPT ![Slot] = Frame]}
        /\ prefix' = [prefix EXCEPT ![Slot] = Frame]
        /\ ring' = Tail(ring) /\ future' = future
    BY <1>1, <1>4, <1>8, <1>10
  <2>2. /\ mem' \in [Slots -> Frames] /\ mem'[Slot] \in {mem[Slot], Frame}
        /\ prefix' \in [Slots -> Frames] /\ prefix'[Slot] = Frame
    BY <1>4, <1>8, <1>10, <2>1
  <2>3. /\ ring' \in Seq(Slots) /\ Len(ring') = NRxBufs - 1
        /\ \A j \in 1 .. NRxBufs - 1 : ring'[j] = ring[j + 1]
    BY <1>8, <1>10, <2>1
  <2>4. Types'
    BY <2>1, <2>2, <2>3 DEF Types, TypeOK
  <2>5. mem[Slot] = 0
    BY <1>3, <1>8, <1>10 DEF OwnReadings
  <2>6. ~AtOut' /\ ~AtCable'
    BY <1>3 DEF AtOut, AtCable, None
  <2>7. OwnReadings'
    BY <1>8, <1>10, <2>1, <2>2, <2>5, <2>6
       DEF OwnReadings, Awaiting, Frame, Slot
  <2>8. Rotation'
    <3>1. \A j \in 1 .. NRxBufs - 1 :
            ring'[j] = (rx_next + 1 + (j - 1)) % NRxBufs
      <4>1. TAKE j \in 1 .. NRxBufs - 1
      <4>2. j + 1 \in 1 .. NRxBufs /\ rx_next + (j + 1 - 1) = rx_next + 1 + (j - 1)
        BY <1>8, <1>10
      <4> QED
        BY <1>8, <1>10, <2>3, <4>2
    <3> QED
      BY <1>7, <1>8, <1>10, <2>3, <3>1 DEF Rotation
  <2> QED
    BY <1>3, <1>5, <1>6, <2>4, <2>7, <2>8, KeepsFit, KeepsCounts
       DEF Carried, Awaiting, Running, Calibrating, Fitted, GoodSamples, OwnTimes,
           GoodFit
<1> QED
  BY <1>9, <1>10

LEMMA NicRxEventStep ==
    ASSUME IInv, NicRxEvent
    PROVE IInv'
<1> USE DEF IInv
<1> DEFINE e == [type |-> IF landed.poison THEN "RX_DISCARD" ELSE "RX",
                 frame |-> landed.frame]
<1>1. /\ landed # None /\ rx_evs' = Append(rx_evs, e) /\ landed' = None
      /\ UNCHANGED <<optVars, pc, it, rx_next, timeVars, resultVars, mem, prefix, future,
                     ring, tx_evs, out, flying, house>>
  BY DEF NicRxEvent
<1> USE <1>1 DEF optVars, timeVars, resultVars, countVars, calVars
<1>2. Awaiting /\ AtHost
  BY DEF Carried, Nowhere, AtOut, AtCable, AtQueue
<1>3. it < Total /\ Frame \in Frames /\ landed.frame = Frame
  BY <1>2, FrameTyped DEF Carried, Running, AtHost
<1>4. e \in RxEvent /\ e.type # "other" /\ e.frame = Frame
  BY <1>3 DEF RxEvent
<1> HIDE DEF e
<1>5. /\ rx_evs' \in Seq(RxEvent)
      /\ \E i \in DOMAIN rx_evs' : FrameEvents' = {i} /\ rx_evs'[i] = e
  BY <1>2, <1>4, EventAdded DEF Types, AtHost
<1>6. AtQueue'
  BY <1>2, <1>4, <1>5 DEF AtHost, AtQueue, Left, Frame, None
<1>7. Buffered' = Buffered
  BY <1>5 DEF Buffered, None
<1>8. Types'
  BY <1>5 DEF Types, TypeOK
<1>9. Carried'
  BY <1>2, <1>6 DEF Carried, Awaiting, Running
<1>10. ~AtOut /\ ~AtCable /\ ~AtOut' /\ ~AtCable'
  BY <1>2, <1>5 DEF AtOut, AtCable, AtHost
<1>11. OwnReadings'
  BY <1>2, <1>10 DEF OwnReadings, Awaiting, Frame, Slot
<1>12. Rotation'
  BY <1>7, KeepsRotation
<1>13. Fitted'
  BY KeepsFit DEF Calibrating, Running, Awaiting, Fitted
<1>14. GoodSamples' /\ CountsTally'
  BY KeepsCounts DEF GoodSamples, OwnTimes, GoodFit
<1> QED
  BY <1>8, <1>9, <1>11, <1>12, <1>13, <1>14

LEMMA NicHousekeepingStep ==
    ASSUME IInv, NicHousekeeping
    PROVE IInv'
<1> USE DEF IInv
<1> DEFINE e == [type |-> "other", frame |-> 0]
<1>1. /\ house < MaxHouse /\ house' = house + 1 /\ rx_evs' = Append(rx_evs, e)
      /\ UNCHANGED <<optVars, pc, it, rx_next, timeVars, resultVars, mem, prefix, future,
                     ring, tx_evs, out, flying, landed>>
  BY DEF NicHousekeeping
<1> USE <1>1 DEF optVars, timeVars, resultVars, countVars, calVars
<1>2. e \in RxEvent /\ e.type = "other"
  BY FrameTyped DEF RxEvent
<1> HIDE DEF e
<1>3. /\ rx_evs' \in Seq(RxEvent) /\ FrameEvents' = FrameEvents
      /\ \A i \in DOMAIN rx_evs : i \in DOMAIN rx_evs' /\ rx_evs'[i] = rx_evs[i]
  BY <1>2, EventAdded DEF Types
<1>4. house' \in 0 .. MaxHouse
  BY LoopbackAssumption DEF Types, TypeOK
<1>5. Types'
  BY <1>3, <1>4 DEF Types, TypeOK
<1>6. /\ AtOut' = AtOut /\ AtCable' = AtCable /\ AtHost' = AtHost
      /\ Nowhere' = Nowhere /\ Left' = Left /\ Buffered' = Buffered
  BY <1>3 DEF AtOut, AtCable, AtHost, Nowhere, Left, Frame, None, Buffered
<1>7. AtQueue => AtQueue'
  BY <1>3, <1>6 DEF AtQueue, Frame, None
<1>8. Carried'
  BY <1>6, <1>7 DEF Carried, Awaiting, Running
<1>9. OwnReadings'
  BY <1>6 DEF OwnReadings, Awaiting, Frame, Slot
<1>10. Rotation'
  BY <1>6, KeepsRotation
<1>11. Fitted'
  BY KeepsFit DEF Calibrating, Running, Awaiting, Fitted
<1>12. GoodSamples' /\ CountsTally'
  BY KeepsCounts DEF GoodSamples, OwnTimes, GoodFit
<1> QED
  BY <1>5, <1>8, <1>9, <1>10, <1>11, <1>12

-----------------------------------------------------------------------------
(* The beginning, and every step.                                          *)
LEMMA InitIInv ==
    ASSUME Init
    PROVE IInv
<1> USE DEF Init
<1>1. Iters \in Nat /\ Warmup \in Nat /\ CalPeriod \in Nat \ {0} /\ MaxHouse \in Nat
  BY LoopbackAssumption
<1>2. 0 \in Frames /\ 0 \in 0 .. Iters /\ 0 \in 0 .. MaxHouse
  BY <1>1 DEF Frames
<1>3. Unfitted \in ClockMap
  BY DEF Unfitted, ClockMap
<1>4. {mem, prefix} \subseteq [Slots -> Frames] /\ ring \in Seq(Slots)
  BY <1>2
<1>5. Types
  <2>1. TypeOK
    <3>1. Len(samples) = n_ok /\ Len(csv) <= n_ok
      OBVIOUS
    <3>2. /\ {t_mem, t2, t1, future} \subseteq Frames
          /\ it \in Frames /\ rx_next \in Frames /\ house \in 0 .. MaxHouse
          /\ {n_ok, n_fallback, n_missed_future, n_poisoned} \subseteq 0 .. Iters
      BY <1>2
    <3>3. {tx_ctpio, missed_future, poisoned} \subseteq BOOLEAN
      OBVIOUS
    <3>4. express \in BOOLEAN /\ tx_mode \in {"dma", "ctpio", "ctpio-snf"}
      OBVIOUS
    <3>5. pc = "calibrate"
      OBVIOUS
    <3> HIDE DEF Init
    <3> QED
      BY <1>4, <3>1, <3>2, <3>3, <3>4, <3>5 DEF TypeOK
  <2>2. /\ rx_evs \in Seq(RxEvent) /\ samples \in Seq(Row) /\ csv \in Seq(Row)
        /\ points \in Seq(Kinds)
    OBVIOUS
  <2> QED
    BY <1>3, <2>1, <2>2 DEF Types
<1>6. Nowhere
  BY DEF Nowhere, FrameEvents
<1>7. Carried
  BY <1>6 DEF Carried, Awaiting, Running
<1>8. OwnReadings
  BY DEF OwnReadings, Awaiting
<1>9. Rotation
  BY DEF Rotation
<1>10. Fitted
  <2>1. 0 % CalPeriod = 0
    BY <1>1, ModSmall
  <2> QED
    BY <2>1 DEF Fitted, Calibrating, Running, Awaiting
<1>11. GoodSamples
  BY DEF GoodSamples
<1>12. CountsTally
  BY <1>1 DEF CountsTally
<1> QED
  BY <1>5, <1>7, <1>8, <1>9, <1>10, <1>11, <1>12 DEF IInv

LEMMA Stutter ==
    ASSUME IInv, UNCHANGED vars
    PROVE IInv'
<1> USE DEF IInv, vars, optVars, timeVars, resultVars, countVars, calVars, nicVars
<1>1. Types'
  BY DEF Types, TypeOK
<1>2. /\ AtOut' = AtOut /\ AtCable' = AtCable /\ AtHost' = AtHost
      /\ AtQueue' = AtQueue /\ Nowhere' = Nowhere /\ Left' = Left
      /\ Buffered' = Buffered
  BY DEF AtOut, AtCable, AtHost, AtQueue, Nowhere, Left, Frame, None, Buffered,
         FrameEvents
<1>3. Carried'
  BY <1>2 DEF Carried, Awaiting, Running
<1>4. OwnReadings'
  BY <1>2 DEF OwnReadings, Awaiting, Frame, Slot
<1>5. Rotation'
  BY <1>2 DEF Rotation
<1>6. Fitted'
  BY DEF Fitted, GoodFit, Calibrating, Running, Awaiting, Unfitted
<1>7. GoodSamples' /\ CountsTally'
  BY KeepsCounts DEF GoodSamples, OwnTimes, GoodFit
<1> QED
  BY <1>1, <1>3, <1>4, <1>5, <1>6, <1>7

(* The frame of the iteration is under way while the program waits for it, *)
(* the buffers are posted in turn, the fit is due: what an iteration has   *)
(* read is its own frame's, whatever the NIC and the program do when.      *)
THEOREM Inductive == Spec => []IInv
<1>1. Init => IInv
  BY InitIInv
<1>2. IInv /\ [Next]_vars => IInv'
  <2> SUFFICES ASSUME IInv, [Next]_vars PROVE IInv'
    OBVIOUS
  <2>1. CASE Program
    <3>1. CASE Calibrate
      BY <3>1, CalibrateTscStep, CalibratePreciseStep, CalibrateOffsetStep,
         RecalibrateStep DEF Calibrate
    <3>2. CASE Setup \/ Arm \/ Transmit \/ Spin \/ PollRx
      BY <3>2, SetupStep, ArmStep, TransmitStep, SpinStep, PollRxStep
    <3>3. CASE Peek \/ ExpressEvents \/ ReapTx
      BY <3>3, PeekStep, ExpressEventsStep, ReapTxStep
    <3>4. CASE Derive \/ WriteCsv \/ Report
      BY <3>4, DeriveStep, WriteCsvStep, ReportStep
    <3> QED
      BY <2>1, <3>1, <3>2, <3>3, <3>4 DEF Program
  <2>2. CASE NicFrame
    BY <2>2, NicSendStep, NicLandStep, NicRxEventStep DEF NicFrame
  <2>3. CASE NicHousekeeping
    BY <2>3, NicHousekeepingStep
  <2>4. CASE UNCHANGED vars
    BY <2>4, Stutter
  <2> QED
    BY <2>1, <2>2, <2>3, <2>4 DEF Next
<1> QED
  BY <1>1, <1>2, PTL DEF Spec

(* Every variable keeps to its type: no count of results passes <iters>,   *)
(* the length of the arrays they index.                                    *)
THEOREM TypeCorrect == Spec => []TypeOK
<1>1. IInv => TypeOK
  BY DEF IInv, Types
<1> QED
  BY <1>1, Inductive, PTL

(* All times of a sample, and of a row of samples.csv, are of the frame it *)
(* is about, and the clocks were fitted to each other when they were due,  *)
(* from enough readings of one kind.                                       *)
THEOREM Unmixed == Spec => []SamplesUnmixed
<1>1. ASSUME NEW cm, GoodFit(cm)
      PROVE Len(cm.points) >= MinFit /\ Cardinality(ToSet(cm.points)) = 1
  <2>1. PICK x \in Kinds : ToSet(cm.points) = {x}
    BY <1>1 DEF GoodFit
  <2>2. Cardinality({x}) = 1
    BY FS_Singleton
  <2> QED
    BY <1>1, <2>1, <2>2 DEF GoodFit
<1>2. IInv => SamplesUnmixed
  BY <1>1 DEF IInv, GoodSamples, SamplesUnmixed
<1> QED
  BY <1>2, Inductive, PTL

(* Every measured iteration is a sample or counted as a reason for none,   *)
(* and a fallback is counted among the samples only.                       *)
THEOREM Tallied == Spec => []CountsTally
<1>1. IInv => CountsTally
  BY DEF IInv
<1> QED
  BY <1>1, Inductive, PTL

(* The buffer the program spins on is the one that is filled next, or that *)
(* was filled just now: rx_next and the FIFO of posted buffers keep step.  *)
THEOREM RightBuffer == Spec => []SpinsOnNextBuffer
<1>1. IInv => SpinsOnNextBuffer
  <2> SUFFICES ASSUME IInv, ~express, pc = "spin"
               PROVE IF landed = None /\ \A i \in DOMAIN rx_evs : rx_evs[i].type = "other"
                     THEN Head(ring) = Slot
                     ELSE \A i \in DOMAIN ring : ring[i] # Slot
    BY DEF SpinsOnNextBuffer
  <2>1. /\ rx_next \in Int /\ NRxBufs \in Nat \ {0} /\ ring \in Seq(Slots)
        /\ clockmap # Unfitted
    BY SlotTyped DEF IInv, Types, TypeOK, Fitted, Calibrating
  <2>2. /\ Len(ring) = NRxBufs - Buffered
        /\ \A j \in 1 .. NRxBufs - Buffered :
             ring[j] = (rx_next + Buffered + (j - 1)) % NRxBufs
    BY <2>1 DEF IInv, Rotation
  <2>3. CASE landed = None /\ \A i \in DOMAIN rx_evs : rx_evs[i].type = "other"
    <3>1. Buffered = 0
      BY <2>3 DEF Buffered, FrameEvents
    <3>2. 1 \in 1 .. NRxBufs - 0 /\ rx_next + 0 + (1 - 1) = rx_next
      BY <2>1
    <3>3. ring[1] = Slot /\ Len(ring) >= 1
      BY <2>1, <2>2, <3>1, <3>2 DEF Slot
    <3> QED
      BY <2>1, <2>3, <3>3
  <2>4. CASE ~(landed = None /\ \A i \in DOMAIN rx_evs : rx_evs[i].type = "other")
    <3>1. Buffered = 1
      BY <2>4 DEF Buffered, FrameEvents
    <3>2. ASSUME NEW j \in DOMAIN ring PROVE ring[j] # Slot
      <4>1. j \in 1 .. NRxBufs - 1 /\ rx_next + 1 + (j - 1) = rx_next + j
        <5>1. DOMAIN ring = 1 .. Len(ring)
          BY <2>1
        <5>2. j \in 1 .. NRxBufs - 1
          BY <2>2, <3>1, <5>1
        <5> QED
          BY <2>1, <5>2
      <4>2. ring[j] = (rx_next + j) % NRxBufs
        BY <2>2, <3>1, <4>1
      <4>3. (rx_next + j) % NRxBufs # rx_next % NRxBufs
        BY <2>1, <4>1, ModApart
      <4> QED
        BY <4>2, <4>3 DEF Slot
    <3> QED
      BY <2>4, <3>2
  <2> QED
    BY <2>3, <2>4
<1> QED
  BY <1>1, Inductive, PTL
================================================================================
