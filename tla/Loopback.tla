------------------------------ MODULE Loopback ------------------------------
(***************************************************************************)
(* x4_loopback_latency.c: one frame at a time goes out of one port and     *)
(* into the other, and each iteration collects when it left (T1), arrived  *)
(* (T2) and was seen in memory (T_mem).  A time stands for the number of   *)
(* the frame whose event it measures, so a sample is right when all its    *)
(* times are its own frame's; 0 is no time.  The two clocks are fitted to  *)
(* each other before the first iteration and every CAL_PERIOD ones.        *)
(*                                                                         *)
(* The NIC (Nic* actions) runs beside the program, and nobody else sends   *)
(* to the port: what it does is external, seen through ef_vi.              *)
(***************************************************************************)
EXTENDS Integers, SequencesExt

CONSTANTS
    NRxBufs,    \* N_RX_BUFS, 64
    Warmup,     \* WARMUP_ITERS, 2000
    Iters,      \* <iters>
    CalPeriod,  \* CAL_PERIOD, 1000: iterations between calibrations
    CalSamples, \* CAL_SAMPLES, 64
    MinFit,     \* 8: a fit of fewer points is refused
    MaxHouse    \* bound of the model: housekeeping events on the RX queue

ASSUME LoopbackAssumption ==
    /\ {NRxBufs, CalPeriod, MinFit} \subseteq Nat \ {0}
    /\ CalSamples \in Nat
    /\ {Warmup, Iters, MaxHouse} \subseteq Nat

VARIABLES
    express, tx_mode,                   \* -x and -m
    pc, it, rx_next,                    \* where main() stands
    t_mem, t2, t1, tx_ctpio,            \* of this iteration
    missed_future, poisoned,
    n_ok, n_fallback, n_missed_future, n_poisoned,
    samples,                            \* wire .. via_ctpio [0 .. n_ok - 1]
    csv,                                \* the rows of samples.csv
    points, clockmap,                   \* of the fit being made; cm
    mem,                                \* the sentinel byte of each RX buffer
    prefix,                             \* the timestamp the NIC wrote before it
    future,                             \* the frame peek can see, Express only
    ring,                               \* RX buffers posted and not filled
    rx_evs, tx_evs,                     \* events nobody has polled
    out, flying, landed,                \* the frame in the NIC and on the wire
    house                               \* history: housekeeping events so far

optVars == <<express, tx_mode>>
timeVars == <<t_mem, t2, t1, tx_ctpio, missed_future, poisoned>>
calVars == <<points, clockmap>>
countVars == <<n_ok, n_fallback, n_missed_future, n_poisoned>>
resultVars == <<countVars, samples, csv, calVars>>
nicVars == <<ring, rx_evs, tx_evs, out, flying, landed, house>>
vars == <<optVars, pc, it, rx_next, timeVars, resultVars, mem, prefix, future, nicVars>>

Slots == 0 .. NRxBufs - 1
None == [frame |-> 0]
Unfitted == [it |-> -1, points |-> <<>>]
Frames == 0 .. Iters + Warmup

TypeOK ==
    /\ express \in BOOLEAN /\ tx_mode \in {"dma", "ctpio", "ctpio-snf"}
    /\ pc \in {"calibrate", "precise", "offset", "setup", "arm", "transmit",
               "spin", "poll_rx", "express_rx", "future_poll", "reap_tx",
               "derive", "csv", "report", "done", "exit"}
    /\ it \in Frames /\ rx_next \in Frames
    /\ {t_mem, t2, t1, future} \subseteq Frames
    /\ {tx_ctpio, missed_future, poisoned} \subseteq BOOLEAN
    /\ {n_ok, n_fallback, n_missed_future, n_poisoned} \subseteq 0 .. Iters
    /\ Len(samples) = n_ok /\ Len(csv) <= n_ok
    /\ {mem, prefix} \subseteq [Slots -> Frames]
    /\ ring \in Seq(Slots)
    /\ house \in 0 .. MaxHouse

(* Express takes no -m dma.                                                *)
Init ==
    /\ express \in BOOLEAN
    /\ tx_mode \in {"dma", "ctpio", "ctpio-snf"}
    /\ express => tx_mode # "dma"
    /\ pc = "calibrate" /\ it = 0 /\ rx_next = 0
    /\ t_mem = 0 /\ t2 = 0 /\ t1 = 0 /\ tx_ctpio = FALSE
    /\ missed_future = FALSE /\ poisoned = FALSE
    /\ n_ok = 0 /\ n_fallback = 0 /\ n_missed_future = 0 /\ n_poisoned = 0
    /\ samples = <<>> /\ csv = <<>>
    /\ points = <<>> /\ clockmap = Unfitted
    /\ mem = [s \in Slots |-> 0] /\ prefix = [s \in Slots |-> 0]
    /\ future = 0
    /\ ring = <<>>
    /\ rx_evs = <<>> /\ tx_evs = <<>>
    /\ out = None /\ flying = None /\ landed = None
    /\ house = 0

-----------------------------------------------------------------------------
(* The program: calibration and set-up.                                    *)

(* calibrate_tsc_realtime, from the brackets that were narrow enough.      *)
CalibrateTsc ==
    /\ pc = "calibrate"
    /\ \E narrow \in 0 .. CalSamples :
        pc' = IF narrow < MinFit THEN "exit" ELSE "precise"
    /\ UNCHANGED <<optVars, it, rx_next, timeVars, resultVars, mem, prefix, future,
                   nicVars>>

(* cm takes the new fit; refused by fit's callers below MinFit points.     *)
TakeFit(ps) ==
    IF Len(ps) < MinFit THEN pc' = "exit" /\ UNCHANGED clockmap
    ELSE /\ clockmap' = [it |-> it, points |-> ps]
         /\ pc' = IF clockmap = Unfitted THEN "setup" ELSE "arm"

(* calibrate_realtime_phc: precise readings until the driver refuses one.  *)
CalibratePrecise ==
    /\ pc = "precise"
    /\ \E n \in 0 .. CalSamples :
        LET ps == [i \in 1 .. n |-> "precise"] IN
        /\ points' = ps
        /\ IF n < MinFit THEN pc' = "offset" /\ UNCHANGED clockmap
           ELSE TakeFit(ps)
    /\ UNCHANGED <<optVars, it, rx_next, timeVars, countVars, samples, csv, mem, prefix,
                   future, nicVars>>

(* Too few: begin again with PTP_SYS_OFFSET, which may be refused too.     *)
CalibrateOffset ==
    /\ pc = "offset"
    /\ \/ /\ points' = [i \in 1 .. CalSamples |-> "offset"]
          /\ TakeFit(points')
       \/ pc' = "exit" /\ UNCHANGED calVars
    /\ UNCHANGED <<optVars, it, rx_next, timeVars, countVars, samples, csv, mem, prefix,
                   future, nicVars>>

(* port_open twice, a MAC or a UDP filter, and RX buffers posted in order, *)
(* but for Express, whose are the kernel's; any of these may fail.         *)
Setup ==
    /\ pc = "setup"
    /\ \/ /\ pc' = "arm"
          /\ ring' = IF express THEN <<>> ELSE [i \in 1 .. NRxBufs |-> i - 1]
       \/ pc' = "exit" /\ UNCHANGED ring
    /\ UNCHANGED <<optVars, it, rx_next, timeVars, resultVars, mem, prefix, future,
                   rx_evs, tx_evs, out, flying, landed, house>>

-----------------------------------------------------------------------------
(* The measuring loop.                                                     *)
Frame == it + 1                   \* the frame this iteration sends
Slot == rx_next % NRxBufs         \* the RX buffer it expects it in

Unarmed == mem                    \* Mutant: the sentinel keeps its last lap's byte
Armed == [mem EXCEPT ![Slot] = 0]

(* Time to calibrate again, which the code does before it goes on.         *)
CalibrateDue ==
    it % CalPeriod = 0 /\ it > 0 /\ clockmap.it # it /\ it < Iters + Warmup

Recalibrate ==
    /\ pc = "arm" /\ CalibrateDue
    /\ pc' = "calibrate"
    /\ UNCHANGED <<optVars, it, rx_next, timeVars, resultVars, mem, prefix, future,
                   nicVars>>

Arm ==
    /\ pc = "arm" /\ ~CalibrateDue
    /\ IF it < Iters + Warmup
       THEN /\ pc' = "transmit"
            /\ mem' = IF express THEN mem ELSE Armed
       ELSE pc' = "csv" /\ UNCHANGED mem
    /\ t_mem' = 0 /\ t2' = 0 /\ t1' = 0 /\ tx_ctpio' = FALSE
    /\ missed_future' = FALSE /\ poisoned' = FALSE
    /\ UNCHANGED <<optVars, it, rx_next, resultVars, prefix, future, nicVars>>

Transmit ==
    /\ pc = "transmit"
    /\ out' = [frame |-> Frame]
    /\ pc' = IF express THEN "express_rx" ELSE "spin"
    /\ UNCHANGED <<optVars, it, rx_next, timeVars, resultVars, mem, prefix, future,
                   ring, rx_evs, tx_evs, flying, landed, house>>

(* Enterprise: busy-wait for the last byte of the payload.                 *)
Spin ==
    /\ pc = "spin"
    /\ mem[Slot] # 0
    /\ t_mem' = mem[Slot]
    /\ pc' = "poll_rx"
    /\ UNCHANGED <<optVars, it, rx_next, t2, t1, tx_ctpio, missed_future,
                   poisoned, resultVars, mem, prefix, future, nicVars>>

OfType(type) == {i \in DOMAIN rx_evs : rx_evs[i].type = type}

StaysPut(rxs) == rx_next          \* Mutant: the same buffer is expected again
NextRx(rxs) == rx_next + Cardinality(rxs)

(* The whole batch is processed: each RX event reads the timestamp of the  *)
(* expected buffer, whichever the event names, posts that buffer again and *)
(* moves on; a discard ends the program.                                   *)
PollRx ==
    /\ pc = "poll_rx"
    /\ rx_evs # <<>>
    /\ LET rxs == OfType("RX") IN
        IF OfType("RX_DISCARD") # {}
        THEN pc' = "exit" /\ UNCHANGED <<t2, ring, rx_next>>
        ELSE /\ t2' = IF rxs = {} THEN t2 ELSE prefix[Slot]
             /\ ring' = ring \o [i \in 1 .. Cardinality(rxs) |-> Slot]
             /\ rx_next' = NextRx(rxs)
             /\ pc' = IF rxs = {} THEN pc ELSE "reap_tx"
    /\ rx_evs' = <<>>
    /\ UNCHANGED <<optVars, it, t_mem, t1, tx_ctpio, missed_future, poisoned,
                   resultVars, mem, prefix, future, tx_evs, out, flying, landed, house>>

(* Express: peek shows the frame's first bytes before its event.           *)
Peek ==
    /\ pc = "express_rx"
    /\ future # 0
    /\ t_mem' = future
    /\ pc' = "future_poll"
    /\ UNCHANGED <<optVars, it, rx_next, t2, t1, tx_ctpio, missed_future,
                   poisoned, resultVars, mem, prefix, future, nicVars>>

(* Express: a batch of events, after a successful peek or when peek cannot *)
(* see past them.  A cut-through frame cut short is a dropped sample, any  *)
(* other discard the end.                                                  *)
ExpressEvents ==
    /\ pc \in {"express_rx", "future_poll"}
    /\ rx_evs # <<>>
    /\ LET rxs == OfType("RX")
           arrived == rx_evs[Min(rxs)].frame
           discarded == OfType("RX_DISCARD") # {}
       IN /\ t2' = IF rxs = {} THEN t2 ELSE arrived
          /\ t_mem' = IF rxs # {} /\ t_mem = 0 THEN arrived ELSE t_mem
          /\ missed_future' = (rxs # {} /\ t_mem = 0)
          /\ poisoned' = (discarded /\ tx_mode = "ctpio")
          /\ future' = IF rxs # {} \/ discarded THEN 0 ELSE future
          /\ pc' = IF discarded /\ tx_mode # "ctpio" THEN "exit"
                   ELSE IF rxs # {} \/ discarded THEN "reap_tx"
                   ELSE "express_rx"
    /\ rx_evs' = <<>>
    /\ UNCHANGED <<optVars, it, rx_next, t1, tx_ctpio, resultVars, mem, prefix, ring,
                   tx_evs, out, flying, landed, house>>

ReapTx ==
    /\ pc = "reap_tx"
    /\ tx_evs # <<>>
    /\ t1' = Last(tx_evs).frame
    /\ tx_ctpio' = Last(tx_evs).ctpio
    /\ tx_evs' = <<>>
    /\ pc' = "derive"
    /\ UNCHANGED <<optVars, it, rx_next, t_mem, t2, missed_future, poisoned,
                   resultVars, mem, prefix, future, ring, rx_evs, out, flying, landed,
                   house>>

(* Nothing is kept of a warm-up iteration, of a frame first seen through   *)
(* its event, or of a poisoned one.                                        *)
KeepWarmup == ~missed_future /\ ~poisoned                  \* Mutant
KeepLate == it > Warmup /\ ~missed_future /\ ~poisoned     \* Mutant
Keep == it >= Warmup /\ ~missed_future /\ ~poisoned

Derive ==
    /\ pc = "derive"
    /\ IF Keep
       THEN /\ samples' = Append(samples, [frame |-> Frame, t1 |-> t1, t2 |-> t2,
                                           t_mem |-> t_mem, cm |-> clockmap])
            /\ n_ok' = n_ok + 1
            /\ n_fallback' = IF tx_mode # "dma" /\ ~tx_ctpio THEN n_fallback + 1
                             ELSE n_fallback
            /\ UNCHANGED <<n_missed_future, n_poisoned>>
       ELSE /\ n_missed_future' = IF it >= Warmup /\ missed_future
                                  THEN n_missed_future + 1 ELSE n_missed_future
            /\ n_poisoned' = IF it >= Warmup /\ ~missed_future /\ poisoned
                             THEN n_poisoned + 1 ELSE n_poisoned
            /\ UNCHANGED <<samples, n_ok, n_fallback>>
    /\ it' = it + 1
    /\ pc' = "arm"
    /\ UNCHANGED <<optVars, rx_next, timeVars, csv, calVars, mem, prefix, future, nicVars>>

(* samples.csv, if it was asked for and can be opened.                     *)
WriteCsv ==
    /\ pc = "csv"
    /\ \/ csv' = samples /\ pc' = "report"
       \/ UNCHANGED csv /\ pc' \in {"report", "exit"}
    /\ UNCHANGED <<optVars, it, rx_next, timeVars, countVars, samples, calVars,
                   mem, prefix, future, nicVars>>

(* report() sorts each array by itself: what stood in one row is in one no *)
(* longer (here T_mem moves).  No samples, no report.                      *)
Report ==
    /\ pc = "report"
    /\ IF n_ok = 0 THEN pc' = "exit" /\ UNCHANGED samples
       ELSE /\ pc' = "done"
            /\ \E p \in Bijection(1 .. n_ok, 1 .. n_ok) :
                samples' = [i \in 1 .. n_ok |->
                               [samples[i] EXCEPT !.t_mem = samples[p[i]].t_mem]]
    /\ UNCHANGED <<optVars, it, rx_next, timeVars, countVars, csv, calVars, mem, prefix,
                   future, nicVars>>

Calibrate == CalibrateTsc \/ CalibratePrecise \/ CalibrateOffset \/ Recalibrate
Program ==
    \/ Calibrate \/ Setup
    \/ Arm \/ Transmit \/ Spin \/ PollRx \/ Peek \/ ExpressEvents \/ ReapTx
    \/ Derive \/ WriteCsv \/ Report

-----------------------------------------------------------------------------
(* The NIC.                                                                *)
NicSend ==
    /\ out # None
    /\ \E ctpio \in BOOLEAN, poison \in BOOLEAN :
        /\ ctpio => tx_mode # "dma"              \* FALSE: the fallback frame
        /\ poison => ctpio /\ tx_mode = "ctpio"
        /\ tx_evs' = Append(tx_evs, [frame |-> out.frame, ctpio |-> ctpio])
        /\ flying' = [frame |-> out.frame, poison |-> poison]
    /\ out' = None
    /\ UNCHANGED <<optVars, pc, it, rx_next, timeVars, resultVars, mem, prefix, future,
                   ring, rx_evs, landed, house>>

(* The frame is in host memory, its timestamp before it; a poisoned one    *)
(* may lack its last byte, or be too short to peek at.                     *)
NicLand ==
    /\ flying # None
    /\ \E whole \in BOOLEAN :
        /\ ~whole => flying.poison
        /\ IF express
           THEN /\ future' = IF whole THEN flying.frame ELSE future
                /\ UNCHANGED <<mem, prefix, ring>>
           ELSE /\ ring # <<>>
                /\ mem' = IF whole THEN [mem EXCEPT ![Head(ring)] = flying.frame]
                          ELSE mem
                /\ prefix' = [prefix EXCEPT ![Head(ring)] = flying.frame]
                /\ ring' = Tail(ring)
                /\ UNCHANGED future
    /\ landed' = flying
    /\ flying' = None
    /\ UNCHANGED <<optVars, pc, it, rx_next, timeVars, resultVars, rx_evs,
                   tx_evs, out, house>>

NicRxEvent ==
    /\ landed # None
    /\ rx_evs' = Append(rx_evs, [type |-> IF landed.poison THEN "RX_DISCARD"
                                          ELSE "RX",
                                 frame |-> landed.frame])
    /\ landed' = None
    /\ UNCHANGED <<optVars, pc, it, rx_next, timeVars, resultVars, mem, prefix, future,
                   ring, tx_evs, out, flying, house>>

NicHousekeeping ==
    /\ house < MaxHouse
    /\ house' = house + 1
    /\ rx_evs' = Append(rx_evs, [type |-> "other", frame |-> 0])
    /\ UNCHANGED <<optVars, pc, it, rx_next, timeVars, resultVars, mem, prefix, future,
                   ring, tx_evs, out, flying, landed>>

NicFrame == NicSend \/ NicLand \/ NicRxEvent

Next == Program \/ NicFrame \/ NicHousekeeping

(* One thread on an isolated core, and a cable that loses nothing.         *)
Spec == Init /\ [][Next]_vars /\ WF_vars(Program) /\ WF_vars(NicFrame)

-----------------------------------------------------------------------------
OwnTimes(row) == {row.t1, row.t2, row.t_mem} = {row.frame}

(* All times of a kept sample are of the one frame it is about, and so are *)
(* those of a row of samples.csv: no byte left in a buffer a lap ago, no   *)
(* earlier completion and no sorting mixes frames.  T1 and T2 were brought *)
(* to the host's clock by the fit that is due at that iteration, made of   *)
(* enough readings of one kind.                                            *)
SamplesUnmixed ==
    /\ pc # "done" => \A i \in DOMAIN samples : OwnTimes(samples[i])
    /\ \A i \in DOMAIN csv : OwnTimes(csv[i])
    /\ \A i \in DOMAIN samples :
        LET age == samples[i].frame - 1 - samples[i].cm.it IN
        /\ age \in 0 .. CalPeriod - 1
        /\ Len(samples[i].cm.points) >= MinFit
        /\ Cardinality(ToSet(samples[i].cm.points)) = 1

(* Every measured iteration is a sample or a counted reason for none, so   *)
(* the arrays of <iters> results are never overrun and what is printed     *)
(* adds up; a fallback is counted among the samples only.                  *)
CountsTally ==
    /\ n_ok + n_missed_future + n_poisoned = (IF it > Warmup THEN it - Warmup ELSE 0)
    /\ n_fallback <= n_ok

(* While a frame is awaited, the buffer the program spins on is the one    *)
(* the NIC fills next, or has just filled: rx_next and the FIFO of posted  *)
(* buffers keep step.                                                      *)
SpinsOnNextBuffer ==
    ~express /\ pc = "spin" =>
        IF landed = None /\ \A i \in DOMAIN rx_evs : rx_evs[i].type = "other"
        THEN Head(ring) = Slot
        ELSE \A i \in DOMAIN ring : ring[i] # Slot

(* The run ends, whichever options were given: no wait is for something    *)
(* that came already.  The exception is cut-through on the Enterprise      *)
(* datapath, where a poisoned frame may leave the sentinel unwritten and   *)
(* the spin (590-592) comes before the poll that would report it.          *)
RunEnds == <>(pc \in {"done", "exit"} \/ (~express /\ tx_mode = "ctpio"))
=============================================================================
