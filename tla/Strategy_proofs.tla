-------------------------- MODULE Strategy_proofs --------------------------
(***************************************************************************)
(* What the strategy's callback guarantees for every count and warm-up,    *)
(* whatever the frames and the prices: its samples tally, its gaps are     *)
(* true, its quote tracks the theoretical price and straddles it on the    *)
(* wire (module Strategy).  At the end, the same for the estimator whose   *)
(* volatility it prices with (module RealizedVol).                         *)
(***************************************************************************)
EXTENDS Strategy, RealizedVol, Sums_proofs, SequenceTheorems

CountTypes ==
    /\ n \in 0 .. Total
    /\ have_prev \in BOOLEAN
    /\ prev_nic_ns \in Nat
    /\ samples \in [Metrics -> 0 .. Count]
    /\ nic_gaps \in Seq(Nat)
    /\ unstamped \in BOOLEAN
    /\ overflowed \in BOOLEAN
    /\ arrivals \in Seq(Nat)
    /\ Len(arrivals) <= MaxFrames
    /\ n_requoted \in Nat

(* Frames are counted as they arrive, and there is one before each         *)
(* measured one.  The last stamp is not after the last frame's, and is     *)
(* that frame's if all have carried one.                                   *)
PrevInv ==
    /\ have_prev <=> n > 0
    /\ n <= Len(arrivals) /\ (n < Total => n = Len(arrivals))
    /\ prev_nic_ns <= AsDouble(Clock)
    /\ ~unstamped /\ 0 < n /\ n < Total => prev_nic_ns = AsDouble(Clock)

CountInv == CountTypes /\ PrevInv /\ SamplesTally /\ NicGapsTrue

QuoteTypes ==
    /\ have_quote \in BOOLEAN
    /\ last_quoted_theo \in Nat
    /\ out_buf \in Packet
    /\ theo \in Theos \cup {-1}
    /\ market \in Seq(Theos)
    /\ failed \in BOOLEAN

(* The price last quoted is a threshold within reach, and in the market as *)
(* long as no send() has failed.                                           *)
QuotedInv ==
    /\ theo >= 0 => have_quote /\ AbsDiff(theo, last_quoted_theo) < Threshold
    /\ ~failed /\ have_quote =>
          market # <<>> /\ market[Len(market)] = last_quoted_theo
    /\ ~failed /\ ~have_quote => market = <<>>
    /\ ~failed => \A i \in 1 .. Len(market) - 1 :
                      AbsDiff(market[i + 1], market[i]) >= Threshold
    /\ out_buf # NoQuote =>
          last_quoted_theo \in Theos /\ out_buf = EncodeQuote(last_quoted_theo)

QuoteInv == QuoteTypes /\ QuotedInv

IInv == CountInv /\ QuoteInv

-----------------------------------------------------------------------------
(* Rounding to doubles.                                                    *)

(* A time lies between two multiples of Ulp and becomes one of them.       *)
Quot(t) == t \div Ulp
Rest(t) == t % Ulp
Low(t) == Ulp * Quot(t)
Up(t) == 2 * Rest(t) > Ulp \/ (2 * Rest(t) = Ulp /\ Quot(t) % 2 = 1)

LEMMA Division ==
    ASSUME NEW t \in Nat
    PROVE  /\ Quot(t) \in Nat
           /\ Rest(t) \in 0 .. Ulp - 1
           /\ t = Low(t) + Rest(t)
           /\ Low(t) \in Nat
BY StrategyAssumption DEF Quot, Rest, Low

LEMMA Rounded ==
    ASSUME NEW t \in Nat
    PROVE  AsDouble(t) = IF Up(t) THEN Low(t) + Ulp ELSE Low(t)
<1>1. Ulp * (Quot(t) + 1) = Low(t) + Ulp
  BY Division, StrategyAssumption DEF Low
<1> QED BY <1>1 DEF AsDouble, Up, Quot, Rest, Low

(* Rounding is off by half a spacing at most.                              *)
LEMMA RoundedNear ==
    ASSUME NEW t \in Nat
    PROVE  /\ AsDouble(t) \in Nat
           /\ 2 * AsDouble(t) - 2 * t <= Ulp
           /\ 2 * t - 2 * AsDouble(t) <= Ulp
           /\ Low(t) <= AsDouble(t) /\ AsDouble(t) <= Low(t) + Ulp
<1>0. /\ Rest(t) \in 0 .. Ulp - 1 /\ t = Low(t) + Rest(t) /\ Low(t) \in Nat
      /\ Ulp \in Nat \ {0}
  BY Division, StrategyAssumption
<1>1. CASE Up(t)
  <2>1. 2 * Rest(t) >= Ulp
    BY <1>1, Division, StrategyAssumption DEF Up
  <2>2. AsDouble(t) = Low(t) + Ulp
    BY <1>1, Rounded
  <2> QED BY <2>1, <2>2, <1>0
<1>2. CASE ~Up(t)
  <2>1. 2 * Rest(t) <= Ulp
    BY <1>2, Division, StrategyAssumption DEF Up
  <2>2. AsDouble(t) = Low(t)
    BY <1>2, Rounded
  <2> QED BY <2>1, <2>2, <1>0
<1> QED BY <1>1, <1>2

(* A later time is never rounded to an earlier one.                        *)
LEMMA RoundedMonotone ==
    ASSUME NEW s \in Nat, NEW t \in Nat, s <= t
    PROVE  AsDouble(s) <= AsDouble(t)
<1> USE Division, StrategyAssumption
<1>1. CASE Quot(s) = Quot(t)
  <2>1. Low(s) = Low(t)
    BY <1>1 DEF Low
  <2>2. Rest(s) <= Rest(t)
    BY <2>1
  <2>3. Up(s) => Up(t)
    <3>1. CASE Rest(s) = Rest(t)
      BY <1>1, <3>1 DEF Up
    <3>2. CASE Rest(s) < Rest(t)
      BY <3>2 DEF Up
    <3>3. Rest(s) \in Int /\ Rest(t) \in Int
      OBVIOUS
    <3>4. Rest(s) = Rest(t) \/ Rest(s) < Rest(t)
      BY <2>2, <3>3
    <3> HIDE Division, StrategyAssumption
    <3> QED BY <3>1, <3>2, <3>4
  <2>4. CASE Up(s)
    BY <2>1, <2>3, <2>4, Rounded
  <2>5. CASE ~Up(s)
    BY <2>1, <2>5, Rounded, RoundedNear
  <2> QED BY <2>4, <2>5
<1>2. CASE Quot(s) < Quot(t)
  <2>1. Ulp * (Quot(s) + 1) <= Ulp * Quot(t)
    BY <1>2
  <2>2. Low(s) + Ulp <= Low(t)
    BY <2>1 DEF Low
  <2> QED BY <2>2, RoundedNear
<1>3. CASE Quot(s) > Quot(t)
  <2>1. Ulp * (Quot(t) + 1) <= Ulp * Quot(s)
    BY <1>3
  <2>2. Low(t) + Ulp <= Low(s)
    BY <2>1 DEF Low
  <2> QED BY <2>2
<1> QED BY <1>1, <1>2, <1>3

(* More nanoseconds are not fewer cycles.                                  *)
LEMMA CyclesMonotone ==
    ASSUME NEW x \in Nat, NEW y \in Nat, x <= y
    PROVE  /\ NsToTsc(x) \in Nat /\ NsToTsc(y) \in Nat
           /\ NsToTsc(x) <= NsToTsc(y)
<1> USE StrategyAssumption
<1>1. \A a, b \in Nat, d \in Nat \ {0} : a <= b =>
        a \div d \in Nat /\ b \div d \in Nat /\ a \div d <= b \div d
  OBVIOUS
<1>2. x * TscNum \in Nat /\ y * TscNum \in Nat /\ x * TscNum <= y * TscNum
  OBVIOUS
<1> QED BY <1>1, <1>2 DEF NsToTsc

(* A gap between two rounded times, in cycles.                             *)
LEMMA GapNear ==
    ASSUME NEW s \in Nat, NEW step \in Nat
    PROVE  LET g == AsDouble(s + step) - AsDouble(s) IN
           /\ AsDouble(s) \in Nat /\ AsDouble(s + step) \in Nat
           /\ g \in Nat /\ NsToTsc(g) \in Nat
           /\ NsToTsc(g) \in NsToTsc(IF step > Ulp THEN step - Ulp ELSE 0)
                                .. NsToTsc(step + Ulp)
<1> USE StrategyAssumption
<1> DEFINE g == AsDouble(s + step) - AsDouble(s)
           low == IF step > Ulp THEN step - Ulp ELSE 0
<1>1. s + step \in Nat /\ s <= s + step
  OBVIOUS
<1>2. AsDouble(s) <= AsDouble(s + step)
  BY <1>1, RoundedMonotone
<1>3. /\ AsDouble(s) \in Nat
      /\ 2 * AsDouble(s) - 2 * s <= Ulp /\ 2 * s - 2 * AsDouble(s) <= Ulp
  BY RoundedNear
<1>4. /\ AsDouble(s + step) \in Nat
      /\ 2 * AsDouble(s + step) - 2 * (s + step) <= Ulp
      /\ 2 * (s + step) - 2 * AsDouble(s + step) <= Ulp
  BY <1>1, RoundedNear
<1>5. g \in Nat /\ low \in Nat /\ low <= g /\ g <= step + Ulp /\ step + Ulp \in Nat
  BY <1>2, <1>3, <1>4
<1> HIDE DEF g, low
<1>6. /\ NsToTsc(low) \in Nat /\ NsToTsc(g) \in Nat
      /\ NsToTsc(step + Ulp) \in Nat
      /\ NsToTsc(low) <= NsToTsc(g) /\ NsToTsc(g) <= NsToTsc(step + Ulp)
  BY <1>5, CyclesMonotone
<1> QED BY <1>3, <1>4, <1>5, <1>6 DEF g, low

(* A frame more.                                                           *)
Arrives == \E step \in Steps : arrivals' = Append(arrivals, Clock + step)

LEMMA ArrivalStep ==
    ASSUME arrivals \in Seq(Nat), Len(arrivals) < MaxFrames, Arrives
    PROVE  /\ Clock \in Nat /\ Clock' \in Nat /\ Clock' - Clock \in Nat
           /\ Clock' = Clock + (Clock' - Clock)
           /\ arrivals' \in Seq(Nat) /\ Len(arrivals') = Len(arrivals) + 1
           /\ Len(arrivals') <= MaxFrames
           /\ Clock' = arrivals'[Len(arrivals) + 1]
           /\ Len(arrivals) > 0 => Clock = arrivals[Len(arrivals)]
           /\ \A k \in 1 .. Len(arrivals) : arrivals'[k] = arrivals[k]
<1> USE StrategyAssumption
<1>1. Len(arrivals) \in Nat /\ MaxFrames \in Nat
  OBVIOUS
<1>2. Clock \in Nat
  BY DEF Clock
<1>3. PICK step \in Steps : arrivals' = Append(arrivals, Clock + step)
  BY DEF Arrives
<1>4. step \in Nat /\ Clock + step \in Nat
  BY <1>2
<1>5. /\ arrivals' \in Seq(Nat) /\ Len(arrivals') = Len(arrivals) + 1
      /\ arrivals'[Len(arrivals) + 1] = Clock + step
      /\ \A k \in 1 .. Len(arrivals) : arrivals'[k] = arrivals[k]
  BY <1>2, <1>3, <1>4, AppendProperties
<1>6. Clock' = Clock + step
  <2>1. arrivals' # <<>>
    BY <1>1, <1>5
  <2>2. Clock' = arrivals'[Len(arrivals')]
    BY <2>1 DEF Clock
  <2> QED BY <1>5, <2>2
<1>7. Len(arrivals) > 0 => Clock = arrivals[Len(arrivals)]
  BY DEF Clock
<1> QED BY <1>1, <1>2, <1>4, <1>5, <1>6, <1>7

-----------------------------------------------------------------------------
(* Counting and timing.                                                    *)

(* The i-th gap, as NicGapsTrue has it.                                    *)
Near(i) ==
    LET gap == TrueGap(i) IN
    nic_gaps[i] \in NsToTsc(IF gap > Ulp THEN gap - Ulp ELSE 0) .. NsToTsc(gap + Ulp)

(* What has been measured stays as near as it was.                         *)
LEMMA NearKept ==
    ASSUME CountInv, Len(arrivals) \in Nat,
           \A k \in 1 .. Len(arrivals) : arrivals'[k] = arrivals[k],
           NEW i \in Nat \ {0}, i <= Len(nic_gaps), nic_gaps'[i] = nic_gaps[i],
           ~unstamped
    PROVE  Near(i)'
<1> USE StrategyAssumption
<1>1. /\ n \in 0 .. Total /\ n <= Len(arrivals) /\ nic_gaps \in Seq(Nat)
      /\ Len(nic_gaps) = Measured
  BY DEF CountInv, CountTypes, PrevInv, SamplesTally
<1>2. Len(nic_gaps) = n - Warmup /\ n \in Nat /\ n > Warmup
  BY <1>1 DEF Measured
<1>3. /\ Warmup + i \in 1 .. Len(arrivals)
      /\ Warmup + i - 1 \in 1 .. Len(arrivals)
  BY <1>1, <1>2
<1>4. TrueGap(i)' = TrueGap(i)
  BY <1>3 DEF TrueGap
<1>5. Near(i)
  BY <1>1 DEF CountInv, NicGapsTrue, Near
<1> QED BY <1>4, <1>5 DEF Near, NsToTsc

LEMMA GapsKept ==
    ASSUME CountInv, Len(arrivals) \in Nat,
           \A k \in 1 .. Len(arrivals) : arrivals'[k] = arrivals[k],
           nic_gaps' = nic_gaps, ~unstamped' => ~unstamped
    PROVE  NicGapsTrue'
<1>1. nic_gaps \in Seq(Nat)
  BY DEF CountInv, CountTypes
<1>2. ASSUME ~unstamped', NEW i \in DOMAIN nic_gaps
      PROVE  Near(i)'
  <2>1. i \in Nat \ {0} /\ i <= Len(nic_gaps)
    BY <1>1
  <2> QED BY <1>2, <2>1, NearKept
<1> QED BY <1>2 DEF NicGapsTrue, Near

(* stats_record never meets a full stats_t: before a measured frame each   *)
(* metric has a sample for each measured frame before it at most.          *)
LEMMA RecordFits ==
    ASSUME CountInv, Wanted, NEW hits \in SUBSET Metrics, Record(hits),
           hits # {} => Recording
    PROVE  /\ samples' = [m \in Metrics |->
                            IF m \in hits THEN samples[m] + 1 ELSE samples[m]]
           /\ samples' \in [Metrics -> 0 .. Count]
           /\ overflowed' = FALSE
<1> USE StrategyAssumption
<1>1. \A m \in Metrics : samples[m] \in 0 .. Measured
  BY DEF CountInv, CountTypes, SamplesTally, Metrics, Measured, Total
<1>2. ASSUME NEW m \in hits PROVE samples[m] < Count
  <2>1. Recording /\ n \in 0 .. Total
    BY <1>2 DEF CountInv, CountTypes
  <2>2. Measured < Count /\ Measured \in Nat
    BY <2>1 DEF Wanted, Recording, Measured, Total
  <2> QED BY <2>2, <1>1
<1>3. samples' = [m \in Metrics |->
                    IF m \in hits THEN samples[m] + 1 ELSE samples[m]]
  BY <1>2 DEF Record
<1>4. samples' \in [Metrics -> 0 .. Count]
  <2> SUFFICES ASSUME NEW m \in Metrics PROVE samples'[m] \in 0 .. Count
    BY <1>3
  <2>1. samples[m] \in 0 .. Count
    BY DEF CountInv, CountTypes
  <2>2. CASE m \in hits
    BY <1>2, <1>3, <2>1, <2>2
  <2>3. CASE m \notin hits
    BY <1>3, <2>1, <2>3
  <2> QED BY <2>2, <2>3
<1>5. overflowed' = FALSE
  <2>1. ~\E m \in hits : samples[m] >= Count
    BY <1>1, <1>2 DEF Measured
  <2>2. ~overflowed
    BY DEF CountInv, SamplesTally
  <2> QED BY <2>1, <2>2 DEF Record
<1> QED BY <1>3, <1>4, <1>5

Hits ==
    {{}, {"book_apply"}, {"book_apply", "pricing_decision"},
     {"book_apply", "pricing_decision", "send"}}

(* Every wanted frame, whatever the rest of the callback makes of it.      *)
LEMMA CountFrameStep ==
    ASSUME CountInv, Len(arrivals) < MaxFrames, Arrives,
           NEW stamped \in BOOLEAN, NEW hits \in Hits, CountFrame(stamped, hits),
           n_requoted' = IF Recording /\ "send" \in hits THEN n_requoted + 1
                         ELSE n_requoted
    PROVE  CountInv'
<1> USE StrategyAssumption
<1> DEFINE gap == have_prev /\ Recording
           all == (IF gap THEN {"tsc_gap"} ELSE {})
                    \cup (IF gap /\ stamped THEN {"nic_gap"} ELSE {})
                    \cup (IF Recording THEN hits ELSE {})
<1>1. /\ n \in 0 .. Total /\ arrivals \in Seq(Nat) /\ n_requoted \in Nat
      /\ prev_nic_ns \in Nat /\ nic_gaps \in Seq(Nat)
      /\ samples \in [Metrics -> 0 .. Count]
  BY DEF CountInv, CountTypes
<1>2. n < Total /\ n' = n + 1 /\ n' \in 0 .. Total /\ have_prev' = TRUE
  BY <1>1 DEF CountFrame, Wanted, Total
<1>3. Recording => gap
  BY <1>1 DEF CountInv, PrevInv, Recording
<1>4. all \in SUBSET Metrics /\ (all # {} => Recording)
  BY DEF Metrics, Hits
<1>5. /\ samples' = [m \in Metrics |->
                        IF m \in all THEN samples[m] + 1 ELSE samples[m]]
      /\ samples' \in [Metrics -> 0 .. Count]
      /\ overflowed' = FALSE
  <2>1. Record(all)
    BY DEF CountFrame
  <2> HIDE DEF all
  <2> QED BY <1>4, <2>1, RecordFits, <1>2 DEF Wanted
<1> DEFINE step == Clock' - Clock
<1>a. /\ Clock \in Nat /\ Clock' \in Nat /\ step \in Nat /\ Clock' = Clock + step
      /\ arrivals' \in Seq(Nat) /\ Len(arrivals') = Len(arrivals) + 1
      /\ Len(arrivals') <= MaxFrames /\ Len(arrivals) \in Nat
      /\ Clock' = arrivals'[Len(arrivals) + 1]
      /\ Len(arrivals) > 0 => Clock = arrivals[Len(arrivals)]
      /\ \A k \in 1 .. Len(arrivals) : arrivals'[k] = arrivals[k]
  BY <1>1, ArrivalStep
<1> HIDE DEF step
<1>6. /\ NicNs = AsDouble(Clock') /\ NicNs \in Nat /\ AsDouble(Clock) \in Nat
      /\ prev_nic_ns <= NicNs
      /\ prev_nic_ns = AsDouble(Clock) =>
            NsToTsc(NicNs - prev_nic_ns) \in
                NsToTsc(IF step > Ulp THEN step - Ulp ELSE 0) .. NsToTsc(step + Ulp)
  <2>1. NicNs = AsDouble(Clock')
    BY DEF NicNs
  <2>2. prev_nic_ns <= AsDouble(Clock)
    BY DEF CountInv, PrevInv
  <2>3. /\ AsDouble(Clock) \in Nat /\ AsDouble(Clock') \in Nat
        /\ AsDouble(Clock') - AsDouble(Clock) \in Nat
        /\ NsToTsc(AsDouble(Clock') - AsDouble(Clock)) \in
              NsToTsc(IF step > Ulp THEN step - Ulp ELSE 0) .. NsToTsc(step + Ulp)
    BY <1>a, GapNear
  <2>4. prev_nic_ns <= NicNs
    BY <1>1, <2>1, <2>2, <2>3
  <2> QED BY <2>1, <2>3, <2>4
<1>b. n = Len(arrivals)
  BY <1>2 DEF CountInv, PrevInv
<1>7. PrevInv'
  <2>1. AsDouble(Clock)' = NicNs
    BY <1>6 DEF AsDouble
  <2>2. CASE stamped
    <3>1. prev_nic_ns' = NicNs
      BY <2>2 DEF CountFrame, NextPrevNic
    <3> QED BY <1>1, <1>2, <1>a, <1>b, <1>6, <2>1, <3>1 DEF PrevInv
  <2>3. CASE ~stamped
    <3>1. prev_nic_ns' = prev_nic_ns /\ unstamped' = TRUE
      BY <2>3 DEF CountFrame, NextPrevNic
    <3> QED BY <1>1, <1>2, <1>a, <1>b, <1>6, <2>1, <3>1 DEF PrevInv
  <2> QED BY <2>2, <2>3
<1>8. /\ unstamped' \in BOOLEAN /\ have_prev' \in BOOLEAN
      /\ overflowed' \in BOOLEAN
  BY <1>2, <1>5 DEF CountFrame
<1>9. prev_nic_ns' \in Nat
  BY <1>1, <1>6 DEF CountFrame, NextPrevNic
<1>10. n_requoted' \in Nat
  <2>1. CASE Recording /\ "send" \in hits
    BY <1>1, <2>1
  <2>2. CASE ~(Recording /\ "send" \in hits)
    BY <1>1, <2>2
  <2> QED BY <2>1, <2>2
<1>11. /\ nic_gaps' \in Seq(Nat)
       /\ Len(nic_gaps') = IF gap /\ stamped THEN Len(nic_gaps) + 1 ELSE Len(nic_gaps)
       /\ NicGapsTrue'
  <2>1. ~unstamped' => ~unstamped
    BY DEF CountFrame
  <2>2. CASE gap /\ stamped
    <3> DEFINE cycles == NsToTsc(NicNs - prev_nic_ns)
    <3>0. /\ samples["nic_gap"] = Len(nic_gaps)
          /\ Len(nic_gaps) <= Measured
          /\ ~unstamped => Len(nic_gaps) = Measured
      BY <1>1 DEF CountInv, SamplesTally, Metrics
    <3>1. nic_gaps' = Append(nic_gaps, cycles)
      <4>1. Measured < Count /\ Measured \in Nat
        BY <1>1, <1>2, <2>2 DEF Recording, Measured, Total
      <4>2. samples["nic_gap"] \in Nat
        BY <1>1 DEF Metrics
      <4>3. samples["nic_gap"] < Count
        BY <3>0, <4>1, <4>2
      <4> QED BY <2>2, <4>3 DEF CountFrame
    <3>2. cycles \in Nat
      <4>1. NicNs - prev_nic_ns \in Nat
        BY <1>1, <1>6
      <4> QED BY <4>1, CyclesMonotone
    <3> HIDE DEF cycles
    <3>3. /\ nic_gaps' \in Seq(Nat)
          /\ Len(nic_gaps') = Len(nic_gaps) + 1
          /\ \A i \in 1 .. Len(nic_gaps) : nic_gaps'[i] = nic_gaps[i]
          /\ nic_gaps'[Len(nic_gaps) + 1] = cycles
      BY <1>1, <3>1, <3>2, AppendProperties
    <3>4. ASSUME ~unstamped', NEW i \in 1 .. Len(nic_gaps) + 1
          PROVE  Near(i)'
      <4>1. CASE i = Len(nic_gaps) + 1
        <5>1. Len(nic_gaps) = n - Warmup /\ n >= Warmup /\ n > 0 /\ n \in Nat
          BY <1>1, <2>1, <2>2, <3>0, <3>4 DEF Recording, Measured
        <5>2. Warmup + i = n + 1 /\ Warmup + i - 1 = n
          BY <4>1, <5>1
        <5>3. arrivals'[n + 1] = Clock' /\ arrivals'[n] = Clock
          BY <1>a, <1>b, <5>1
        <5>4. TrueGap(i)' = step
          BY <1>a, <5>2, <5>3 DEF TrueGap, step
        <5>5. prev_nic_ns = AsDouble(Clock)
          BY <1>2, <2>1, <3>4, <5>1 DEF CountInv, PrevInv
        <5>6. cycles \in NsToTsc(IF step > Ulp THEN step - Ulp ELSE 0)
                            .. NsToTsc(step + Ulp)
          BY <1>6, <5>5 DEF cycles
        <5> QED BY <3>3, <4>1, <5>4, <5>6 DEF Near, NsToTsc
      <4>2. CASE i # Len(nic_gaps) + 1
        <5>1. i \in 1 .. Len(nic_gaps)
          BY <1>1, <4>2
        <5>2. i \in Nat \ {0} /\ i <= Len(nic_gaps) /\ nic_gaps'[i] = nic_gaps[i]
          BY <1>1, <3>3, <5>1
        <5> QED BY <1>a, <2>1, <3>4, <5>2, NearKept
      <4> QED BY <4>1, <4>2
    <3>5. DOMAIN nic_gaps' = 1 .. Len(nic_gaps) + 1
      BY <1>1, <3>3
    <3> QED BY <2>2, <3>3, <3>4, <3>5 DEF NicGapsTrue, Near
  <2>3. CASE ~(gap /\ stamped)
    <3>1. nic_gaps' = nic_gaps
      BY <2>3 DEF CountFrame
    <3>2. NicGapsTrue'
      BY <1>a, <2>1, <3>1, GapsKept
    <3> QED BY <1>1, <2>3, <3>1, <3>2
  <2> QED BY <2>2, <2>3
<1>12. CountTypes'
  BY <1>a, <1>1, <1>2, <1>5, <1>8, <1>9, <1>10, <1>11 DEF CountTypes
<1>13. SamplesTally'
  <2>1. /\ "tsc_gap" \in all <=> Recording
        /\ "nic_gap" \in all <=> gap /\ stamped
        /\ "book_apply" \in all <=> Recording /\ "book_apply" \in hits
        /\ "pricing_decision" \in all <=> Recording /\ "pricing_decision" \in hits
        /\ "send" \in all <=> Recording /\ "send" \in hits
    BY <1>3 DEF Hits
  <2>2. /\ "send" \in hits => "pricing_decision" \in hits
        /\ "pricing_decision" \in hits => "book_apply" \in hits
    BY DEF Hits
  <2>3. Measured' = (IF Recording THEN Measured + 1 ELSE Measured)
        /\ Measured \in Nat
    BY <1>1, <1>2 DEF Recording, Measured
  <2>4. \A m \in Metrics : samples[m] \in Nat
    BY <1>1
  <2>5. \A m \in Metrics : samples'[m] = IF m \in all THEN samples[m] + 1 ELSE samples[m]
    BY <1>5
  <2>6. /\ samples["tsc_gap"] = Measured
        /\ samples["nic_gap"] = Len(nic_gaps)
        /\ samples["nic_gap"] <= samples["tsc_gap"]
        /\ ~unstamped => samples["nic_gap"] = samples["tsc_gap"]
        /\ samples["book_apply"] <= Measured
        /\ samples["pricing_decision"] <= samples["book_apply"]
        /\ samples["send"] = n_requoted
        /\ n_requoted <= samples["pricing_decision"]
    BY DEF CountInv, SamplesTally
  <2> HIDE DEF all
  <2>7. samples'["tsc_gap"] = Measured'
    BY <2>1, <2>3, <2>5, <2>6 DEF Metrics
  <2>8. samples'["nic_gap"] = Len(nic_gaps')
    BY <1>11, <2>1, <2>5, <2>6 DEF Metrics
  <2>9. samples'["nic_gap"] <= samples'["tsc_gap"]
    BY <2>1, <2>4, <2>5, <2>6 DEF Metrics
  <2>14. ~unstamped' => samples'["nic_gap"] = samples'["tsc_gap"]
    <3>1. ~unstamped' => ~unstamped /\ stamped
      BY DEF CountFrame
    <3> QED BY <1>3, <2>1, <2>5, <2>6, <3>1 DEF Metrics
  <2>10. samples'["book_apply"] <= Measured'
    BY <2>1, <2>3, <2>4, <2>5, <2>6 DEF Metrics
  <2>11. samples'["pricing_decision"] <= samples'["book_apply"]
    BY <2>1, <2>2, <2>4, <2>5, <2>6 DEF Metrics
  <2>12. samples'["send"] = n_requoted'
    BY <2>1, <2>4, <2>5, <2>6 DEF Metrics
  <2>13. samples'["send"] <= samples'["pricing_decision"]
    BY <2>1, <2>2, <2>4, <2>5, <2>6 DEF Metrics
  <2> QED BY <1>5, <2>7, <2>8, <2>9, <2>10, <2>11, <2>12, <2>13,
             <2>14 DEF SamplesTally
<1> QED BY <1>7, <1>11, <1>12, <1>13 DEF CountInv

LEMMA SurplusStep ==
    ASSUME CountInv, Len(arrivals) < MaxFrames, Arrives, SurplusFrame
    PROVE  CountInv'
<1> USE StrategyAssumption
<1>1. UNCHANGED <<n, have_prev, prev_nic_ns, samples, nic_gaps, unstamped,
                  overflowed, n_requoted>>
  BY DEF SurplusFrame
<1>2. /\ n \in Nat /\ n >= Total /\ Total \in Nat /\ prev_nic_ns \in Nat
      /\ arrivals \in Seq(Nat)
  BY DEF SurplusFrame, Wanted, CountInv, CountTypes, Total
<1>3. /\ Clock \in Nat /\ Clock' \in Nat /\ Clock <= Clock'
      /\ arrivals' \in Seq(Nat) /\ Len(arrivals') = Len(arrivals) + 1
      /\ Len(arrivals') <= MaxFrames /\ Len(arrivals) \in Nat
      /\ \A k \in 1 .. Len(arrivals) : arrivals'[k] = arrivals[k]
  BY <1>2, ArrivalStep
<1>4. CountTypes'
  BY <1>1, <1>3 DEF CountInv, CountTypes
<1>5. PrevInv'
  <2>1. /\ have_prev <=> n > 0
        /\ n <= Len(arrivals) /\ prev_nic_ns <= AsDouble(Clock)
    BY DEF CountInv, PrevInv
  <2>2. /\ AsDouble(Clock) \in Nat /\ AsDouble(Clock') \in Nat
        /\ AsDouble(Clock) <= AsDouble(Clock')
    BY <1>3, RoundedMonotone, RoundedNear
  <2>3. AsDouble(Clock)' = AsDouble(Clock')
    BY DEF AsDouble
  <2>4. n <= Len(arrivals') /\ prev_nic_ns <= AsDouble(Clock') /\ ~(n < Total)
    BY <1>2, <1>3, <2>1, <2>2
  <2> QED BY <1>1, <2>1, <2>3, <2>4 DEF PrevInv, Total
<1>6. SamplesTally'
  BY <1>1 DEF CountInv, SamplesTally, Measured
<1>7. NicGapsTrue'
  BY <1>1, <1>3, GapsKept
<1> QED BY <1>4, <1>5, <1>6, <1>7 DEF CountInv

-----------------------------------------------------------------------------
(* Quoting.                                                                *)

LEMMA CentsAreWords == ASSUME NEW x \in Int PROVE DollarsToCents(x) \in Word
<1> USE StrategyAssumption, WordAssumption
<1>1. /\ x >= 0 => (2 * x + Unit) \div (2 * Unit) \in Int
      /\ x < 0 => (Unit - 2 * x) \div (2 * Unit) \in Int
  OBVIOUS
<1>2. LRound(x) \in Int
  BY <1>1 DEF LRound
<1> QED BY <1>2 DEF DollarsToCents, Word

(* Division by a positive number rounds down.                              *)
LEMMA DivUnique ==
    ASSUME NEW k \in Nat \ {0}, NEW x \in Int, NEW q \in Int, NEW r \in 0 .. k - 1,
           x = q * k + r
    PROVE  x \div k = q /\ x % k = r
  OBVIOUS

LEMMA DivFacts ==
    ASSUME NEW k \in Nat \ {0}, NEW x \in Int
    PROVE  /\ x \div k \in Int /\ x % k \in 0 .. k - 1
           /\ x = (x \div k) * k + (x % k)
  OBVIOUS

(* The price in whole cents, halves up.                                    *)
Cents(price) == (2 * price + Unit) \div (2 * Unit)

LEMMA CentsNear ==
    ASSUME NEW price \in Nat
    PROVE  /\ Cents(price) \in Nat
           /\ 2 * (Unit * Cents(price)) <= 2 * price + Unit
           /\ 2 * price < 2 * (Unit * Cents(price)) + Unit
           /\ LRound(price + HalfSpread) = Cents(price) + 2
           /\ price >= HalfSpread => LRound(price - HalfSpread) = Cents(price) - 2
<1>1. PICK k \in Nat \ {0} : k = 2 * Unit
  BY StrategyAssumption
<1>2. PICK x \in Nat : x = 2 * price + Unit
  BY StrategyAssumption
<1>3. PICK c \in Int : c = x \div k
  BY <1>1, DivFacts
<1>4. PICK r \in 0 .. k - 1 : r = x % k
  BY <1>1, DivFacts
<1>5. x = c * k + r
  <2>1. x \in Int
    OBVIOUS
  <2>2. x = (x \div k) * k + (x % k)
    BY <2>1, DivFacts
  <2> QED BY <1>3, <1>4, <2>2
<1>6. Cents(price) = c
  BY <1>1, <1>2, <1>3 DEF Cents
<1>7. c \in Nat
  <2>1. SUFFICES ASSUME c < 0 PROVE FALSE
    OBVIOUS
  <2>2. c * k <= -k
    BY <2>1
  <2> QED BY <1>5, <2>2
<1>8. c * k = 2 * (Unit * c) /\ Unit * c \in Int /\ Unit \in Nat
  BY <1>1, StrategyAssumption
<1>9. /\ 2 * (Unit * c) <= 2 * price + Unit
      /\ 2 * price < 2 * (Unit * c) + Unit
  BY <1>1, <1>2, <1>5, <1>8
<1>10. (c + 2) * k = c * k + 2 * k /\ (c - 2) * k = c * k - 2 * k
  OBVIOUS
<1>11. c * k \in Int
  OBVIOUS
<1>12. HalfSpread = k
  BY <1>1 DEF HalfSpread
<1>13. LRound(price + HalfSpread) = c + 2
  <2>1. 2 * (price + k) + Unit = (c + 2) * k + r
    BY <1>2, <1>5, <1>8, <1>10, <1>11
  <2>2. 2 * (price + k) + Unit \in Int /\ c + 2 \in Int /\ price + k >= 0
    BY <1>8
  <2>3. (2 * (price + k) + Unit) \div k = c + 2
    BY <2>1, <2>2, DivUnique
  <2> QED BY <1>1, <1>12, <2>2, <2>3 DEF LRound
<1>14. ASSUME price >= HalfSpread PROVE LRound(price - HalfSpread) = c - 2
  <2>1. 2 * (price - k) + Unit = (c - 2) * k + r
    BY <1>2, <1>5, <1>8, <1>10, <1>11
  <2>2. 2 * (price - k) + Unit \in Int /\ c - 2 \in Int /\ price - k >= 0
    BY <1>8, <1>12, <1>14
  <2>3. (2 * (price - k) + Unit) \div k = c - 2
    BY <2>1, <2>2, DivUnique
  <2> QED BY <1>1, <1>12, <2>2, <2>3 DEF LRound
<1> QED BY <1>6, <1>7, <1>9, <1>13, <1>14

LEMMA QuoteEncodes == ASSUME NEW price \in Theos PROVE EncodeQuote(price) \in Packet
<1> DEFINE bid == DollarsToCents(price - HalfSpread)
           ask == DollarsToCents(price + HalfSpread)
           q == Quote(bid, QuoteQty, ask, QuoteQty)
<1>1. /\ bid \in Word /\ ask \in Word /\ QuoteQty \in Word
      /\ \A w \in Word : Bswap32[w] \in Word
  BY StrategyAssumption, WordAssumption, CentsAreWords DEF HalfSpread
<1>2. q.type = "Quote" /\ SizeOf(q) = 25
  BY DEF Quote, SizeOf
<1>3. SwapFields(q) = Quote(Bswap32[bid], Bswap32[QuoteQty], Bswap32[ask],
                            Bswap32[QuoteQty])
  BY DEF SwapFields, Quote
<1>4. SwapFields(q) \in Body
  BY <1>1, <1>3 DEF Quote, Body, Message, QuoteMessage
<1>5. Bswap16(25) \in HalfWord
  BY DEF Bswap16, HalfWord
<1>6. EncodeQuote(price) = [size |-> 27, wire_len |-> Bswap16(25),
                            body |-> SwapFields(q)]
  BY <1>2 DEF EncodeQuote, WriteMessage, LenPrefix
<1> QED BY <1>4, <1>5, <1>6 DEF Packet

(* What a listener decodes is what was encoded.                            *)
LEMMA QuoteDecodes ==
    ASSUME NEW price \in Theos
    PROVE  LET q == ParsePacket(EncodeQuote(price)) IN
           /\ q.type = "Quote"
           /\ q.bid_price = DollarsToCents(price - HalfSpread)
           /\ q.ask_price = DollarsToCents(price + HalfSpread)
<1> DEFINE bid == DollarsToCents(price - HalfSpread)
           ask == DollarsToCents(price + HalfSpread)
           q == Quote(bid, QuoteQty, ask, QuoteQty)
           wire == Quote(Bswap32[bid], Bswap32[QuoteQty], Bswap32[ask],
                         Bswap32[QuoteQty])
<1>1. bid \in Word /\ ask \in Word /\ QuoteQty \in Word
  BY StrategyAssumption, CentsAreWords DEF HalfSpread
<1>2. /\ Bswap32[Bswap32[bid]] = bid /\ Bswap32[Bswap32[ask]] = ask
      /\ Bswap32[Bswap32[QuoteQty]] = QuoteQty
  BY <1>1, WordAssumption
<1> HIDE DEF bid, ask
<1>3. q.type = "Quote" /\ SizeOf(q) = 25 /\ wire.type = "Quote" /\ SizeOf(wire) = 25
  BY DEF Quote, SizeOf
<1>4. SwapFields(q) = wire
  BY DEF SwapFields, Quote
<1>5. SwapFields(wire) = q
  BY <1>2 DEF SwapFields, Quote
<1>6. EncodeQuote(price) = [size |-> 27, wire_len |-> Bswap16(25), body |-> wire]
  BY <1>3, <1>4 DEF EncodeQuote, WriteMessage, LenPrefix, bid, ask
<1>7. Bswap16(Bswap16(25)) = 25
  BY DEF Bswap16
<1> HIDE DEF q, wire
<1>8. ParsePacket(EncodeQuote(price)) = q
  BY <1>3, <1>5, <1>6, <1>7 DEF ParsePacket, ParsePayload, LenPrefix
<1>9. q.bid_price = bid /\ q.ask_price = ask
  BY DEF q, Quote
<1> QED BY <1>3, <1>8, <1>9 DEF bid, ask

LEMMA SmallWords ==
    ASSUME NEW x \in Int
    PROVE  /\ WordMod \in Nat \ {0}
           /\ x \in 0 .. WordMod - 1 => x % WordMod = x
           /\ x \in -WordMod .. -1 => x % WordMod = x + WordMod
<1>1. WordMod \in Nat \ {0}
  BY WordAssumption
<1>2. ASSUME x \in 0 .. WordMod - 1 PROVE x % WordMod = x
  <2>1. x = 0 * WordMod + x
    BY <1>1
  <2> QED BY <1>1, <1>2, <2>1, DivUnique
<1>3. ASSUME x \in -WordMod .. -1 PROVE x % WordMod = x + WordMod
  <2>1. x = (-1) * WordMod + (x + WordMod) /\ x + WordMod \in 0 .. WordMod - 1
    BY <1>1, <1>3
  <2>2. -1 \in Int
    OBVIOUS
  <2> QED BY <1>1, <2>1, <2>2, DivUnique
<1> QED BY <1>1, <1>2, <1>3

(* A price of 2 cents or more whose ask fits a word is straddled.          *)
LEMMA Straddles ==
    ASSUME NEW price \in Nat, price \in HalfSpread .. Unit * (WordMod - 1) - HalfSpread
    PROVE  LET bid == DollarsToCents(price - HalfSpread)
               ask == DollarsToCents(price + HalfSpread)
           IN ask - bid = 4 /\ Unit * bid <= price /\ price <= Unit * ask
<1>1. PICK c \in Nat : c = Cents(price)
  BY CentsNear
<1>2. /\ 2 * (Unit * c) <= 2 * price + Unit
      /\ 2 * price < 2 * (Unit * c) + Unit
      /\ LRound(price + HalfSpread) = c + 2
      /\ LRound(price - HalfSpread) = c - 2
  BY <1>1, CentsNear, StrategyAssumption DEF HalfSpread
<1>3. Unit \in Nat \ {0} /\ WordMod \in Nat \ {0} /\ Unit * c \in Int
  BY StrategyAssumption, WordAssumption
<1>4. Unit * (c + 2) = Unit * c + 2 * Unit /\ Unit * (c - 2) = Unit * c - 2 * Unit
  BY <1>3
<1>5. price >= 2 * Unit /\ price + 2 * Unit <= Unit * (WordMod - 1)
  BY <1>3 DEF HalfSpread
<1>6. c >= 2
  <2>1. SUFFICES ASSUME c <= 1 PROVE FALSE
    OBVIOUS
  <2>2. Unit * c <= Unit
    BY <1>3, <2>1
  <2> QED BY <1>2, <1>3, <1>5, <2>2
<1>7. c + 2 <= WordMod - 1
  <2>1. SUFFICES ASSUME c + 2 >= WordMod PROVE FALSE
    BY <1>3
  <2>2. Unit * (c + 2) >= Unit * WordMod /\ Unit * (WordMod - 1) = Unit * WordMod - Unit
    BY <1>3, <2>1
  <2>3. Unit * WordMod \in Int
    BY <1>3
  <2> QED BY <1>2, <1>3, <1>4, <1>5, <2>2, <2>3
<1>8. c + 2 \in 0 .. WordMod - 1 /\ c - 2 \in 0 .. WordMod - 1
  BY <1>3, <1>6, <1>7
<1>9. /\ DollarsToCents(price + HalfSpread) = c + 2
      /\ DollarsToCents(price - HalfSpread) = c - 2
  BY <1>2, <1>8, SmallWords DEF DollarsToCents
<1>10. Unit * (c - 2) <= price /\ price <= Unit * (c + 2)
  BY <1>2, <1>3, <1>4
<1> QED BY <1>9, <1>10

(* Below a cent and a half the bid wraps and is above the ask.             *)
LEMMA Crosses ==
    ASSUME NEW price \in Nat, 2 * price <= 2 * HalfSpread - Unit
    PROVE  DollarsToCents(price - HalfSpread) > DollarsToCents(price + HalfSpread)
<1>1. PICK c \in Nat : c = Cents(price)
  BY CentsNear
<1>2. /\ 2 * (Unit * c) <= 2 * price + Unit
      /\ 2 * price < 2 * (Unit * c) + Unit
      /\ LRound(price + HalfSpread) = c + 2
  BY <1>1, CentsNear
<1>3. /\ Unit \in Nat \ {0} /\ WordMod \in Nat /\ WordMod > 5
      /\ Unit * c \in Int /\ 2 * price <= 3 * Unit
  BY StrategyAssumption, WordAssumption DEF Word, HalfSpread
<1>4. PICK k \in Nat \ {0} : k = 2 * Unit
  BY <1>3
<1>5. PICK y \in Int : y = Unit - 2 * (price - HalfSpread)
  BY <1>3 DEF HalfSpread
<1>6. y = 5 * Unit - 2 * price /\ price - HalfSpread < 0
  BY <1>3, <1>5 DEF HalfSpread
<1>7. PICK d \in Int : d = y \div k
  BY DivFacts
<1>8. PICK r \in 0 .. k - 1 : y = d * k + r
  <2>1. y = (y \div k) * k + (y % k) /\ y % k \in 0 .. k - 1
    BY DivFacts
  <2> QED BY <1>7, <2>1
<1>9. LRound(price - HalfSpread) = -d
  <2>1. ~(price - HalfSpread >= 0)
    BY <1>3, <1>6 DEF HalfSpread
  <2>2. LRound(price - HalfSpread) = -((Unit - 2 * (price - HalfSpread)) \div (2 * Unit))
    BY <2>1 DEF LRound
  <2> QED BY <1>4, <1>5, <1>7, <2>2
<1>10. d * k = 2 * (Unit * d) /\ Unit * d \in Int
  BY <1>3, <1>4
<1>11. d >= 1
  <2>1. SUFFICES ASSUME d <= 0 PROVE FALSE
    OBVIOUS
  <2>2. d * k <= 0
    BY <2>1
  <2> QED BY <1>3, <1>4, <1>6, <1>8, <1>10, <2>2
<1>12. d <= 2
  <2>1. SUFFICES ASSUME d >= 3 PROVE FALSE
    OBVIOUS
  <2>2. d * k >= 3 * k
    BY <2>1
  <2> QED BY <1>3, <1>4, <1>6, <1>8, <1>10, <2>2
<1>13. c <= 2
  <2>1. SUFFICES ASSUME c >= 3 PROVE FALSE
    OBVIOUS
  <2>2. Unit * c >= 3 * Unit
    BY <1>3, <2>1
  <2> QED BY <1>2, <1>3, <2>2
<1>14. d = 2 => c <= 1
  <2>1. SUFFICES ASSUME d = 2, c = 2 PROVE FALSE
    BY <1>13
  <2>2. Unit * c = 2 * Unit /\ d * k = 4 * Unit
    BY <1>3, <1>4, <2>1
  <2> QED BY <1>2, <1>3, <1>6, <1>8, <2>2
<1>15. DollarsToCents(price + HalfSpread) = c + 2
  BY <1>2, <1>3, <1>13, SmallWords DEF DollarsToCents
<1>16. DollarsToCents(price - HalfSpread) = -d + WordMod
  BY <1>3, <1>9, <1>11, <1>12, SmallWords DEF DollarsToCents
<1> QED BY <1>3, <1>11, <1>12, <1>13, <1>14, <1>15, <1>16

LEMMA QuoteUnchanged == ASSUME QuoteInv, UNCHANGED quoteVars PROVE QuoteInv'
BY DEF QuoteInv, QuoteTypes, QuotedInv, quoteVars, AbsDiff, Threshold

(* A new quote is at the price just computed, and if it left and so had    *)
(* the one before it, the two are a threshold apart.                       *)
LEMMA RequoteStep ==
    ASSUME QuoteInv, NEW price \in Theos, NEW sent \in BOOLEAN, theo' = price,
           ShouldRequote(price), Requote(price, sent)
    PROVE  QuoteInv'
<1> USE StrategyAssumption
<1>1. /\ price \in Nat /\ last_quoted_theo \in Nat /\ market \in Seq(Theos)
      /\ have_quote' = TRUE /\ last_quoted_theo' = price
      /\ out_buf' = EncodeQuote(price)
  BY DEF QuoteInv, QuoteTypes, Requote
<1>2. failed' \in BOOLEAN /\ (~failed' => ~failed /\ sent)
  BY DEF Requote, QuoteInv, QuoteTypes
<1>3. AbsDiff(price, price) < Threshold
  BY <1>1 DEF AbsDiff, Threshold
<1>4. CASE sent
  <2>1. market' = Append(market, price)
    BY <1>4 DEF Requote
  <2>2. /\ market' \in Seq(Theos)
        /\ Len(market') = Len(market) + 1
        /\ \A i \in 1 .. Len(market) : market'[i] = market[i]
        /\ market'[Len(market) + 1] = price
    BY <1>1, <2>1, AppendProperties
  <2>3. QuoteTypes'
    BY <1>1, <1>2, <2>2, QuoteEncodes DEF QuoteTypes
  <2>4. ASSUME ~failed', NEW i \in 1 .. Len(market)
        PROVE  AbsDiff(market'[i + 1], market'[i]) >= Threshold
    <3>1. CASE i < Len(market)
      <4>1. i \in 1 .. Len(market) - 1 /\ i + 1 \in 1 .. Len(market)
        BY <1>1, <3>1
      <4>2. AbsDiff(market[i + 1], market[i]) >= Threshold
        BY <1>2, <2>4, <4>1 DEF QuoteInv, QuotedInv
      <4> QED BY <2>2, <4>1, <4>2
    <3>2. CASE i = Len(market)
      <4>1. market # <<>>
        BY <1>1, <3>2
      <4>2. have_quote /\ market[i] = last_quoted_theo
        BY <1>2, <2>4, <3>2, <4>1 DEF QuoteInv, QuotedInv
      <4>3. AbsDiff(price, last_quoted_theo) >= Threshold
        BY <4>2 DEF ShouldRequote
      <4> QED BY <2>2, <3>2, <4>2, <4>3
    <3> QED BY <1>1, <3>1, <3>2
  <2>5. market' # <<>> /\ Len(market') - 1 = Len(market)
    BY <1>1, <2>2
  <2>6. QuotedInv'
    BY <1>1, <1>3, <2>2, <2>4, <2>5 DEF QuotedInv, AbsDiff, Threshold
  <2> QED BY <2>3, <2>6 DEF QuoteInv
<1>5. CASE ~sent
  <2>1. market' = market /\ failed'
    BY <1>5 DEF Requote
  <2>2. QuoteTypes'
    BY <1>1, <1>2, <2>1, QuoteEncodes DEF QuoteTypes
  <2>3. QuotedInv'
    BY <1>1, <1>3, <2>1 DEF QuotedInv, AbsDiff, Threshold
  <2> QED BY <2>2, <2>3 DEF QuoteInv
<1> QED BY <1>4, <1>5

(* No new quote: the price is within a threshold of the last one.          *)
LEMMA KeepQuoteStep ==
    ASSUME QuoteInv, NEW price \in Theos, theo' = price, ~ShouldRequote(price),
           UNCHANGED <<have_quote, last_quoted_theo, out_buf, market, failed>>
    PROVE  QuoteInv'
<1>1. have_quote /\ ~(AbsDiff(price, last_quoted_theo) >= Threshold)
  BY DEF ShouldRequote
<1>2. AbsDiff(price, last_quoted_theo) < Threshold
  BY <1>1, StrategyAssumption DEF AbsDiff, Threshold, QuoteInv, QuoteTypes
<1> QED BY <1>1, <1>2 DEF QuoteInv, QuoteTypes, QuotedInv, AbsDiff, Threshold

-----------------------------------------------------------------------------
LEMMA InitIInv == Init => IInv
<1> SUFFICES ASSUME Init PROVE IInv
  OBVIOUS
<1> USE StrategyAssumption DEF Init
<1>0. /\ n \in 0 .. Total /\ prev_nic_ns \in Nat /\ n_requoted \in Nat
      /\ samples \in [Metrics -> 0 .. Count] /\ arrivals \in Seq(Nat)
      /\ Len(arrivals) <= MaxFrames
      /\ last_quoted_theo \in Nat /\ theo \in Theos \cup {-1}
      /\ nic_gaps \in Seq(Nat) /\ market \in Seq(Theos)
  BY DEF Total
<1>1. Clock \in Nat /\ AsDouble(Clock) \in Nat
  BY RoundedNear DEF Clock
<1>2. CountTypes
  BY <1>0, ZenonT(30) DEF CountTypes
<1>3. PrevInv
  BY <1>1 DEF PrevInv
<1>4. SamplesTally /\ NicGapsTrue
  BY DEF SamplesTally, NicGapsTrue, Metrics, Measured
<1>5. NoQuote \in Packet
  BY DEF NoQuote, Packet, HalfWord, Body
<1>6. QuoteTypes
  BY <1>0, <1>5, ZenonT(30) DEF QuoteTypes
<1>7. QuotedInv
  BY DEF QuotedInv
<1> QED BY <1>2, <1>3, <1>4, <1>6, <1>7 DEF IInv, CountInv, QuoteInv

LEMMA StepIInv == IInv /\ [Next]_vars => IInv'
<1> SUFFICES ASSUME IInv, [Next]_vars PROVE IInv'
  OBVIOUS
<1>0. CountInv /\ QuoteInv
  BY DEF IInv
<1>1. CASE Next
  <2>1. Len(arrivals) < MaxFrames /\ Arrives
    BY <1>1 DEF Next, Arrives
  <2>2. CASE SurplusFrame
    BY <1>0, <2>1, <2>2, SurplusStep, QuoteUnchanged DEF IInv, SurplusFrame
  <2>3. ASSUME NEW stamped \in BOOLEAN, ShortFrame(stamped)
        PROVE  IInv'
    <3>1. CountFrame(stamped, {}) /\ UNCHANGED <<n_requoted, quoteVars>>
      BY <2>3 DEF ShortFrame
    <3>2. {} \in Hits /\ "send" \notin {}
      BY DEF Hits
    <3>3. CountInv'
      BY <1>0, <2>1, <3>1, <3>2, CountFrameStep
    <3> QED BY <1>0, <3>1, <3>3, QuoteUnchanged DEF IInv
  <2>4. ASSUME NEW stamped \in BOOLEAN, UnpricedFrame(stamped)
        PROVE  IInv'
    <3>1. CountFrame(stamped, {"book_apply"}) /\ UNCHANGED <<n_requoted, quoteVars>>
      BY <2>4 DEF UnpricedFrame
    <3>2. {"book_apply"} \in Hits /\ "send" \notin {"book_apply"}
      BY DEF Hits
    <3>3. CountInv'
      BY <1>0, <2>1, <3>1, <3>2, CountFrameStep
    <3> QED BY <1>0, <3>1, <3>3, QuoteUnchanged DEF IInv
  <2>5. ASSUME NEW stamped \in BOOLEAN, NEW price \in Theos, NEW sent \in BOOLEAN,
               PricedFrame(stamped, price, sent)
        PROVE  IInv'
    <3>0. theo' = price
      BY <2>5 DEF PricedFrame
    <3>1. CASE ShouldRequote(price)
      <4> DEFINE hits == {"book_apply", "pricing_decision", "send"}
      <4>1. CountFrame(stamped, hits) /\ Requote(price, sent)
        BY <2>5, <3>1 DEF PricedFrame
      <4>2. hits \in Hits /\ "send" \in hits
        BY DEF Hits
      <4>3. n_requoted' = IF Recording THEN n_requoted + 1 ELSE n_requoted
        BY <4>1 DEF Requote
      <4>4. n_requoted' = IF Recording /\ "send" \in hits THEN n_requoted + 1
                          ELSE n_requoted
        BY <4>2, <4>3
      <4> HIDE DEF hits
      <4>5. CountInv'
        BY <1>0, <2>1, <4>1, <4>2, <4>4, CountFrameStep
      <4>6. QuoteInv'
        BY <1>0, <3>0, <3>1, <4>1, RequoteStep
      <4> QED BY <4>5, <4>6 DEF IInv
    <3>2. CASE ~ShouldRequote(price)
      <4> DEFINE hits == {"book_apply", "pricing_decision"}
      <4>1. /\ CountFrame(stamped, hits)
            /\ UNCHANGED <<n_requoted, have_quote, last_quoted_theo, out_buf,
                           market, failed>>
        BY <2>5, <3>2 DEF PricedFrame
      <4>2. hits \in Hits /\ "send" \notin hits
        BY DEF Hits
      <4> HIDE DEF hits
      <4>3. CountInv'
        BY <1>0, <2>1, <4>1, <4>2, CountFrameStep
      <4>4. QuoteInv'
        BY <1>0, <3>0, <3>2, <4>1, KeepQuoteStep
      <4> QED BY <4>3, <4>4 DEF IInv
    <3> QED BY <3>1, <3>2
  <2> QED BY <1>1, <2>2, <2>3, <2>4, <2>5 DEF Next
<1>2. CASE UNCHANGED vars
  <2>1. CountInv'
    BY <1>0, <1>2 DEF vars, countVars, CountInv, CountTypes, PrevInv, SamplesTally,
       NicGapsTrue, Measured, TrueGap, NsToTsc, AsDouble, Clock
  <2>2. QuoteInv'
    BY <1>0, <1>2, QuoteUnchanged DEF vars
  <2> QED BY <2>1, <2>2 DEF IInv
<1> QED BY <1>1, <1>2

-----------------------------------------------------------------------------
(* The strengthened invariant of the callback: the samples tally and the   *)
(* gaps are true because there is a frame before each measured one, and    *)
(* the quote tracks the price because last_quoted_theo is the price of the *)
(* last quote in the market until a send() fails.                          *)
THEOREM Inductive == Spec => []IInv
BY InitIInv, StepIInv, PTL DEF Spec

(* The callback's state is well typed always: no count passes its          *)
(* capacity, and no gap is negative.                                       *)
THEOREM TypeCorrect == Spec => []TypeOK
<1>1. IInv => TypeOK
  BY DEF IInv, CountInv, QuoteInv, CountTypes, QuoteTypes, TypeOK
<1> QED BY <1>1, Inductive, PTL

(* Every sample fits and they tally across the warm-up and end boundaries, *)
(* for every count and warm-up (exchange_strategy.cpp:168-264).            *)
THEOREM Tally == Spec => []SamplesTally
<1>1. IInv => SamplesTally
  BY DEF IInv, CountInv
<1> QED BY <1>1, Inductive, PTL

(* While every frame carries a timestamp, each NIC gap is, in cycles, the  *)
(* time between its own frame and the one right before it, to within one   *)
(* spacing of the doubles (185-195): whatever lies between other frames,   *)
(* for every such spacing and every rate of the TSC.                       *)
THEOREM GapsTrue == Spec => []NicGapsTrue
<1>1. IInv => NicGapsTrue
  BY DEF IInv, CountInv
<1> QED BY <1>1, Inductive, PTL

(* Until a send() fails the quote in the market is within a threshold of   *)
(* the theoretical price after each repricing, and two quotes in a row are *)
(* a threshold apart, for every sequence of prices (246-263).              *)
THEOREM TracksTheo == Spec => []QuoteTracksTheo
<1>1. IInv => QuoteTracksTheo
  <2> SUFFICES ASSUME IInv, ~failed
               PROVE  /\ theo >= 0 => /\ market # <<>>
                                      /\ AbsDiff(theo, market[Len(market)]) < Threshold
                      /\ \A i \in 1 .. Len(market) - 1 :
                            AbsDiff(market[i + 1], market[i]) >= Threshold
    BY DEF QuoteTracksTheo
  <2>1. QuotedInv
    BY DEF IInv, QuoteInv
  <2>2. theo >= 0 => have_quote /\ AbsDiff(theo, last_quoted_theo) < Threshold
    BY <2>1 DEF QuotedInv
  <2>3. have_quote => market # <<>> /\ market[Len(market)] = last_quoted_theo
    BY <2>1 DEF QuotedInv
  <2>4. \A i \in 1 .. Len(market) - 1 : AbsDiff(market[i + 1], market[i]) >= Threshold
    BY <2>1 DEF QuotedInv
  <2> QED BY <2>2, <2>3, <2>4
<1> QED BY <1>1, Inductive, PTL

(* What a listener decodes straddles the price by 2 cents each side, from  *)
(* 2 cents up to what a word holds, and is crossed below a cent and a half *)
(* (65-69, 90-111), for every price, rounding and word size.               *)
THEOREM StraddlesTheo == Spec => []QuoteStraddlesTheo
<1>1. IInv => QuoteStraddlesTheo
  <2> SUFFICES ASSUME IInv, out_buf # NoQuote
               PROVE  /\ SentQuote.type = "Quote"
                      /\ last_quoted_theo \in HalfSpread .. Unit * (WordMod - 1) - HalfSpread =>
                          /\ SentQuote.ask_price - SentQuote.bid_price = 4
                          /\ Unit * SentQuote.bid_price <= last_quoted_theo
                          /\ last_quoted_theo <= Unit * SentQuote.ask_price
                      /\ 2 * last_quoted_theo <= 2 * HalfSpread - Unit =>
                          SentQuote.bid_price > SentQuote.ask_price
    BY DEF QuoteStraddlesTheo
  <2>1. PICK price \in Theos : price = last_quoted_theo /\ out_buf = EncodeQuote(price)
    BY DEF IInv, QuoteInv, QuotedInv
  <2>2. price \in Nat
    BY StrategyAssumption
  <2>3. /\ SentQuote.type = "Quote"
        /\ SentQuote.bid_price = DollarsToCents(price - HalfSpread)
        /\ SentQuote.ask_price = DollarsToCents(price + HalfSpread)
    BY <2>1, QuoteDecodes DEF SentQuote
  <2> QED BY <2>1, <2>2, <2>3, Straddles, Crosses
<1> QED BY <1>1, Inductive, PTL

-----------------------------------------------------------------------------
(* The estimator the callback feeds with mids (224-230): for any window,   *)
(* prices and times it holds the returns between the newest observations,  *)
(* and is exact until it has to drop one.                                  *)
Observation == [price : LogPrices, ns : Nat]

(* The newest return ends at the last observation, the ones before it at   *)
(* the ones before that; the window has all of them or is full.            *)
Slid ==
    /\ have_prev_ <=> seen # <<>>
    /\ seen = <<>> => returns = <<>>
    /\ seen # <<>> =>
        /\ prev_price = seen[Len(seen)].price
        /\ Len(returns) = IF Len(seen) > Window THEN Window ELSE Len(seen) - 1
        /\ \A i \in 1 .. Len(returns) :
            returns[i] = seen[Len(seen) - Len(returns) + i].price
                            - seen[Len(seen) - Len(returns) + i - 1].price

VolInv == VolTypeOK /\ Slid

LEMMA InitVol == ASSUME VolInit PROVE VolInv
<1>1. /\ Window \in Nat /\ MaxObs \in Nat
  BY VolAssumption
<1>2. /\ returns = <<>> /\ seen = <<>> /\ Len(returns) = 0 /\ Len(seen) = 0
      /\ returns \in Seq(Int) /\ seen \in Seq([price : LogPrices, ns : Nat])
  BY DEF VolInit
<1>3. VolTypeOK
  <2>1. Len(returns) <= Window /\ Len(seen) <= MaxObs
    BY <1>1, <1>2
  <2>2. prev_price = 0 /\ prev_ns = 0 /\ last_ns = 0 /\ first_ns = -1
    BY DEF VolInit
  <2>3. /\ prev_price \in LogPrices \cup {0} /\ first_ns \in Nat \cup {-1}
        /\ prev_ns \in Nat /\ last_ns \in Nat
    BY <2>2
  <2>4. have_prev_ \in BOOLEAN
    BY DEF VolInit
  <2> QED BY <1>2, <2>1, <2>3, <2>4 DEF VolTypeOK
<1>4. Slid
  BY <1>2 DEF VolInit, Slid
<1> QED BY <1>3, <1>4 DEF VolInv

(* One more return, at the end; a full window loses its first.             *)
LEMMA Pushed ==
    ASSUME NEW rs \in Seq(Int), Len(rs) <= Window, NEW r \in Int
    PROVE  /\ Push(rs, r) \in Seq(Int)
           /\ Len(Push(rs, r)) = IF Len(rs) = Window THEN Window ELSE Len(rs) + 1
           /\ Push(rs, r)[Len(Push(rs, r))] = r
           /\ \A i \in 1 .. Len(Push(rs, r)) - 1 :
                Push(rs, r)[i] = rs[i + Len(rs) + 1 - Len(Push(rs, r))]
<1> DEFINE q == Push(rs, r)  L == Len(rs)
<1>1. L \in Nat /\ Window \in Nat \ {0} /\ L <= Window
  BY VolAssumption
<1>2. CASE L = Window
  <2> DEFINE tl == Tail(rs)
  <2>1. tl \in Seq(Int) /\ Len(tl) = L - 1 /\ \A i \in 1 .. L - 1 : tl[i] = rs[i + 1]
    BY <1>1, <1>2
  <2> HIDE DEF tl
  <2>2. q = Append(tl, r)
    BY <1>1, <1>2 DEF Push, tl
  <2> HIDE DEF q, L
  <2>3. /\ q \in Seq(Int) /\ Len(q) = L /\ q[L] = r
        /\ \A i \in 1 .. L - 1 : q[i] = tl[i]
    BY <1>1, <1>2, <2>1, <2>2
  <2>4. ASSUME NEW i \in 1 .. Len(q) - 1 PROVE q[i] = rs[i + L + 1 - Len(q)]
    <3>1. i \in 1 .. L - 1 /\ i + L + 1 - Len(q) = i + 1
      BY <1>1, <2>3
    <3> QED BY <2>1, <2>3, <3>1
  <2> QED BY <1>2, <2>3, <2>4 DEF q, L
<1>3. CASE L # Window
  <2>1. q = Append(rs, r)
    BY <1>1, <1>3 DEF Push
  <2>2. /\ q \in Seq(Int) /\ Len(q) = L + 1 /\ q[L + 1] = r
        /\ \A i \in 1 .. L : q[i] = rs[i]
    BY <2>1
  <2> HIDE DEF q, L
  <2>3. ASSUME NEW i \in 1 .. Len(q) - 1 PROVE q[i] = rs[i + L + 1 - Len(q)]
    <3>1. i \in 1 .. L /\ i + L + 1 - Len(q) = i
      BY <1>1, <2>2
    <3> QED BY <2>2, <3>1
  <2> QED BY <1>3, <2>2, <2>3 DEF q, L
<1> QED BY <1>2, <1>3

LEMMA ObserveStep ==
    ASSUME VolInv, NEW price \in LogPrices, NEW dt \in TimeSteps,
           Len(seen) < MaxObs, Observe(price, prev_ns + dt)
    PROVE  VolInv'
<1> DEFINE now == prev_ns + dt  o == [price |-> price, ns |-> now]  k == Len(seen)
<1>1. now \in Nat /\ price \in Int
  BY VolAssumption DEF VolInv, VolTypeOK
<1>2. o \in Observation /\ o.price = price
  BY <1>1 DEF Observation
<1>3. /\ have_prev_' = TRUE /\ prev_price' = price /\ prev_ns' = now
      /\ seen' = Append(seen, o)
      /\ IF have_prev_
         THEN /\ returns' = Push(returns, price - prev_price)
              /\ first_ns' = SpanStart(now)
              /\ last_ns' = now
         ELSE UNCHANGED <<returns, first_ns, last_ns>>
  BY DEF Observe
<1>4. seen \in Seq(Observation) /\ k \in Nat /\ k < MaxObs
  BY DEF VolInv, VolTypeOK, Observation
<1> HIDE DEF now, o
<1>5. /\ seen' \in Seq(Observation) /\ Len(seen') = k + 1 /\ seen' # <<>>
      /\ seen'[k + 1].price = price
      /\ \A i \in 1 .. k : seen'[i] = seen[i]
  BY <1>2, <1>3, <1>4
<1> HIDE DEF k
<1>6. \A i \in 1 .. k : seen[i].price \in Int
  <2>1. \A i \in 1 .. k : seen[i] \in Observation
    BY <1>4 DEF k
  <2> QED BY <2>1, VolAssumption DEF Observation
<1>7. /\ returns \in Seq(Int) /\ Len(returns) \in Nat /\ Len(returns) <= Window
      /\ Window \in Nat \ {0} /\ MaxObs \in Nat
  BY VolAssumption DEF VolInv, VolTypeOK
<1>8. /\ prev_price' \in LogPrices \cup {0} /\ prev_ns' \in Nat /\ have_prev_' \in BOOLEAN
      /\ seen' \in Seq([price : LogPrices, ns : Nat]) /\ Len(seen') <= MaxObs
  BY <1>1, <1>3, <1>4, <1>5, <1>7 DEF Observation
<1>9. first_ns' \in Nat \cup {-1} /\ last_ns' \in Nat
  BY <1>1, <1>3 DEF VolInv, VolTypeOK, SpanStart
<1>10. CASE seen = <<>>
  <2>1. k = 0 /\ returns' = returns /\ ~have_prev_
    BY <1>3, <1>10 DEF VolInv, Slid, k
  <2>2. returns = <<>> /\ Len(returns) = 0
    BY <1>10 DEF VolInv, Slid
  <2> QED BY <1>3, <1>5, <1>7, <1>8, <1>9, <2>1, <2>2 DEF VolInv, VolTypeOK, Slid
<1>11. CASE seen # <<>>
  <2> DEFINE r == price - prev_price  L == Len(returns)
  <2>1. /\ have_prev_ /\ k > 0 /\ prev_price = seen[k].price
        /\ L = IF k > Window THEN Window ELSE k - 1
        /\ \A i \in 1 .. L : returns[i] = seen[k - L + i].price - seen[k - L + i - 1].price
    BY <1>4, <1>11 DEF VolInv, Slid, k
  <2>2. r \in Int /\ L \in Nat /\ k \in Nat /\ L < k
    BY <1>1, <1>4, <1>6, <1>7, <2>1 DEF k
  <2>3. returns' = Push(returns, r)
    BY <1>3, <2>1
  <2> DEFINE L1 == Len(returns')
  <2>4. /\ returns' \in Seq(Int) /\ L1 = IF L = Window THEN Window ELSE L + 1
        /\ returns'[L1] = r
        /\ \A i \in 1 .. L1 - 1 : returns'[i] = returns[i + L + 1 - L1]
    BY <1>7, <2>2, <2>3, Pushed
  <2> HIDE DEF r, L, L1
  <2>5. L1 = (IF k + 1 > Window THEN Window ELSE k) /\ L1 \in Nat /\ L1 <= Window
    BY <1>7, <2>1, <2>2, <2>4
  <2>6. ASSUME NEW i \in 1 .. L1
        PROVE  returns'[i] = seen'[k + 1 - L1 + i].price - seen'[k + 1 - L1 + i - 1].price
    <3>1. CASE i = L1
      <4>1. k + 1 - L1 + i = k + 1 /\ k + 1 - L1 + i - 1 = k
        BY <2>2, <2>5, <3>1
      <4>2. seen'[k] = seen[k]
        <5>1. k \in 1 .. k
          BY <2>1, <2>2
        <5> QED BY <1>5, <5>1
      <4> QED BY <1>5, <2>1, <2>4, <3>1, <4>1, <4>2 DEF r
    <3>2. CASE i # L1
      <4> DEFINE j == i + L + 1 - L1
      <4>1. i \in 1 .. L1 - 1 /\ j \in 1 .. L
        BY <2>2, <2>4, <2>5, <3>2
      <4>2. /\ k - L + j = k + 1 - L1 + i /\ k - L + j - 1 = k + 1 - L1 + i - 1
            /\ k - L + j \in 1 .. k /\ k - L + j - 1 \in 1 .. k
        BY <2>2, <2>5, <4>1
      <4> HIDE DEF j
      <4>3. returns'[i] = returns[j]
        BY <2>4, <4>1 DEF j
      <4>4. returns[j] = seen[k - L + j].price - seen[k - L + j - 1].price
        BY <2>1, <4>1
      <4>5. /\ seen'[k - L + j] = seen[k - L + j]
            /\ seen'[k - L + j - 1] = seen[k - L + j - 1]
        BY <1>5, <4>2
      <4> QED BY <4>2, <4>3, <4>4, <4>5
    <3> QED BY <3>1, <3>2
  <2>7. VolTypeOK'
    BY <1>8, <1>9, <2>4, <2>5 DEF VolTypeOK, L1
  <2>8. Slid'
    <3>1. Len(seen') - Len(returns') = k + 1 - L1
      <4>1. \A x \in Nat : x - L1 = k + 1 - L1 <=> x = k + 1
        BY <2>2, <2>5
      <4> QED BY <1>5, <2>2, <4>1 DEF L1
    <3>2. Len(returns') = IF Len(seen') > Window THEN Window ELSE Len(seen') - 1
      BY <1>5, <2>2, <2>5 DEF L1
    <3>3. \A i \in 1 .. Len(returns') :
            returns'[i] = seen'[Len(seen') - Len(returns') + i].price
                            - seen'[Len(seen') - Len(returns') + i - 1].price
      BY <2>6, <3>1 DEF L1
    <3> QED BY <1>3, <1>5, <3>2, <3>3 DEF Slid
  <2> QED BY <2>7, <2>8 DEF VolInv
<1> QED BY <1>10, <1>11

(* What the window holds, as a function of the observations, is inductive  *)
(* together with the types (RealizedVol.hpp 23-38).                        *)
THEOREM VolInductive == VolSpec => []VolInv
<1>1. VolInv /\ [VolNext]_vol_vars => VolInv'
  <2>1. VolInv /\ UNCHANGED vol_vars => VolInv'
    BY DEF VolInv, VolTypeOK, Slid, vol_vars
  <2> QED BY <2>1, ObserveStep DEF VolNext
<1> QED BY <1>1, InitVol, PTL DEF VolSpec

(* The estimator never holds more than a window of returns.                *)
THEOREM VolTypeCorrect == VolSpec => []VolTypeOK
<1>1. VolInv => VolTypeOK BY DEF VolInv
<1> QED BY <1>1, VolInductive, PTL

(* The window (23-38) slides: it always holds the newest returns, each     *)
(* between neighbouring observations, and no other.                        *)
THEOREM WindowCorrect == VolSpec => []WindowSlides
<1>1. VolInv => WindowSlides
  <2> SUFFICES ASSUME VolInv, seen # <<>> PROVE returns = WindowReturns
    BY DEF WindowSlides
  <2> DEFINE k == Len(seen)  L == Len(returns)  a == k - L
  <2>1. /\ seen \in Seq(Observation) /\ k \in Nat /\ k > 0
        /\ returns \in Seq(Int) /\ L \in Nat /\ Window \in Nat \ {0}
        /\ L = IF k > Window THEN Window ELSE k - 1
        /\ \A i \in 1 .. L : returns[i] = seen[k - L + i].price - seen[k - L + i - 1].price
    BY VolAssumption DEF VolInv, VolTypeOK, Slid, Observation
  <2>2. a \in 1 .. k /\ a = IF k > Window + 1 THEN k - Window ELSE 1
    <3> HIDE DEF k, L
    <3> QED BY <2>1
  <2> HIDE DEF k, L, a
  <2>3. InWindow = SubSeq(seen, a, k)
    BY <2>2 DEF InWindow, k
  <2>4. /\ Len(InWindow) = k - a + 1
        /\ \A i \in 1 .. k - a + 1 : InWindow[i] = seen[a + i - 1]
    <3>1. \A i \in a .. k : seen[i] \in Observation
      BY <2>1, <2>2 DEF k
    <3> QED BY <2>1, <2>2, <2>3, <3>1
  <2>5. k - a = L
    BY <2>1 DEF a
  <2>6. WindowReturns = [i \in 1 .. L |-> InWindow[i + 1].price - InWindow[i].price]
    <3>1. Len(InWindow) - 1 = L
      BY <2>1, <2>4, <2>5
    <3> QED BY <3>1 DEF WindowReturns
  <2>7. ASSUME NEW i \in 1 .. L PROVE returns[i] = WindowReturns[i]
    <3>1. /\ i + 1 \in 1 .. k - a + 1 /\ i \in 1 .. k - a + 1
          /\ a + (i + 1) - 1 = k - L + i /\ a + i - 1 = k - L + i - 1
      BY <2>1, <2>2, <2>5 DEF a
    <3>2. InWindow[i + 1] = seen[k - L + i] /\ InWindow[i] = seen[k - L + i - 1]
      BY <2>4, <3>1
    <3> QED BY <2>1, <2>6, <3>2
  <2>8. returns = [i \in 1 .. L |-> returns[i]]
    BY <2>1 DEF L
  <2> QED BY <2>6, <2>7, <2>8
<1> QED BY <1>1, VolInductive, PTL

(* The times that span the returns, whether the first is still there or    *)
(* not, and that they do not run backwards.                                *)
Timed ==
    /\ seen # <<>> => prev_ns = seen[Len(seen)].ns
    /\ Len(seen) <= 1 => first_ns = -1
    /\ Len(seen) > 1 => first_ns = seen[1].ns /\ last_ns = seen[Len(seen)].ns
    /\ \A i, j \in 1 .. Len(seen) : i <= j => seen[i].ns <= seen[j].ns

(* While no return has been dropped, what is reported is what the window   *)
(* says: the exact half of NeverOverstated.                                *)
ExactSoFar ==
    seen # <<>> /\ Len(seen) <= Window + 1 =>
        AnnualizedVol = VolSquared(WindowReturns, WindowSpan)

LEMMA TimedStep ==
    ASSUME VolInv, Timed, NEW price \in LogPrices, NEW dt \in TimeSteps,
           Observe(price, prev_ns + dt)
    PROVE  Timed'
<1> DEFINE now == prev_ns + dt  o == [price |-> price, ns |-> now]  k == Len(seen)
<1>1. o.ns = now /\ seen' = Append(seen, o) /\ prev_ns' = now
  BY DEF Observe
<1>2. have_prev_ => first_ns' = SpanStart(now) /\ last_ns' = now
  BY DEF Observe
<1>3. ~have_prev_ => first_ns' = first_ns
  BY DEF Observe
<1>4. /\ seen \in Seq(Observation) /\ k \in Nat /\ (k = 0 <=> seen = <<>>)
      /\ (have_prev_ <=> seen # <<>>)
      /\ \A i \in 1 .. k : seen[i].ns \in Nat
  <2>1. seen \in Seq(Observation) /\ (have_prev_ <=> seen # <<>>)
    BY DEF VolInv, VolTypeOK, Slid, Observation
  <2>2. \A i \in 1 .. k : seen[i] \in Observation
    BY <2>1
  <2> QED BY <2>1, <2>2 DEF Observation
<1>5. /\ k > 0 => prev_ns = seen[k].ns
      /\ k <= 1 => first_ns = -1
      /\ k > 1 => first_ns = seen[1].ns
  BY <1>4 DEF Timed
<1> DEFINE ordered == \A i, j \in 1 .. k : i <= j => seen[i].ns <= seen[j].ns
<1>9. ordered /\ now \in Nat /\ prev_ns <= now
  BY VolAssumption DEF Timed, VolInv, VolTypeOK
<1> HIDE DEF o, now
<1>6. /\ Len(seen') = k + 1 /\ seen' # <<>> /\ seen'[k + 1] = o
      /\ \A i \in 1 .. k : seen'[i] = seen[i]
  BY <1>1, <1>4
<1> HIDE DEF k
<1>10. \A i, j \in 1 .. Len(seen') : i <= j => seen'[i].ns <= seen'[j].ns
  <2> SUFFICES ASSUME NEW i \in 1 .. k + 1, NEW j \in 1 .. k + 1, i <= j
               PROVE  seen'[i].ns <= seen'[j].ns
    BY <1>6
  <2>1. CASE j <= k
    <3>1. i \in 1 .. k /\ j \in 1 .. k
      BY <1>4, <2>1
    <3> QED BY <1>6, <1>9, <3>1
  <2>2. CASE j = k + 1 /\ i = k + 1
    BY <1>1, <1>6, <1>9, <2>2
  <2>3. CASE j = k + 1 /\ i <= k
    <3>1. i \in 1 .. k /\ k \in 1 .. k /\ i <= k
      BY <1>4, <2>3
    <3>2. seen[i].ns <= seen[k].ns /\ prev_ns = seen[k].ns
      BY <1>4, <1>5, <1>9, <3>1
    <3>3. seen'[i].ns = seen[i].ns /\ seen'[j].ns = now
      BY <1>1, <1>6, <2>3, <3>1
    <3>4. seen[i].ns \in Nat /\ prev_ns \in Nat
      BY <1>4, <3>1, <3>2
    <3> QED BY <1>9, <3>2, <3>3, <3>4
  <2> QED BY <1>4, <2>1, <2>2, <2>3
<1> HIDE DEF ordered
<1>7. CASE k = 0
  BY <1>1, <1>3, <1>4, <1>5, <1>6, <1>7, <1>10 DEF Timed
<1>8. CASE k > 0
  <2>1. first_ns' = (IF first_ns < 0 THEN prev_ns ELSE first_ns) /\ last_ns' = now
    BY <1>2, <1>4, <1>8 DEF SpanStart
  <2>2. first_ns' = seen[1].ns
    <3>1. CASE k = 1
      BY <1>5, <2>1, <3>1
    <3>2. CASE k > 1
      BY <1>4, <1>5, <2>1, <3>2
    <3> QED BY <1>4, <1>8, <3>1, <3>2
  <2>3. seen'[1] = seen[1] /\ k + 1 > 1
    BY <1>4, <1>6, <1>8
  <2> QED BY <1>1, <1>4, <1>6, <1>10, <2>1, <2>2, <2>3 DEF Timed
<1> QED BY <1>4, <1>7, <1>8

LEMMA Times == VolSpec => []Timed
<1>1. VolInit => Timed
  BY DEF VolInit, Timed
<1>2. VolInv /\ Timed /\ [VolNext]_vol_vars => Timed'
  <2>1. Timed /\ UNCHANGED vol_vars => Timed'
    BY DEF Timed, vol_vars
  <2> QED BY <2>1, TimedStep DEF VolNext
<1> QED BY <1>1, <1>2, VolInductive, PTL DEF VolSpec

(* The estimate is the documented one, over the time of its own returns,   *)
(* for as long as the window has not overflowed (9-12, 30-32).             *)
THEOREM ExactUntilFull == VolSpec => []ExactSoFar
<1>1. VolInv /\ Timed /\ WindowSlides => ExactSoFar
  <2> SUFFICES ASSUME VolInv, Timed, WindowSlides, seen # <<>>,
                      Len(seen) <= Window + 1
               PROVE  VolSquared(returns, last_ns - first_ns)
                        = VolSquared(returns, WindowSpan)
    BY DEF ExactSoFar, AnnualizedVol, WindowSlides
  <2>1. /\ seen \in Seq(Observation) /\ Len(seen) \in Nat /\ Len(seen) > 0
        /\ Window \in Nat \ {0}
    BY VolAssumption DEF VolInv, VolTypeOK, Observation
  <2>2. CASE Len(seen) = 1
    <3>1. Len(returns) < 2
      BY <2>1, <2>2 DEF VolInv, Slid
    <3> QED BY <3>1 DEF VolSquared
  <2>3. CASE Len(seen) > 1
    <3>1. InWindow = seen
      <4>1. InWindow = SubSeq(seen, 1, Len(seen))
        <5>1. ~(Len(seen) > Window + 1)
          BY <2>1
        <5> QED BY <5>1, Zenon DEF InWindow
      <4> QED BY <2>1, <4>1, SubSeqFull
    <3>2. WindowSpan = seen[Len(seen)].ns - seen[1].ns
      BY <2>1, <3>1 DEF WindowSpan, Last
    <3> QED BY <2>3, <3>2 DEF Timed
  <2>4. Len(seen) = 1 \/ Len(seen) > 1
    <3>1. \A k \in Nat : k > 0 => k = 1 \/ k > 1
      OBVIOUS
    <3> QED BY <2>1, <3>1
  <2> QED BY <2>2, <2>3, <2>4, Zenon
<1> QED BY <1>1, VolInductive, Times, WindowCorrect, PTL

(* A spread is a variance: never negative.                                 *)
LEMMA SpreadPositive == ASSUME NEW rs \in Seq(Int) PROVE Spread(rs) \in Nat
<1> DEFINE D == 1 .. Len(rs)  squares == [i \in D |-> rs[i] * rs[i]]
           s == SumFunctionOnSet(rs, D)  q == SumFunctionOnSet(squares, D)
<1>1. /\ IsFiniteSet(D) /\ Cardinality(D) = Len(rs) /\ Len(rs) \in Nat
      /\ DOMAIN rs = D /\ \A i \in D : rs[i] \in Int
  <2>1. Len(rs) \in Nat /\ DOMAIN rs = D /\ \A i \in D : rs[i] \in Int
    OBVIOUS
  <2>2. IsFiniteSet(D) /\ Cardinality(D) = Len(rs)
    <3> HIDE DEF D
    <3>1. \A k \in Nat : IsFiniteSet(1 .. k) /\ Cardinality(1 .. k) = k
      BY FS_Interval
    <3> QED BY <2>1, <3>1 DEF D
  <2> QED BY <2>1, <2>2
<1>2. \A i \in D : squares[i] = rs[i] * rs[i] /\ squares[i] \in Int
  BY <1>1
<1>3. s \in Int /\ q \in Int
  BY <1>1, <1>2, SumType
<1>4. Len(rs) * q >= s * s
  BY <1>1, <1>2, SquaresBound
<1>5. Spread(rs) = Len(rs) * q - s * s
  BY <1>1 DEF Spread, SumFunction
<1> HIDE DEF s, q
<1> QED BY <1>1, <1>3, <1>4, <1>5

(* More time in the denominator, no more volatility.                       *)
LEMMA LongerSpan ==
    ASSUME NEW rs \in Seq(Int), NEW long \in Int, NEW short \in Int,
           0 < short, short <= long
    PROVE  LeqFraction(VolSquared(rs, long), VolSquared(rs, short))
<1>1. CASE Len(rs) < 2
  BY <1>1 DEF VolSquared, LeqFraction
<1>2. CASE ~(Len(rs) < 2)
  <2> DEFINE k == Len(rs)  v == Spread(rs)
  <2>1. k \in Nat /\ v \in Nat
    BY SpreadPositive
  <2>2. /\ VolSquared(rs, long) = <<v, k * long>>
        /\ VolSquared(rs, short) = <<v, k * short>>
    BY <1>2 DEF VolSquared
  <2> HIDE DEF k, v
  <2>3. v * (k * short) <= v * (k * long)
    <3> DEFINE d == long - short
    <3>1. d \in Nat /\ v * (k * long) = v * (k * short) + v * (k * d)
      BY <2>1
    <3>2. v * (k * d) \in Nat /\ v * (k * short) \in Int
      BY <2>1, <3>1
    <3> QED BY <3>1, <3>2
  <2> QED BY <2>2, <2>3 DEF LeqFraction
<1> QED BY <1>1, <1>2

(* The volatility reported is never more than the window's returns show,   *)
(* and what they show until the window overflows: first_ns_ (30-32) never  *)
(* advances, and a variance is not negative.                               *)
THEOREM NeverTooHigh == VolSpec => []NeverOverstated
<1>1. VolInv /\ Timed /\ WindowSlides /\ ExactSoFar => NeverOverstated
  <2> SUFFICES ASSUME VolInv, Timed, WindowSlides, ExactSoFar, seen # <<>>
               PROVE  LET documented == VolSquared(WindowReturns, WindowSpan) IN
                      /\ Len(seen) <= Window + 1 => EqFraction(AnnualizedVol, documented)
                      /\ WindowSpan > 0 => LeqFraction(AnnualizedVol, documented)
    BY DEF NeverOverstated
  <2>1. Len(seen) <= Window + 1 =>
          EqFraction(AnnualizedVol, VolSquared(WindowReturns, WindowSpan))
    BY DEF ExactSoFar, EqFraction
  <2>2. ASSUME WindowSpan > 0
        PROVE  LeqFraction(AnnualizedVol, VolSquared(WindowReturns, WindowSpan))
    <3> DEFINE k == Len(seen)  a == IF k > Window + 1 THEN k - Window ELSE 1
    <3>1. /\ seen \in Seq(Observation) /\ k \in Nat /\ k > 0
          /\ Window \in Nat \ {0} /\ returns \in Seq(Int)
      BY VolAssumption DEF VolInv, VolTypeOK, Observation
    <3>2. a \in 1 .. k
      <4> HIDE DEF k
      <4> QED BY <3>1
    <3> HIDE DEF k, a
    <3>3. /\ Head(InWindow) = seen[a] /\ Last(InWindow) = seen[k]
      <4>1. InWindow = SubSeq(seen, a, k)
        BY DEF InWindow, a, k
      <4>2. \A i \in a .. k : seen[i] \in Observation
        BY <3>1, <3>2 DEF k
      <4>3. /\ InWindow \in Seq(Observation) /\ Len(InWindow) = k - a + 1
            /\ \A i \in 1 .. k - a + 1 : InWindow[i] = seen[a + i - 1]
        BY <3>1, <3>2, <4>1, <4>2
      <4>4. Head(InWindow) = InWindow[1] /\ Last(InWindow) = InWindow[k - a + 1]
        BY <3>1, <3>2, <4>3 DEF Last
      <4> QED BY <3>1, <3>2, <4>3, <4>4
    <3>4. WindowSpan = seen[k].ns - seen[a].ns
      BY <3>3 DEF WindowSpan
    <3>5. seen[1].ns \in Nat /\ seen[a].ns \in Nat /\ seen[k].ns \in Nat
      <4>1. seen[1] \in Observation /\ seen[a] \in Observation /\ seen[k] \in Observation
        BY <3>1, <3>2 DEF k
      <4> QED BY <4>1 DEF Observation
    <3>6. seen[1].ns <= seen[a].ns
      <4>1. 1 \in 1 .. k /\ 1 <= a
        BY <3>1, <3>2
      <4> QED BY <3>2, <4>1 DEF Timed, k
    <3>7. k > 1
      <4>1. k = 1 => a = 1
        BY <3>2
      <4> QED BY <2>2, <3>1, <3>4, <3>5, <4>1
    <3>8. last_ns - first_ns = seen[k].ns - seen[1].ns
      BY <3>7 DEF Timed, k
    <3>9. LeqFraction(VolSquared(returns, last_ns - first_ns), VolSquared(returns, WindowSpan))
      BY <2>2, <3>1, <3>4, <3>5, <3>6, <3>8, LongerSpan
    <3> QED BY <3>9 DEF WindowSlides, AnnualizedVol
  <2> QED BY <2>1, <2>2
<1> QED BY <1>1, VolInductive, Times, WindowCorrect, ExactUntilFull, PTL
=============================================================================
