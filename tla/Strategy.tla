------------------------------ MODULE Strategy ------------------------------
(***************************************************************************)
(* The strategy thread's poll() callback (bench/exchange_strategy.cpp): it *)
(* counts and times each frame, applies it to the book, reprices, and      *)
(* sends a new two-sided quote when the theoretical price has moved.       *)
(*                                                                         *)
(* What the book and the pricing make of a frame is a choice here: too     *)
(* short, refused, no two-sided market, or a theoretical price.  A price   *)
(* is counted in fractions of a cent, Unit of them to the cent.  A frame   *)
(* reaches the NIC some time of Steps after the one before, and the NIC's  *)
(* clock, in whole nanoseconds, never steps back.  The TSC makes TscNum    *)
(* cycles in TscDen nanoseconds.  Other durations are only counted.        *)
(***************************************************************************)
EXTENDS MarketData, Sequences

CONSTANTS
    Count,        \* count: frames measured, and the capacity of each stats_t
    Warmup,       \* kWarmupIters, 2000
    Epoch,        \* the NIC clock when the strategy starts
    Steps,        \* what may pass between a frame and the next
    Ulp,          \* the spacing of the doubles near Epoch
    TscNum, TscDen,
    Unit,         \* fractions to the cent
    QuoteQty,     \* kQuoteQty, 100
    Theos,        \* the prices Black-Scholes may come to
    MaxFrames     \* bound of the model: frames handed to the callback

ASSUME StrategyAssumption ==
    /\ Count \in Nat \ {0} /\ Warmup \in Nat \ {0} /\ Epoch \in Nat \ {0}
    /\ Steps \subseteq Nat /\ Ulp \in Nat \ {0}
    /\ TscNum \in Nat \ {0} /\ TscDen \in Nat \ {0}
    /\ Unit \in Nat \ {0}
    /\ QuoteQty \in Word
    /\ Theos \subseteq Nat
    /\ MaxFrames \in Nat
    /\ 5 \in Word                     \* a bid below zero wraps above the ask

Total == Count + Warmup
Threshold == Unit         \* kRequoteThreshold, 1 cent
HalfSpread == 2 * Unit    \* kHalfSpread, 2 cents
Metrics == {"nic_gap", "tsc_gap", "book_apply", "pricing_decision", "send"}

VARIABLES
    n,                  \* n
    have_prev,          \* have_prev
    prev_nic_ns,        \* prev_nic_ns
    samples,            \* stats->*: how many samples each has
    nic_gaps,           \* the samples of stats->nic_gap, in order
    have_quote,         \* have_quote
    last_quoted_theo,   \* last_quoted_theo
    n_requoted,         \* n_requoted
    out_buf,            \* the last quote encoded: a packet
    theo,               \* history: the last price computed, -1 before any
    market,             \* history: the theos of the quotes that went out
    failed,             \* history: a send() has failed
    unstamped,          \* history: a frame came without a timestamp
    overflowed,         \* history: a full stats_t has refused a sample
    arrivals            \* history: when each frame handed to the callback
                        \* reached the NIC

countVars == <<n, have_prev, prev_nic_ns, samples, nic_gaps, unstamped,
               overflowed, arrivals>>
quoteVars == <<have_quote, last_quoted_theo, out_buf, theo, market, failed>>
vars == <<countVars, n_requoted, quoteVars>>

NoQuote == [size |-> 0, wire_len |-> 0, body |-> NoMessage]

TypeOK ==
    /\ n \in 0 .. Total
    /\ have_prev \in BOOLEAN
    /\ prev_nic_ns \in Nat
    /\ samples \in [Metrics -> 0 .. Count]
    /\ nic_gaps \in Seq(Nat)
    /\ have_quote \in BOOLEAN
    /\ last_quoted_theo \in Nat
    /\ n_requoted \in Nat
    /\ out_buf \in Packet
    /\ theo \in Theos \cup {-1}
    /\ market \in Seq(Theos)
    /\ {failed, unstamped, overflowed} \subseteq BOOLEAN
    /\ arrivals \in Seq(Nat) /\ Len(arrivals) <= MaxFrames

Init ==
    /\ n = 0
    /\ have_prev = FALSE
    /\ prev_nic_ns = 0
    /\ samples = [m \in Metrics |-> 0]
    /\ nic_gaps = <<>>
    /\ have_quote = FALSE
    /\ last_quoted_theo = 0
    /\ n_requoted = 0
    /\ out_buf = NoQuote
    /\ theo = -1
    /\ market = <<>>
    /\ failed = FALSE /\ unstamped = FALSE /\ overflowed = FALSE
    /\ arrivals = <<>>

(* The callback does nothing more once it has counted all it was asked for *)
(* (the rest of a batch still reaches it).                                 *)
WantsAll == TRUE                       \* Mutant: the rest is counted too
Wanted == n < Total

(* recording, evaluated after ++n                                          *)
RecordingEarly == n + 1 >= Warmup      \* Mutant: one warm-up frame measured
Recording == n + 1 > Warmup

(* stats_record into each metric of hits.                                  *)
Record(hits) ==
    /\ samples' = [m \in Metrics |->
                      IF m \in hits /\ samples[m] < Count
                      THEN samples[m] + 1 ELSE samples[m]]
    /\ overflowed' = (overflowed \/ \E m \in hits : samples[m] >= Count)

(* The nearest double to t, the even one of two.                           *)
AsDouble(t) ==
    LET below == t \div Ulp
        rest == 2 * (t % Ulp)
    IN Ulp * (IF rest > Ulp \/ (rest = Ulp /\ below % 2 = 1) THEN below + 1 ELSE below)

(* The NIC's clock at the last frame.                                      *)
Clock == IF arrivals = <<>> THEN Epoch ELSE arrivals[Len(arrivals)]

(* nic_ns: seconds and nanoseconds since the NIC's epoch, in one double.   *)
NicNs == AsDouble(Clock')

(* ns_to_tsc: to cycles, cut off.                                          *)
NsToTsc(ns) == (ns * TscNum) \div TscDen

(* prev_nic_ns moves with every stamped frame, warm-up or not.             *)
PrevNicWhenRecording(stamped) ==       \* Mutant: warm-up frames do not move it
    IF stamped /\ Recording THEN NicNs ELSE prev_nic_ns
NextPrevNic(stamped) == IF stamped THEN NicNs ELSE prev_nic_ns

(* What every wanted frame goes through; hits are the durations the rest   *)
(* of the callback records.                                                *)
CountFrame(stamped, hits) ==
    LET gap == have_prev /\ Recording IN
    /\ Wanted
    /\ n' = n + 1
    /\ have_prev' = TRUE
    /\ prev_nic_ns' = NextPrevNic(stamped)
    /\ nic_gaps' = IF gap /\ stamped /\ samples["nic_gap"] < Count
                   THEN Append(nic_gaps, NsToTsc(NicNs - prev_nic_ns))
                   ELSE nic_gaps
    /\ Record((IF gap THEN {"tsc_gap"} ELSE {})
                \cup (IF gap /\ stamped THEN {"nic_gap"} ELSE {})
                \cup (IF Recording THEN hits ELSE {}))
    /\ unstamped' = (unstamped \/ ~stamped)

SurplusFrame ==
    /\ ~Wanted
    /\ UNCHANGED <<n, have_prev, prev_nic_ns, samples, nic_gaps, unstamped,
                   overflowed, n_requoted, quoteVars>>

ShortFrame(stamped) ==
    CountFrame(stamped, {}) /\ UNCHANGED <<n_requoted, quoteVars>>

(* applyPacket returned false, or one side of the book is empty.           *)
UnpricedFrame(stamped) ==
    CountFrame(stamped, {"book_apply"}) /\ UNCHANGED <<n_requoted, quoteVars>>

AbsDiff(x, y) == IF x >= y THEN x - y ELSE y - x
RequoteAbove(price) ==                 \* Mutant: a move of one threshold is none
    ~have_quote \/ AbsDiff(price, last_quoted_theo) > Threshold
ShouldRequote(price) ==
    ~have_quote \/ AbsDiff(price, last_quoted_theo) >= Threshold

(* dollarsToCents: lround, halves away from zero, then a cast to uint32.   *)
LRound(x) ==
    IF x >= 0 THEN (2 * x + Unit) \div (2 * Unit)
    ELSE -((Unit - 2 * x) \div (2 * Unit))
DollarsToCents(x) == LRound(x) % WordMod

(* Mutant: the fields are left in host order.                              *)
EncodeHostOrder(price) ==
    [WriteMessage(NoMessage) EXCEPT
        !.size = 27, !.wire_len = Bswap16(25),
        !.body = Quote(DollarsToCents(price - HalfSpread), QuoteQty,
                       DollarsToCents(price + HalfSpread), QuoteQty)]

EncodeQuote(price) ==
    WriteMessage(Quote(DollarsToCents(price - HalfSpread), QuoteQty,
                       DollarsToCents(price + HalfSpread), QuoteQty))

(* egress.send() of a new quote, whose result nobody looks at.             *)
Requote(price, sent) ==
    /\ out_buf' = EncodeQuote(price)
    /\ market' = IF sent THEN Append(market, price) ELSE market
    /\ failed' = (failed \/ ~sent)
    /\ n_requoted' = IF Recording THEN n_requoted + 1 ELSE n_requoted
    /\ last_quoted_theo' = price
    /\ have_quote' = TRUE

PricedFrame(stamped, price, sent) ==
    /\ theo' = price
    /\ \/ /\ ShouldRequote(price)
          /\ CountFrame(stamped, {"book_apply", "pricing_decision", "send"})
          /\ Requote(price, sent)
       \/ /\ ~ShouldRequote(price)
          /\ CountFrame(stamped, {"book_apply", "pricing_decision"})
          /\ UNCHANGED <<n_requoted, have_quote, last_quoted_theo, out_buf,
                         market, failed>>

Next ==
    /\ Len(arrivals) < MaxFrames
    /\ \E step \in Steps : arrivals' = Append(arrivals, Clock + step)
    /\ \/ SurplusFrame
       \/ \E stamped \in BOOLEAN :
            \/ ShortFrame(stamped)
            \/ UnpricedFrame(stamped)
            \/ \E price \in Theos, sent \in BOOLEAN :
                 PricedFrame(stamped, price, sent)

Spec == Init /\ [][Next]_vars

-----------------------------------------------------------------------------
Measured == IF n > Warmup THEN n - Warmup ELSE 0

(* Every sample fits (stats_record drops what does not, without a word),   *)
(* and they tally: one TSC gap for each measured frame, and one NIC gap as *)
(* long as all come with a timestamp, no more prices than updates, one     *)
(* send() time for each requote reported at the end.                       *)
SamplesTally ==
    /\ ~overflowed
    /\ samples["tsc_gap"] = Measured
    /\ samples["nic_gap"] = Len(nic_gaps)
    /\ samples["nic_gap"] <= samples["tsc_gap"]
    /\ ~unstamped => samples["nic_gap"] = samples["tsc_gap"]
    /\ samples["book_apply"] <= Measured
    /\ samples["pricing_decision"] <= samples["book_apply"]
    /\ samples["send"] = n_requoted
    /\ n_requoted <= samples["pricing_decision"]

(* The time from the frame before the i-th measured one to that one.       *)
TrueGap(i) == arrivals[Warmup + i] - arrivals[Warmup + i - 1]

(* The i-th NIC gap is the i-th measured frame's, from the frame right     *)
(* before it (the last warm-up frame for the first, 175-177), whatever lay *)
(* between any others: in cycles, and off by no more than the spacing of   *)
(* the doubles that both ends were rounded to (185-193; the comment at 190 *)
(* calls it exact).  That is as long as every frame carried a timestamp:   *)
(* after one that did not a gap spans several frames, or all of time if    *)
(* none had come before.                                                   *)
NicGapsTrue ==
    ~unstamped => \A i \in DOMAIN nic_gaps :
        LET gap == TrueGap(i) IN
        nic_gaps[i] \in NsToTsc(IF gap > Ulp THEN gap - Ulp ELSE 0)
                           .. NsToTsc(gap + Ulp)

(* After each repricing the quote in the market is less than a threshold   *)
(* away from the theoretical price, however slowly that has crept, and     *)
(* there is no message spam: a new quote leaves only if it is a threshold  *)
(* or more away from the one before it.  A send() that failed undoes both: *)
(* its quote is taken for sent (254-263).                                  *)
QuoteTracksTheo ==
    ~failed =>
        /\ theo >= 0 => /\ market # <<>>
                        /\ AbsDiff(theo, market[Len(market)]) < Threshold
        /\ \A i \in 1 .. Len(market) - 1 :
                AbsDiff(market[i + 1], market[i]) >= Threshold

SentQuote == ParsePacket(out_buf)

(* What a listener decodes: 2 cents each side of the price, to the nearest *)
(* cent, if the price is at least that and its ask fits a word (65-69,     *)
(* 90-111).  Below a cent and a half the bid is negative and wraps: the    *)
(* quote is crossed.                                                       *)
QuoteStraddlesTheo ==
    out_buf # NoQuote =>
        /\ SentQuote.type = "Quote"
        /\ last_quoted_theo \in HalfSpread .. Unit * (WordMod - 1) - HalfSpread =>
            /\ SentQuote.ask_price - SentQuote.bid_price = 4
            /\ Unit * SentQuote.bid_price <= last_quoted_theo
            /\ last_quoted_theo <= Unit * SentQuote.ask_price
        /\ 2 * last_quoted_theo <= 2 * HalfSpread - Unit =>
            SentQuote.bid_price > SentQuote.ask_price
=============================================================================
