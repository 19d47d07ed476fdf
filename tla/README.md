# A verification of waler

`waler` is a small trading system for a Solarflare NIC: a simulated exchange
that generates market data, an order book that follows it, a strategy that
prices an option from the book and quotes, user-level network access through
ef_vi for both, a tool that measures the NIC over a loopback cable, and a
request-and-reply benchmark over kernel sockets. This directory holds TLA+
modules translated from that code, TLC configurations that model-check them, and
proofs checked by TLAPS. Paths below are relative to the root of the
repository; those in `PROJECT.json` have one `src/` more in front.

## Running it

    tlc -config MCOrderBook.cfg MCOrderBook      # any MC*.cfg / Find*.cfg pair
    tlapm OrderBook_proofs.tla                   # any *_proofs.tla

`MC*.cfg` must pass. `Find*.cfg` must end in a violation: each states what a
comment of the code promises and shows that the code does not keep it.

## The system

| component | source | state it keeps | operations | talks to |
|---|---|---|---|---|
| wire format | `src/waler/MarketData.hpp` | none | four packed messages, 16-bit length prefix, network order | every sender and receiver of packets |
| order book | `src/waler/SimpleOrderBook.hpp` | `orders_`, `bids_`, `asks_`, `last_quote_` | `applyPacket`, `applyMessage`, `clear`, `bestBid`, `bestAsk` | called by pktgen and the strategy |
| packet generator | `src/waler/PacketGenerator.hpp` | pool of 512 resting orders, mid price, next order id, message count | `nextPacket` | called by pktgen and the exchange |
| pktgen and exchange loops | `src/pktgen/pktgen.cpp`, `src/bench/exchange_strategy.cpp` 113-136 | a buffer, a count | generate and apply; generate and send | generator, book, sender |
| UDP sender | `src/waler/EfviUdpSender.*` | 16 frame buffers, next slot, DMA id | `send`, `reapCompletions` | the NIC: descriptors out, completion events in |
| UDP receiver | `src/waler/EfviInterface.*` | posted frame buffers, discard count | `poll(callback)`, `repost` | the NIC: buffers out, RX events in |
| realized volatility | `src/waler/RealizedVol.hpp` | window of log-returns, first and last time | `observe`, `annualizedVol` | called by the strategy |
| strategy callback | `src/bench/exchange_strategy.cpp` 146-272 | frame count, previous timestamps, last quote, five sample arrays | one call for each frame | receiver, book, volatility, Black-Scholes, its own sender |
| rig | `src/bench/exchange_strategy.cpp` 113-136, 276-330 | `g_running`, two threads | start, join, SIGINT | the threads share `g_running` and a cable, and nothing else |
| loopback tool | `x4_loopback_latency.c` | clock fit, sentinel bytes, expected buffer, counters, result arrays | calibrate, set up; arm, transmit, see, poll, reap, derive; write, report | two ports of the NIC, the PTP clock |
| sample collector | `common/stats.h` | array, count, capacity, result | `stats_record`, `stats_compute` | strategy, ping |
| kernel ping and pong | `benchmarks/kernel/ping.cpp`, `pong.cpp`, `common/plot.h` | round, samples; one datagram | send, receive, plot, report; echo | each other, over UDP |
| Black-Scholes, clocks, drawing, utilities, scripts | | | | not modelled, see below |

What is hard about it, component by component, and what makes it correct:

* **Order book.** Levels are kept up incrementally, by additions and
  subtractions made when orders arrive, are replaced, shrink and go. They must
  never drift from the orders, for any sequence of packets from the network,
  whatever their ids, sides and quantities.
* **Generator and feed.** The generator never reads the book back; it has to
  predict it exactly, through swap-with-last removal, partial executions, a full
  pool, wrapped prices and wrapped ids. The exchange's packets go out once, with
  no number on them: what a refused, overwritten or dropped one does to the
  strategy's book must stay with the order it was about.
* **Sender and receiver.** The NIC reads and writes their buffers at any time
  between two steps of the program. A buffer must not be written while the
  other side still needs what is in it, and no buffer may get lost.
* **Strategy.** Warm-up and end boundaries cut through batches of frames; gaps
  need a previous timestamp that is really the previous frame's; a price that
  creeps must still be requoted.
* **Rig.** Rings overflow, the strategy may be late, the exchange finishes
  while frames are in flight, ctrl-C comes at any time: packets must be
  accounted for, threads must end, and the report must come last.
* **Loopback tool.** Every wait is a spin on something the NIC does. A byte or
  an event of an earlier frame must not pass for this frame's, and no wait may
  be for something that is over. The clocks drift, so every sample has to be
  translated by the fit made for its stretch of iterations.
* **Ping and pong.** All datagrams are alike: a lost, doubled or refused one
  shifts replies against requests, and nothing in the program can tell. The
  report sorts the samples it is computed from.

`PROJECT.json` lists the hazards one by one, each at its line with the
properties that would catch it.

## The modules

| module | models | extends / instantiates |
|---|---|---|
| `MarketData` | messages, byte swap, framing and parsing | |
| `Levels` | maps, one side's levels, the depth counted from orders | `MarketData` |
| `OrderBook` | `SimpleOrderBook`, with what its depth chart measures | `Levels` |
| `AbstractBook` | what a book promises: each call does what its bytes say, depth recounted after it | `Levels`; refined by `OrderBook` |
| `PacketGenerator` | `PacketGenerator` | `MarketData` |
| `Feed` | the loops of `pktgen.cpp` and of the exchange thread, up to the book that gets the packets | instances of `PacketGenerator` and `OrderBook` |
| `UdpSender` | `EfviUdpSender` and the NIC's side of it | |
| `UdpReceiver` | `EfviInterface` and the NIC's side of it | |
| `RealizedVol` | `RealizedVolEstimator` | |
| `Stats` | `stats.h` | |
| `Strategy` | the strategy's callback, `stats_record`, `encodeQuote` | `MarketData` |
| `Rig` | `main`, both threads, SIGINT, NIC and cable | |
| `Loopback` | the whole tool but its fit's arithmetic, NIC and cable | |
| `PingPong` | `ping.cpp`, `pong.cpp`, the two socket paths between them | `Stats` |
| `OrderBook_proofs` (with the lemmas about `Levels` and the refinement), `Feed_proofs`, `Rig_proofs`, `Loopback_proofs`, `PingPong_proofs` (with those about `Stats`) | proofs | the module they are named for |
| `Udp_proofs`, `Strategy_proofs` | proofs | `UdpReceiver` and `UdpSender`; `Strategy` and `RealizedVol` |
| `Sums_proofs` | what a sum over a finite set is, and two principles of induction | the library's folds; extended by the proofs of `OrderBook`, `Strategy` and `PingPong` |

Definitions keep the names of the source (`next_slot`, `have_prev_`,
`ReduceOrder` for `reduceOrder`). `UdpSender` and `RealizedVol` have `TxInit`,
`TxNext`, `TxSpec`, `TxTypeOK` and `VolInit`, `VolNext`, `VolSpec`, `VolTypeOK`,
so that a module of proofs can extend each with its neighbour. An action is a
whole call, unless the NIC or another thread can come between two parts of it:
then it is cut exactly there. Definitions commented *Mutant* are not part of any
specification; each is a plausible mistake in the definition after it, and shows
that some property notices.

What stands for what:

* A 32-bit word is a member of `0 .. WordMod - 1`, and a level's 64-bit sum is
  taken modulo `WordMod * WordMod`. The byte swap is `Bswap32`, any permutation
  that is its own inverse; the instances use permutations that do move values.
* A packet is its size, its raw length field and its body. `ParsePacket` is the
  chain `applyPacket`, `applyNetworkPayload`, `copyMessage`, `fromNetwork` with
  each of its checks. `NoMessage` is a body of unknown type.
* `OrderBook` remembers the last call and its bytes (`heard`), and that is what
  labels the steps of `AbstractBook`. The abstract book reads the label for
  itself: it has its own notion of a well-framed packet, no parser and no
  levels, and no choice in what a call does to it.
* Random draws are choices from the sets a draw can come to.
* `Feed` has a slot of the sender rewritten in one step, with its packet as a
  whole; `UdpSender` is where the two halves of `send()` and the bytes are. A
  descriptor is a slot and the `frame_len` it was posted with, so what the NIC
  reads is the packet the slot holds by then, at the older one's length. A
  descriptor the NIC has read stays taken until `reapCompletions()` has polled
  its event, 16 at a time; no source calls ef_vi's unbundle, and we assume that
  the poll is enough. A frame is applied to the book when the NIC reads it, as
  everything after that is in order. `damaged` collects the ids that a fault has
  named.
* `UdpSender` writes in one step and posts in the next, because the NIC's
  `NicTransmit` may come between them. A frame's data is, for each byte, the
  call that put it there, so that foreign bytes show.
* `UdpReceiver` has `poll` as four actions: take a batch, count a discard, call
  back, repost. The NIC's `NicFill` and `NicDrop` come between any two. Events
  that are neither RX nor discard have no effect and are left out.
* `RealizedVol` has integers for logarithms of prices, so that a return is a
  difference, and compares squares of volatilities as fractions. It leaves out
  floating-point rounding.
* `Strategy` leaves what the book, the volatility and Black-Scholes come to as a
  choice among: too short, not applied or one-sided, or a price. It models
  `dollarsToCents` (rounding and the cast to unsigned) and the rounding of the
  NIC time to a double and of a gap to TSC cycles by what they do. Each frame
  reaches the NIC some time after the one before, and properties remember when.
* `Rig` counts frames instead of telling them apart, discards included: each
  takes an RX buffer out of use for good. Each thread's loop is cut at its check
  of `g_running`, its send or poll, and its reap.
* `Loopback` has a frame's number for each time that belongs to it. A sample is
  right when all its times bear the number of its own frame. Each RX buffer has
  a sentinel byte and a prefix with the NIC's timestamp, which the program reads
  of the buffer it expects (604), whichever one an event is about. A clock fit
  is the iteration it was made at and the kind of each reading it was made of.
  `report()` sorts eight arrays independently; moving one of them is enough to
  show rows that no longer belong together.
* `Stats` has cycles where the code has nanoseconds: `tsc_to_ns` multiplies by
  one positive factor, which moves no order. Percentiles are fractions.
* `PingPong` gives each datagram the number of the `send()` it comes from. The
  program cannot see it; properties do. `csv` is what this run has written to
  `samples.csv`: all samples, or nothing if it does not open, after which the
  run goes on. Whether the script then plots an older file is outside the model,
  and so is a disk that fills up half way.

History variables (marked as such) record what properties talk about and never
enable or change anything else.

## The runs

| run | question | bounds, and why they are enough |
|---|---|---|
| `order_book` | Do levels equal the orders' depth (`LevelsMatchOrders`), is there no level without an order (`NoPhantomLevel`), is the top of book the best order (`TopOfBook`), does the depth chart add up and fit its field (`ChartFits`), does each call do to the orders what its bytes say and no more (`ImplementsAbstractBook`)? | Words of 2 bits. Two ids that rest at either of two prices on either side or with an unknown side byte, and a third that deepens one bid level, so that sums exceed a word and `narrowQuantity` saturates. Quantities 0, 1, 3: cancel-all, partial, exact and excessive reductions. Packets cut short, padded, mis-sized and of unknown type. A VIEW drops the bytes of the last call from the state graph: they label steps, and nothing reads them again. |
| `feed` | Does the book mirror the pool but for the orders a fault has named (`Mirror`), does every other packet that arrives whole apply, and one that is cut off not (`WholePacketsApply`), do executions and quotes agree with the book (`ExecutesAtTouch`, `QuoteMatchesBook`), and what remains after id reuse (`NoGhostOrders`)? | Six words: ids 1 to 5 wrap while two orders rest, bids wrap below zero and sit at the sentinel price 0. A pool of two is full, part full, empty. Mid 1 or 2. Both programs. In the exchange 3 descriptors for 2 slots, 5 packets: slots come round twice, a frame in flight is overwritten by a longer or a shorter one, the ring refuses a send, full of frames unread or of completions not reaped (one a call). One fault of any kind, followed by traffic it must not touch. The last quote, sent buffers and slots the NIC has read are hidden from the state graph by a VIEW: nothing reads them. |
| `udp_sender` | For how long does a slot protect its frame (`RingProtects`)? | 2 slots, 3 descriptors (16 and 512 in the code: more descriptors than slots, too), payloads below and above the padding and too long; 7 calls come round three times. |
| `tx_overwrite` | Is a frame safe until the NIC has read it, as the header says? | as above |
| `udp_receiver` | Is each received frame delivered once, in order (`DeliveredInOrder`), intact (`NotOverwrittenBeforeRead`), and in the end (`EveryFrameDelivered`)? Where are the buffers (`BuffersAccounted`)? | 4 buffers asked for, 3 in the ring, batches of 2, 6 frames, each a frame or a discard: every buffer is used twice, batches split the queue, the ring runs empty. |
| `realized_vol` | Does the window hold the newest returns (`WindowSlides`), is the estimate exact until it overflows and never too high later (`NeverOverstated`)? | Window of 2, 5 observations: it overflows twice. Three prices with unequal differences; time steps of 0, 1, 2. |
| `vol_span` | Is the estimate annualized over the window's own time, as the header says? | as above |
| `strategy` | Do samples tally (`SamplesTally`), are gaps true (`NicGapsTrue`), does the quote follow the price without flicker (`QuoteTracksTheo`), and does it straddle the price on the wire (`QuoteStraddlesTheo`)? | 2 warm-up and 2 measured frames, and one more than wanted. Half-cent prices on both sides of each threshold, down to half a cent. Frames 2 or 9 ns apart in any order, so that no gap passes for its neighbour; doubles spaced 2 apart, 3 cycles in 2 ns. Words of 4 bits. |
| `loopback` | Are a sample's times its frame's, translated by a fit that is due (`SamplesUnmixed`), do counters tally (`CountsTally`), does the program look at the right buffer (`SpinsOnNextBuffer`), does the run end (`RunEnds`)? | 2 RX buffers, 2 warm-up and 3 measured iterations: each buffer comes round again. The clocks are fitted before the first, third and fifth iteration. Both datapaths, all modes, poisoned frames, fallbacks, failures of each kind of calibration, two housekeeping events anywhere. |
| `rig` | Are packets accounted for (`FramesAccounted`), is the report last (`ReportIsFinal`), does the rig end (`RigEnds`)? | 5 packets, TX and RX rings of two, batches of one: both rings fill, discards empty the RX ring for good, frames are lost early, in the middle and at the end; SIGINT at any time. |
| `ping_pong` | Is a sample its own round trip (`SamplesOwnRoundTrip`), is the report of the samples as recorded (`ReportTrue`), does ping end (`PingEnds`)? | 1 warm-up round and 3 samples of lengths 1, 2, 5: recorded and sorted order differ, and percentiles fall between samples. Two faults: both kinds of loss and of copy, on both paths, and pong stopped and started, in any combination. Either program may start first; `samples.csv` opens or not. |
| `plot_order` | Is plotting after the computation, as `plot.h:14` asks? | as above, with no fault needed |

`CHECK_DEADLOCK FALSE` is set where the system really stops: the rig and ping
after their reports (or ping for ever, after a loss), the loopback tool after
its report or an error, the exchange after its last packet in `Feed`, and the
bounded histories of `RealizedVol` and `Strategy`. In `UdpReceiver` a poll of an
empty queue is a step, and in `UdpSender` a reap is, so they do not stop.

### Fairness

* `UdpReceiver`: weak fairness of `Poll`. Its owner calls `poll()` in a busy
  loop and the callback does not block. None for the NIC: a frame need not come.
* `Loopback`: weak fairness of the program (one busy thread on a core of its
  own) and of a frame's way through the NIC and over the cable. None for
  housekeeping events, of which there is a bounded number.
* `Rig`: weak fairness of main, of each thread and of the NIC's transfer. Each
  thread is an operating-system thread, none holds a lock, and `sleep_for` and
  `join` return. None for SIGINT.
* `PingPong`: weak fairness of ping and of pong. Both are processes of their
  own; a stopped pong is started again. None for the network's faults, which
  need not happen and of which there is a bounded number.

### What the code does otherwise than it says

* `tx_overwrite`: `EfviUdpSender.hpp:22-23` says that the ring of buffers keeps
  consecutive sends from overwriting a frame the NIC has not finished reading.
  `send()` never looks at completions: with 16 slots and a descriptor ring that
  holds more, call k + 16 rewrites the frame of call k, read or not, and even a
  send that fails takes and rewrites a slot. `RingProtects` is what holds. And
  as the descriptor keeps its length, a quote of 27 bytes written over a cancel
  of 19 goes out cut off and is refused at the other end (`WholePacketsApply`).
* `vol_span`: `RealizedVol.hpp:9-12` says that the estimate is annualized over
  the time the window spans. `first_ns_` never advances, so after the first 65
  observations the span is the whole run and the volatility decays towards
  zero. `NeverOverstated` says that this is the only direction it errs in.
* `plot_order`: `plot.h:14` says to call `plot_generate` after
  `stats_compute()`, since that sorts in place. `ping.cpp:60-63` plots first. It
  has to: after the computation the time series would be sorted, so it is the
  comment that is wrong. `ReportTrue` has the series and the jitter in recording
  order.

More is visible in conditions of properties that hold:

* `NicGapsTrue` holds until a frame comes without a timestamp, and to within the
  spacing of doubles. `exchange_strategy.cpp:190-191` calls the gaps between NIC
  timestamps exact, but they are differences of doubles of nanoseconds since
  1970, which are 256 ns apart, cut off to TSC cycles.
* `NotOverwrittenBeforeRead` ends with the callback. `EfviInterface.hpp:15-16`
  says that a frame is valid until the next `poll()`, but its buffer is reposted
  right after its own callback, in the same `poll()`, and may be refilled from
  then on. No program here keeps a frame.
* `QuoteTracksTheo` holds until a `send()` fails, because its result is ignored:
  the quote counts as given and is not repeated.
* `QuoteStraddlesTheo` needs a price of 2 cents, and one whose ask fits a word.
  `exchange_strategy.cpp:68` says that a quote is 2 cents wide on each side; at
  1.5 cents or less the bid rounds to a negative number, the cast in
  `dollarsToCents` makes it nearly 2^32, and the quote is crossed. The
  at-the-money option gets there only when the mid has fallen well below the
  strike, which the truncation in `evolveMid` works towards.
* `RunEnds` excludes cut-through on the Enterprise datapath, where the spin on
  the sentinel precedes the poll that would report a poisoned frame.
* `Mirror` and `WholePacketsApply` leave out the orders a fault has named.
  Nothing ever repairs them: an order whose cancel was lost rests for ever in
  the strategy's book.
* `PingEnds` excludes a lost datagram, which leaves `recv()` waiting for ever,
  and `SamplesOwnRoundTrip` says what a doubled one does: every later sample is
  short by the time a reply has been waiting.
* `SamplesOwnRoundTrip` is silent after an ICMP error: `send()` or `recv()`
  fails at once and a sample is recorded for it like any other.
* `ReportTrue` allows that `samples.csv` was not written (`plot.h:18`). The
  report is made all the same.

## The proofs

Proved for all constants that satisfy the named assumptions: any word size, any
self-inverse byte swap and any set of inputs (`WordAssumption`,
`InputAssumption`); any ring, slot, batch and payload sizes, totals, counts,
prices and numbers of faults (the assumption named for each module). Each proof
finds an inductive `IInv`, proves it one action at a time, and reads the
properties off it.

* **Order book** (`OrderBook_proofs`). `LevelsMatchOrders` is not inductive
  alone: a step adds and subtracts modulo 2^64, so the proof needs that no sum
  reaches it. The invariant `IInv` joins the types, the equality of each level
  with its recounted depth, and an order for each level. The depth of a price is
  the cardinality of a set of shares, one for each unit of each order there.
  That set lies within 2^32 x (2^32 - 1) pairs, which is below 2^64, so the
  addition never wraps (`NoWrap`). `DepthErase` and `DepthPut` say how the depth
  changes when one order goes or comes. Every operation of the book is some
  removals followed by some additions (`RemoveOrder`, `InsertOrder`,
  `ShrinkOrder`), so one lemma for each of these gives the step for each message
  (`ApplyInductive`), and `Inductive`. From it follow `TypeCorrect`,
  `LevelsCorrect` and `NoPhantoms`. For `TopCorrect` it remains that a side with
  levels has a lowest and a highest price (`Extremes`, from the well-ordering of
  the naturals) and that an order with quantity left has a level
  (`LiveHasLevel`). For `ChartCorrect`, prices without a level add nothing to
  the recounted sum, so it is the sum over the levels (`CumulativeDepth`); the
  maximum is over both sides and at least 1 (`MaxCumulativeFacts`), so a bar's
  quotient is at most the width, and the blanks after it are not negative
  (`BarFacts`).
* **Refinement** (`OrderBook_proofs`). By `IInv`, depth read from the levels is
  depth recounted from the orders (`DepthAgrees`), so a step needs only its
  orders compared. What `ParsePacket` and `ParsePayload` return is what the
  abstract book takes the bytes to say, refused ones included; then an add is
  `Enter`, a cancel or execution `Leave` with the clamp, and `clear` is `Reset`.
* **Feed** (`Feed_proofs`). Between the book and the generator's pool lie the
  packets under way, so book and pool need not agree in any one state. The proof
  looks at books to come: there are views, the first of which is the book in
  hand, each the one before it with one more packet applied, and the last agrees
  with the pool (`InLine`). Generating a packet adds a view at the end, and
  applying one takes the first away. A fault puts the order ids it is about into
  `damaged`, and every comparison leaves those out. An executed or quoted price
  is best in the pool when its packet is made, hence in the view before it, and
  that view is the book when the packet arrives. A whole packet is refused by
  nobody, and one cut off by its descriptor is refused whatever it is, so its
  view is the one before it; that takes a packet written over a shorter one,
  which `damaged` and `faults` have counted. The lemmas about the pool cover the
  removal that swaps with the last order and the partial execution, and one
  about the wire says that a message arrives as it was sent.
* **Sender** (`Udp_proofs`). `RingProtects` speaks of slots, but what
  keeps a frame is its age: the invariant says which slot a call of a given age
  has, so that a call younger than `TxSlots` writes another one, and what the
  slot of a frame in flight holds while it is that young.
* **Receiver** (`Udp_proofs`). A buffer is in the ring, in an event not polled,
  in an event polled, or in the callback's hands: in one of them, once
  (`Distinct`), and all but the discarded ones are somewhere (`Counted`). So the
  NIC, which writes to the ring's buffers only, leaves alone what is still to be
  read (`BuffersIntact`). For `DeliveredInOrder` it is added that no frame is
  numbered above the arrivals (`Numbered`), so that a new one goes to the end;
  the first event pending then has the smallest number waiting, which is the
  received frame right after those handed out, and by `BuffersIntact` its buffer
  still holds it.
* **Strategy** (`Strategy_proofs`). There is a previous frame exactly once a
  frame has been counted, and its timestamp is the rounded time of the last
  frame, for as long as every frame is stamped, so each gap is between two
  neighbours of `arrivals`; the last quoted price is the one in the market until
  a `send()` fails. Lemmas about rounding bound the error of a gap by the
  spacing of doubles, and cutting off to cycles keeps the order. For
  `QuoteStraddlesTheo` the packet sent is the encoding of the last quoted price
  (`QuotedInv`); parsing it gives the words back (`QuoteDecodes`), and rounding
  to cents moves neither price past the theoretical one (`Straddles`,
  `Crosses`).
* **Realized volatility** (`Strategy_proofs`). The window's return in place i
  from the end is the one between observations i and i + 1 from the end, and it
  has all returns or is full (`Slid`): that is `WindowSlides`, and by dropping
  the first when it appends a full window keeps it. With the times of the first
  and last observation (`Timed`) it follows that the estimate is the documented
  one until the first return is dropped (`ExactUntilFull`). From then on the
  same spread is divided by a time that is no shorter than the window's, which
  makes it no greater (`NeverTooHigh`), if the spread is not negative: n times a
  sum of n squares is at least the square of the sum (`SquaresBound`).
* **Sums** (`Sums_proofs`). The library's sum is a fold, and a fold is a
  recursive function that takes the elements in an order `CHOOSE` picks. There
  is such a function on all subsets of a finite set (`RecursionExists`), and its
  value does not depend on the order (`SumRemove`). The provers cannot use an
  induction theorem whose parameter is a predicate, so these proofs speak of the
  set of the numbers (`Naturals`) or of the subsets (`FiniteSubsets`) that have
  the property, and go back to a least counterexample (`Least`).
* **Rig** (`Rig_proofs`). `IInv` joins the types, `FramesAccounted`, and
  where each thread can be for each position of main: the exchange is done
  before the strategy is joined, and holds nothing before it runs. From it
  follow `TypeCorrect`, `Accounted` and `FinalReport`.
* **Loopback tool** (`Loopback_proofs`). A frame under way is in one of four
  places: the NIC on its way out, the cable, a buffer in host memory, the event
  queue. There is one, and only while the program waits for it (`Carried`), so
  what a wait sees is this iteration's. Buffers are posted in turn, one fewer
  while a frame holds one, so the next to be filled is the expected one modulo
  their number (`Rotation`), and the timestamp in its prefix is this frame's
  from the moment the NIC has filled it. The fit in use is the one made at the
  last multiple of `CAL_PERIOD` (`Fitted`), so every reading taken is of the
  frame's own number and every sample made of them (`OwnReadings`).
* **Ping and pong** (`PingPong_proofs`). The path back, the datagram in pong's
  hands and the path there make one line. Handing a datagram on leaves the line
  as it is; `send()` adds the next number at its end, `recv()` takes the first,
  and a copy doubles one. So numbers rise by at most one along it up to the last
  one sent (`Flow`), and the next reply is at most one round on from the last
  (`Follows`): samples fall behind and never catch up. Without a copy the line
  is the one datagram ping waits for (`Exact`). What is recorded is kept until
  the report (`Keeps`, which needs the count of rounds that `Tally` gives, so
  that no sample is dropped for want of room), whether or not it could be
  written, and then sorted.
* **The report** (`PingPong_proofs`). A sorted order exists for any number of
  samples: the greatest goes last and the rest is sorted (`SortOneMore`). A
  percentile is interpolated between two neighbours in it, so a sample below it
  stands before the upper one and a sample above it after the lower one
  (`Interpolate`), and there are no more samples than places (`ImageBound`). The
  mean is bounded as each term of the sum is (`MeanFacts`). Together with
  `Keeps` that is `ReportIsTrue`.

Every invariant and the refinement that the passing runs check are proved. Only
model-checked are the liveness properties (`EveryFrameDelivered`, `RunEnds`,
`RigEnds`, `PingEnds`), which are beyond the prover. The `Find*.cfg` runs show
that a claim fails, so there is nothing to prove of them.

## What is not modelled

* `BlackScholes.hpp`, `timing.h` and the least-squares fit of the loopback tool:
  floating-point formulas over measured data, without state. Where a conversion
  decides something (the cast of a price, the rounding of a timestamp) it is in
  the model of its caller.
* Colours and columns of `printAnsi` and `printDepthChart`, the Python and shell
  scripts, `util.cpp`: drawing and input or output. `stats_write_csv` is called
  by no program.
* `NetworkInterface.hpp` and `benchmarks/efvi/ping.cpp`: placeholders.
* Failures of `socket()`, `bind()`, `connect()` and of the ef_vi set-up calls in
  the rig: they end a program before it begins.
* Timestamps and symbol in messages: nothing reads them.
* Frame headers in `UdpSender`: they are patched in the same buffer at the same
  time as the data, and live as long.

## Plan

Done, in this order: the order book with its abstract specification and its
proofs; generator and book together; the sender; the receiver; the volatility
estimator; the strategy's callback; the loopback tool; the rig and its proofs;
the lossy feed; discards in the rig; the loopback tool's calibration and report;
the sample collector with ping and pong; the proofs about sender, receiver,
strategy, top of book and ping; the proofs about the feed, the loopback tool,
the order of delivery, the quote on the wire and the volatility window; the
proofs about sums, the depth chart, the volatility estimate and ping's report.

What would come next:

1. *The strategy over its parts.* `Strategy` with an instance of `OrderBook` and
   of `UdpSender` in place of two of its choices.
2. *The same for proofs*: `StraddlesTheo` and `TopCorrect` of those instances,
   so that a quote is shown to follow from the best prices of the book.
