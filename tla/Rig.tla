-------------------------------- MODULE Rig --------------------------------
(***************************************************************************)
(* The two-thread rig of bench/exchange_strategy.cpp: main() starts the    *)
(* strategy thread, gives it 200 ms, starts the exchange thread, joins it, *)
(* clears g_running and joins the strategy; SIGINT clears g_running too.   *)
(* Frames are counted, not told apart: modules Feed, UdpSender, UdpReceiver *)
(* and Strategy say what is in them and what becomes of them.              *)
(***************************************************************************)
EXTENDS Integers

CONSTANTS
    Total,       \* count + kWarmupIters
    TxRing,      \* descriptors of the exchange's TX ring
    EvBatch,     \* events one reapCompletions() takes, 16
    RxBufs,      \* buffers of the strategy's RX ring
    MaxEvents    \* frames one poll() takes, 32

ASSUME RigAssumption ==
    /\ Total \in Nat
    /\ TxRing \in Nat \ {0} /\ RxBufs \in Nat \ {0}
    /\ EvBatch \in Nat \ {0} /\ MaxEvents \in Nat \ {0}

VARIABLES
    g_running,
    main, exchange, strategy,   \* where each thread stands
    listening,                  \* the strategy's RX filter is installed
    sent,                       \* the exchange's sent
    n,                          \* the strategy's n
    tx, completed,              \* descriptors posted, and sent but not reaped
    rx, bad,                    \* frames in RX buffers, not yet polled: good,
                                \* and to be discarded
    n_discards,                 \* the strategy's discard_count(): buffers that
                                \* are never posted again
    lost                        \* history: frames nobody will receive

vars == <<g_running, main, exchange, strategy, listening, sent, n, tx,
          completed, rx, bad, n_discards, lost>>

TypeOK ==
    /\ g_running \in BOOLEAN /\ listening \in BOOLEAN
    /\ main \in {"start", "sleep", "join_exchange", "join_strategy", "report"}
    /\ exchange \in {"new", "construct", "check", "send", "reap", "done"}
    /\ strategy \in {"new", "construct", "check", "poll", "done"}
    /\ sent \in 0 .. Total /\ n \in 0 .. Total /\ lost \in 0 .. Total
    /\ tx \in 0 .. TxRing /\ completed \in 0 .. TxRing
    /\ tx + completed <= TxRing
    /\ rx \in 0 .. RxBufs /\ bad \in 0 .. RxBufs /\ n_discards \in 0 .. RxBufs
    /\ rx + bad + n_discards <= RxBufs

Init ==
    /\ g_running = TRUE
    /\ main = "start" /\ exchange = "new" /\ strategy = "new"
    /\ listening = FALSE
    /\ sent = 0 /\ n = 0 /\ tx = 0 /\ completed = 0
    /\ rx = 0 /\ bad = 0 /\ n_discards = 0 /\ lost = 0

rxCounts == <<n, rx, bad, n_discards>>
counts == <<sent, tx, completed, lost, rxCounts>>
Least(x, y) == IF x < y THEN x ELSE y

-----------------------------------------------------------------------------
(* main() *)
StartStrategy ==
    /\ main = "start" /\ main' = "sleep"
    /\ strategy' = "construct"
    /\ UNCHANGED <<g_running, exchange, listening, counts>>

(* The sleep is over, whether or not the strategy is ready.                *)
StartExchange ==
    /\ main = "sleep" /\ main' = "join_exchange"
    /\ exchange' = "construct"
    /\ UNCHANGED <<g_running, strategy, listening, counts>>

JoinExchange ==
    /\ main = "join_exchange" /\ exchange = "done"
    /\ main' = "join_strategy"
    /\ g_running' = FALSE
    /\ UNCHANGED <<exchange, strategy, listening, counts>>

(* Mutant: the strategy is not waited for.                                 *)
DetachStrategy ==
    /\ main = "join_strategy"
    /\ main' = "report"
    /\ UNCHANGED <<g_running, exchange, strategy, listening, counts>>

JoinStrategy ==
    /\ main = "join_strategy" /\ strategy = "done"
    /\ main' = "report"
    /\ UNCHANGED <<g_running, exchange, strategy, listening, counts>>

OnSigint ==
    /\ main # "report"
    /\ g_running' = FALSE
    /\ UNCHANGED <<main, exchange, strategy, listening, counts>>

-----------------------------------------------------------------------------
(* exchangeThreadMain().  Its sender goes when it returns, and with it the *)
(* descriptors the NIC has not come to.                                    *)
ExchangeConstruct ==
    /\ exchange = "construct" /\ exchange' = "check"
    /\ UNCHANGED <<g_running, main, strategy, listening, counts>>

MoreOff == sent <= Total          \* Mutant: one packet too many
More == sent < Total

ExchangeCheck ==
    /\ exchange = "check"
    /\ IF g_running /\ More
       THEN exchange' = "send" /\ UNCHANGED <<tx, lost>>
       ELSE exchange' = "done" /\ tx' = 0 /\ lost' = lost + tx
    /\ UNCHANGED <<g_running, main, strategy, listening, sent, completed, rxCounts>>

(* Mutant: a refused packet counts as sent.                                *)
SendCountsAll ==
    /\ exchange = "send" /\ exchange' = "reap"
    /\ tx' = IF tx + completed < TxRing THEN tx + 1 ELSE tx
    /\ sent' = sent + 1
    /\ UNCHANGED <<g_running, main, strategy, listening, completed, rxCounts, lost>>

(* Mutant: nothing is reaped after a failed send.                          *)
SendContinues ==
    /\ exchange = "send"
    /\ IF tx + completed < TxRing
       THEN tx' = tx + 1 /\ sent' = sent + 1 /\ exchange' = "reap"
       ELSE exchange' = "check" /\ UNCHANGED <<tx, sent>>
    /\ UNCHANGED <<g_running, main, strategy, listening, completed, rxCounts, lost>>

(* Only a packet the NIC took counts; one it did not is never sent again.  *)
ExchangeSend ==
    /\ exchange = "send" /\ exchange' = "reap"
    /\ IF tx + completed < TxRing
       THEN tx' = tx + 1 /\ sent' = sent + 1
       ELSE UNCHANGED <<tx, sent>>
    /\ UNCHANGED <<g_running, main, strategy, listening, completed, rxCounts, lost>>

ExchangeReap ==
    /\ exchange = "reap" /\ exchange' = "check"
    /\ completed' = completed - Least(completed, EvBatch)
    /\ UNCHANGED <<g_running, main, strategy, listening, sent, tx, rxCounts, lost>>

Exchange == ExchangeConstruct \/ ExchangeCheck \/ ExchangeSend \/ ExchangeReap

-----------------------------------------------------------------------------
(* strategyThreadMain().  What is still in its RX buffers when it returns  *)
(* is never looked at.                                                     *)
StrategyConstruct ==
    /\ strategy = "construct" /\ strategy' = "check"
    /\ listening' = TRUE
    /\ UNCHANGED <<g_running, main, exchange, counts>>

StrategyCheck ==
    /\ strategy = "check"
    /\ IF g_running /\ n < Total
       THEN strategy' = "poll" /\ UNCHANGED <<listening, rx, bad, lost>>
       ELSE /\ strategy' = "done"
            /\ listening' = FALSE /\ rx' = 0 /\ bad' = 0
            /\ lost' = lost + rx + bad
    /\ UNCHANGED <<g_running, main, exchange, sent, n, n_discards, tx, completed>>

(* One poll() takes what has come, MaxEvents at most: good frames go to    *)
(* the callback, the buffer of a discarded one is gone.                    *)
StrategyPoll ==
    /\ strategy = "poll" /\ strategy' = "check"
    /\ \E good \in 0 .. rx, discards \in 0 .. bad :
        /\ good + discards = Least(rx + bad, MaxEvents)
        /\ rx' = rx - good /\ n' = Least(Total, n + good)
        /\ bad' = bad - discards /\ n_discards' = n_discards + discards
        /\ lost' = lost + discards
    /\ UNCHANGED <<g_running, main, exchange, listening, sent, tx, completed>>

Strategy == StrategyConstruct \/ StrategyCheck \/ StrategyPoll

(* The NIC sends a frame over the cable into an RX buffer, if the filter   *)
(* is there and a buffer is free; it may find something wrong with it.     *)
NicTransfer ==
    /\ tx > 0
    /\ tx' = tx - 1
    /\ completed' = completed + 1
    /\ IF listening /\ rx + bad + n_discards < RxBufs
       THEN /\ \/ rx' = rx + 1 /\ UNCHANGED bad
               \/ bad' = bad + 1 /\ UNCHANGED rx
            /\ UNCHANGED lost
       ELSE lost' = lost + 1 /\ UNCHANGED <<rx, bad>>
    /\ UNCHANGED <<g_running, main, exchange, strategy, listening, sent, n,
                   n_discards>>

Main == StartStrategy \/ StartExchange \/ JoinExchange \/ JoinStrategy
Next == Main \/ OnSigint \/ Exchange \/ Strategy \/ NicTransfer

(* Every thread is scheduled and the NIC works; nobody need press ctrl-C.  *)
Spec ==
    /\ Init /\ [][Next]_vars
    /\ WF_vars(Main) /\ WF_vars(Exchange) /\ WF_vars(Strategy)
    /\ WF_vars(NicTransfer)

-----------------------------------------------------------------------------
(* Each packet counted as sent (125-131) is on its way, received or lost,  *)
(* once: received never exceeds sent however the rig is started, stopped   *)
(* or overrun, and a packet refused by a full ring is counted nowhere.     *)
(* Every discard is a lost packet.                                         *)
FramesAccounted ==
    /\ sent = tx + rx + bad + n + lost
    /\ n_discards <= lost

(* main() prints and frees what the strategy wrote without any lock: when  *)
(* it does, no thread that could write it is left (301-329).               *)
ReportIsFinal == main = "report" => exchange = "done" /\ strategy = "done"

(* The rig always ends, frames lost or not: the exchange's ring never      *)
(* stays full, since it reaps completions after a failed send too, and     *)
(* the strategy is told to stop waiting for what will not come, even when  *)
(* discards have taken the last of its buffers.                            *)
RigEnds == <>(main = "report")
=============================================================================
