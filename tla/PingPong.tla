------------------------------ MODULE PingPong ------------------------------
(***************************************************************************)
(* The kernel benchmark: ping.cpp sends a datagram, waits for a reply and  *)
(* records how long that took, Warmup + NSamples times, then plots and     *)
(* reports; pong.cpp echoes what it receives.  Every datagram says "ping", *)
(* so nothing but its place in line tells a reply from another; here each  *)
(* carries the number of the send() it comes from, as history.             *)
(*                                                                         *)
(* The sockets and the network are external: two FIFO paths that may lose  *)
(* or double a datagram, and an ICMP error for one that finds no pong.     *)
(***************************************************************************)
EXTENDS Stats

CONSTANTS
    Warmup,       \* N_WARMUP, 1000
    NSamples,     \* N_SAMPLES, 100000
    Durations,    \* what t1 - t0 may come to
    MaxFaults     \* bound of the model: datagrams lost or doubled, and stops
                  \* of pong

ASSUME PingPongAssumption ==
    /\ Warmup \in Nat /\ NSamples \in Nat \ {0}
    /\ Durations \subseteq Nat
    /\ MaxFaults \in Nat

VARIABLES
    pc, round,                 \* where ping stands, rounds begun
    samples, result,           \* rtt.samples, result
    csv,                       \* the rows this run has put into samples.csv
    rounds,                    \* history: [reply, cycles] of each sample
    to_pong, to_ping,          \* datagrams on their way or in a socket
    refused,                   \* an ICMP error awaits ping's next call
    pong,                      \* "down", "recv" or "send"
    echo,                      \* what pong is about to send back
    faults,
    lost, doubled              \* history: a datagram was not answered, or twice

pingVars == <<pc, round, samples, result, csv, rounds>>
pongVars == <<pong, echo>>
netVars == <<to_pong, to_ping, refused>>
faultVars == <<faults, lost, doubled>>
vars == <<pingVars, pongVars, netVars, faultVars>>

Rounds == Warmup + NSamples

TypeOK ==
    /\ pc \in {"send", "recv", "plot", "compute", "done"}
    /\ round \in 0 .. Rounds
    /\ samples \in Seq(Durations) /\ Len(samples) <= NSamples
    /\ csv \in Seq(Durations)
    /\ result.n \in 0 .. NSamples
    /\ rounds \in Seq([reply : 0 .. Rounds, cycles : Durations])
    /\ Len(rounds) <= NSamples
    /\ to_pong \in Seq(1 .. Rounds) /\ to_ping \in Seq(1 .. Rounds)
    /\ refused \in BOOLEAN /\ lost \in BOOLEAN /\ doubled \in BOOLEAN
    /\ pong \in {"down", "recv", "send"}
    /\ echo \in 0 .. Rounds
    /\ faults \in 0 .. MaxFaults

(* Either may be started first.                                            *)
Init ==
    /\ pc = "send" /\ round = 0
    /\ samples = <<>> /\ result = NoResult /\ csv = <<>> /\ rounds = <<>>
    /\ to_pong = <<>> /\ to_ping = <<>> /\ refused = FALSE
    /\ pong \in {"down", "recv"} /\ echo = 0
    /\ faults = 0 /\ lost = FALSE /\ doubled = FALSE

-----------------------------------------------------------------------------
(* ping.cpp *)

(* send(), whose result nobody looks at: an error that was waiting is      *)
(* returned instead of sending.                                            *)
Send ==
    /\ pc = "send" /\ round < Rounds
    /\ IF refused
       THEN refused' = FALSE /\ lost' = TRUE /\ UNCHANGED to_pong
       ELSE to_pong' = Append(to_pong, round + 1) /\ UNCHANGED <<refused, lost>>
    /\ round' = round + 1
    /\ pc' = "recv"
    /\ UNCHANGED <<samples, result, csv, rounds, pongVars, to_ping, faults, doubled>>

MeasuresEarly == round >= Warmup          \* Mutant: the last warm-up round too
Measures == round > Warmup

(* A sample is kept of every measured round, whatever recv() returned.     *)
Record(reply) ==
    IF Measures
    THEN \E cycles \in Durations :
            /\ samples' = StatsRecord(samples, NSamples, cycles)
            /\ rounds' = Append(rounds, [reply |-> reply, cycles |-> cycles])
    ELSE UNCHANGED <<samples, rounds>>

AfterRecvOneMore == IF round > Rounds THEN "plot" ELSE "send"     \* Mutant
AfterRecv == IF round = Rounds THEN "plot" ELSE "send"

(* Mutant: a warm-up round does not wait for its reply.                    *)
RecvMeasuredOnly ==
    /\ pc = "recv"
    /\ \/ /\ ~Measures
          /\ UNCHANGED <<refused, to_ping, samples, rounds>>
       \/ /\ Measures /\ ~refused /\ to_ping # <<>>
          /\ to_ping' = Tail(to_ping)
          /\ Record(Head(to_ping))
          /\ UNCHANGED refused
    /\ pc' = AfterRecv
    /\ UNCHANGED <<round, result, csv, pongVars, to_pong, faultVars>>

(* recv() blocks until there is a datagram or an error.                    *)
Recv ==
    /\ pc = "recv"
    /\ \/ /\ refused
          /\ refused' = FALSE
          /\ Record(0)
          /\ UNCHANGED to_ping
       \/ /\ ~refused /\ to_ping # <<>>
          /\ to_ping' = Tail(to_ping)
          /\ Record(Head(to_ping))
          /\ UNCHANGED refused
    /\ pc' = AfterRecv
    /\ UNCHANGED <<round, result, csv, pongVars, to_pong, faultVars>>

(* plot_generate: the samples as they stand go to samples.csv, if it can   *)
(* be opened; else it stays as it was, and the run goes on.                *)
Plot ==
    /\ pc = "plot" /\ pc' = "compute"
    /\ csv' \in {csv, samples}
    /\ UNCHANGED <<round, samples, result, rounds, pongVars, netVars, faultVars>>

(* stats_compute and stats_print.                                          *)
Report ==
    /\ pc = "compute" /\ pc' = "done"
    /\ samples' = Sorted(samples)
    /\ result' = Compute(samples, samples', result)
    /\ UNCHANGED <<round, csv, rounds, pongVars, netVars, faultVars>>

Ping == Send \/ Recv \/ Plot \/ Report

-----------------------------------------------------------------------------
(* pong.cpp *)
PongRecv ==
    /\ pong = "recv" /\ to_pong # <<>>
    /\ pong' = "send"
    /\ echo' = Head(to_pong)
    /\ to_pong' = Tail(to_pong)
    /\ UNCHANGED <<pingVars, to_ping, refused, faultVars>>

PongSend ==
    /\ pong = "send"
    /\ pong' = "recv" /\ echo' = 0
    /\ to_ping' = Append(to_ping, echo)
    /\ UNCHANGED <<pingVars, to_pong, refused, faultVars>>

PongStart ==
    /\ pong = "down" /\ pong' = "recv"
    /\ UNCHANGED <<pingVars, echo, netVars, faultVars>>

Pong == PongRecv \/ PongSend \/ PongStart

(* Stopped by hand, with what its socket holds.                            *)
PongStop ==
    /\ pong # "down" /\ faults < MaxFaults
    /\ pong' = "down" /\ echo' = 0
    /\ to_pong' = <<>>
    /\ lost' = (lost \/ to_pong # <<>> \/ echo # 0)
    /\ faults' = faults + 1
    /\ UNCHANGED <<pingVars, to_ping, refused, doubled>>

-----------------------------------------------------------------------------
(* The network.                                                            *)
Refuse ==
    /\ pong = "down" /\ to_pong # <<>>
    /\ to_pong' = Tail(to_pong)
    /\ refused' = TRUE
    /\ lost' = TRUE
    /\ UNCHANGED <<pingVars, pongVars, to_ping, faults, doubled>>

Lose ==
    /\ faults < MaxFaults
    /\ \/ to_pong # <<>> /\ to_pong' = Tail(to_pong) /\ UNCHANGED to_ping
       \/ to_ping # <<>> /\ to_ping' = Tail(to_ping) /\ UNCHANGED to_pong
    /\ faults' = faults + 1
    /\ lost' = TRUE
    /\ UNCHANGED <<pingVars, pongVars, refused, doubled>>

Double ==
    /\ faults < MaxFaults
    /\ \/ /\ to_pong # <<>>
          /\ to_pong' = <<Head(to_pong)>> \o to_pong
          /\ UNCHANGED to_ping
       \/ /\ to_ping # <<>>
          /\ to_ping' = <<Head(to_ping)>> \o to_ping
          /\ UNCHANGED to_pong
    /\ faults' = faults + 1
    /\ doubled' = TRUE
    /\ UNCHANGED <<pingVars, pongVars, refused, lost>>

Network == Refuse \/ Lose \/ Double

Next == Ping \/ Pong \/ PongStop \/ Network

(* Both processes run; pong, once stopped, is started again; an error      *)
(* reaches ping.                                                           *)
Spec ==
    /\ Init /\ [][Next]_vars
    /\ WF_vars(Ping) /\ WF_vars(Pong)

-----------------------------------------------------------------------------
Lag(k) == Warmup + k - rounds[k].reply

(* Sample k times the k-th measured round trip (ping.cpp:51-58), as long   *)
(* as each datagram is answered, once.  A doubled one makes the next       *)
(* recv() return at once with a reply to an earlier send(), and so does    *)
(* every later one: the samples fall behind and never catch up again.      *)
SamplesOwnRoundTrip ==
    ~lost =>
        /\ ~doubled => \A k \in DOMAIN rounds : Lag(k) = 0
        /\ \A j, k \in DOMAIN rounds : j <= k => 0 <= Lag(j) /\ Lag(j) <= Lag(k)

CountBelow(v) == Cardinality({k \in DOMAIN rounds : rounds[k].cycles * v[2] < v[1]})
CountAbove(v) == Cardinality({k \in DOMAIN rounds : rounds[k].cycles * v[2] > v[1]})

(* The report is of the samples as recorded, though stats_compute sorts    *)
(* them in place (stats.h:69-107): what was written for the plots, if      *)
(* anything, and the jitter are in recording order, and with p of the way  *)
(* from the first to the last sample counted in gaps, no more samples lie  *)
(* below a percentile than before it on that way, rounded up, nor above it *)
(* than after it.                                                          *)
ReportTrue ==
    pc = "done" =>
        LET recorded == [k \in DOMAIN rounds |-> rounds[k].cycles]
            gaps == NSamples - 1
        IN /\ result.n = NSamples /\ csv \in {<<>>, recorded}
           /\ result.jitter[1] =
                Total([k \in 1 .. gaps |-> AbsDelta(recorded[k], recorded[k + 1])])
           /\ result.min <= result.mean /\ result.mean <= result.max
           /\ \A p \in Percentiles :
                LET v == result.pct[p] IN
                /\ result.min * v[2] <= v[1] /\ v[1] <= result.max * v[2]
                /\ CountBelow(v) * p[2] < p[1] * gaps + p[2]
                /\ CountAbove(v) * p[2] < (p[2] - p[1]) * gaps + p[2]

(* ping ends if every datagram is answered, doubled or not.  One that is   *)
(* lost leaves recv() (ping.cpp:54) waiting for ever: no timeout, no retry.*)
PingEnds == <>(pc = "done" \/ lost)

(* plot.h:14 wants plot_generate called after stats_compute(), "since that *)
(* sorts samples in-place": nothing is plotted before there is a result.   *)
(* ping.cpp:60-63 calls them the other way round, and only so is the time  *)
(* series in the order of time: this is violated.                          *)
PlotAfterCompute == csv # <<>> => result # NoResult
=============================================================================
