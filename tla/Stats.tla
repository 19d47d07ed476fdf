------------------------------- MODULE Stats -------------------------------
(***************************************************************************)
(* The sample collector of common/stats.h: a stats_t is the sequence of    *)
(* its samples, in cycles, with a capacity.  tsc_to_ns multiplies by one   *)
(* positive factor, so the report is given in cycles; what it divides is a *)
(* fraction <<num, den>>.                                                  *)
(***************************************************************************)
EXTENDS Integers, SequencesExt

(* stats_record: what exceeds the capacity is dropped.                     *)
StatsRecord(samples, capacity, cycles) ==
    IF Len(samples) < capacity THEN Append(samples, cycles) ELSE samples

Total(s) == SumFunction(s)

AbsDelta(x, y) == IF x < y THEN y - x ELSE x - y

(* The sum of |samples[i] - samples[i - 1]| (PDV), over how many there are.*)
Jitter(s) ==
    <<Total([i \in 1 .. Len(s) - 1 |-> AbsDelta(s[i], s[i + 1])]), Len(s) - 1>>

(* The mean, and the root of the variance about the untruncated mean, both *)
(* truncated to whole cycles.                                              *)
Mean(s) == Total(s) \div Len(s)
Stddev(s) ==
    LET n == Len(s)
        spread == n * Total([i \in 1 .. n |-> s[i] * s[i]]) - Total(s) * Total(s)
    IN Max({k \in 0 .. Total(s) : k * k * n * n <= spread})

(* 0.50, 0.90, 0.95, 0.99, 0.999, 0.9999 and 0.99999.                      *)
Percentiles == {<<50, 100>>, <<90, 100>>, <<95, 100>>, <<99, 100>>,
                <<999, 1000>>, <<9999, 10000>>, <<99999, 100000>>}

(* Mutant: the index is taken of n samples, not of the n - 1 gaps.         *)
PctOfAll(sorted, p) ==
    LET n == Len(sorted)
        idx == p[1] * n
        lo == idx \div p[2]
        hi == IF lo + 1 < n THEN lo + 1 ELSE lo
        rest == idx % p[2]
    IN <<sorted[lo + 1] * (p[2] - rest) + sorted[hi + 1] * rest, p[2]>>

(* _pct: interpolated between the two samples next to index p * (n - 1).   *)
Pct(sorted, p) ==
    LET n == Len(sorted)
        idx == p[1] * (n - 1)
        lo == idx \div p[2]
        hi == IF lo + 1 < n THEN lo + 1 ELSE lo
        rest == idx % p[2]
    IN <<sorted[lo + 1] * (p[2] - rest) + sorted[hi + 1] * rest, p[2]>>

(* qsort: of the orders the samples can stand in, one in which none        *)
(* decreases.                                                              *)
Sorted(s) ==
    LET D == DOMAIN s
        orders == {[i \in D |-> s[p[i]]] : p \in Bijection(D, D)}
    IN CHOOSE t \in orders : \A i, j \in D : i < j => t[i] <= t[j]

(* What stats_compute puts into result: the jitter is of the samples as    *)
(* they stood, the extremes and percentiles are read from them sorted.     *)
Compute(s, sorted, result) ==
    IF s = <<>> THEN [result EXCEPT !.n = 0]
    ELSE [n |-> Len(s), jitter |-> Jitter(s), mean |-> Mean(s),
          stddev |-> Stddev(s), min |-> sorted[1], max |-> Last(sorted),
          pct |-> [p \in Percentiles |-> Pct(sorted, p)]]

(* Nothing is computed yet.                                                *)
NoResult == [n |-> 0]
=============================================================================
