---------------------------- MODULE RealizedVol ----------------------------
(***************************************************************************)
(* waler::RealizedVolEstimator (RealizedVol.hpp): a window of the last     *)
(* log-returns of a mid price, and the times that annualize their spread.  *)
(*                                                                         *)
(* A price is represented by its logarithm, an integer, so a log-return is *)
(* a difference.  Times are integers.  annualizedVol() is modelled by its  *)
(* square, an exact fraction, in units of one over the time unit: the two  *)
(* square roots and kSecondsPerYear are monotone and change no comparison. *)
(***************************************************************************)
EXTENDS Integers, SequencesExt

CONSTANTS
    Window,      \* window_, 64 in its one use
    LogPrices,   \* logarithms of the mids observed
    TimeSteps,   \* how much later than the last an observation may be made
    MaxObs       \* bound of the model: observations

ASSUME VolAssumption ==
    /\ Window \in Nat \ {0}
    /\ LogPrices \subseteq Int
    /\ TimeSteps \subseteq Nat
    /\ MaxObs \in Nat

VARIABLES
    returns,      \* returns_
    have_prev_,   \* have_prev_
    prev_price,   \* prev_price_
    prev_ns,      \* prev_ns_
    first_ns,     \* first_ns_, -1 until there is a return
    last_ns,      \* last_ns_
    seen          \* history: every observation, as [price, ns]

vol_vars == <<returns, have_prev_, prev_price, prev_ns, first_ns, last_ns, seen>>

VolTypeOK ==
    /\ returns \in Seq(Int) /\ Len(returns) <= Window
    /\ have_prev_ \in BOOLEAN
    /\ prev_price \in LogPrices \cup {0}
    /\ prev_ns \in Nat
    /\ first_ns \in Nat \cup {-1}
    /\ last_ns \in Nat
    /\ seen \in Seq([price : LogPrices, ns : Nat]) /\ Len(seen) <= MaxObs

VolInit ==
    /\ returns = <<>>
    /\ have_prev_ = FALSE
    /\ prev_price = 0
    /\ prev_ns = 0
    /\ first_ns = -1
    /\ last_ns = 0
    /\ seen = <<>>

(* Mutants: one return too many is kept; the newest gives way.             *)
PushOneMore(rs, r) == Append(IF Len(rs) > Window THEN Tail(rs) ELSE rs, r)
PushOverNewest(rs, r) == Append(IF Len(rs) >= Window THEN Front(rs) ELSE rs, r)

(* A full window forgets its oldest return before it takes a new one.      *)
Push(rs, r) == Append(IF Len(rs) >= Window THEN Tail(rs) ELSE rs, r)

(* When the span starts that first_ns_ stands for.                         *)
SpanFromNow(now_ns) ==                 \* Mutant: not at the first return's start
    IF first_ns < 0 THEN now_ns ELSE first_ns
SpanStart(now_ns) == IF first_ns < 0 THEN prev_ns ELSE first_ns

Observe(price, now_ns) ==
    /\ IF have_prev_
       THEN /\ returns' = Push(returns, price - prev_price)
            /\ first_ns' = SpanStart(now_ns)
            /\ last_ns' = now_ns
       ELSE UNCHANGED <<returns, first_ns, last_ns>>
    /\ prev_price' = price
    /\ prev_ns' = now_ns
    /\ have_prev_' = TRUE
    /\ seen' = Append(seen, [price |-> price, ns |-> now_ns])

VolNext ==
    /\ Len(seen) < MaxObs
    /\ \E price \in LogPrices, dt \in TimeSteps : Observe(price, prev_ns + dt)

VolSpec == VolInit /\ [][VolNext]_vol_vars

(* n times the sum of squares less the square of the sum: n^2 variances.   *)
Spread(rs) ==
    LET sum == SumFunction(rs)
        squares == SumFunction([i \in 1 .. Len(rs) |-> rs[i] * rs[i]])
    IN Len(rs) * squares - sum * sum

(* annualizedVol()^2 = (variance of rs) * n / span, as <<num, den>>; <<0,  *)
(* 1>> below two returns and for a span that is not positive.              *)
VolSquared(rs, span) ==
    IF Len(rs) < 2 \/ span <= 0 THEN <<0, 1>>
    ELSE <<Spread(rs), Len(rs) * span>>

AnnualizedVol == VolSquared(returns, last_ns - first_ns)

-----------------------------------------------------------------------------
(* What the estimator says it estimates, from the full history: the        *)
(* returns between the last Window + 1 observations, and the time between  *)
(* the first and the last of those.                                        *)
InWindow ==
    SubSeq(seen, IF Len(seen) > Window + 1 THEN Len(seen) - Window ELSE 1, Len(seen))
WindowReturns ==
    [i \in 1 .. Len(InWindow) - 1 |-> InWindow[i + 1].price - InWindow[i].price]
WindowSpan == Last(InWindow).ns - Head(InWindow).ns

LeqFraction(x, y) == x[1] * y[2] <= y[1] * x[2]
EqFraction(x, y) == x[1] * y[2] = y[1] * x[2]

(* The window (23-38) slides: it always holds the newest returns, each     *)
(* between neighbouring observations, and no other.                        *)
WindowSlides == seen # <<>> => returns = WindowReturns

(* The estimate is the documented one until the window first overflows,    *)
(* and afterwards errs on one side only: first_ns_ (30-32) never advances, *)
(* so the span is never less than the window's, and the volatility         *)
(* reported never more than the window's returns show.                     *)
NeverOverstated ==
    seen # <<>> =>
        LET documented == VolSquared(WindowReturns, WindowSpan) IN
        /\ Len(seen) <= Window + 1 => EqFraction(AnnualizedVol, documented)
        /\ WindowSpan > 0 => LeqFraction(AnnualizedVol, documented)

(* RealizedVol.hpp:9-12: "annualized using the *actual* elapsed wall-clock *)
(* time spanned by the window".                                            *)
AnnualizedOverWindow ==
    seen # <<>> /\ WindowSpan > 0 =>
        EqFraction(AnnualizedVol, VolSquared(WindowReturns, WindowSpan))
=============================================================================
