-------------------------- MODULE PingPong_proofs --------------------------
(***************************************************************************)
(* Each sample times its own round trip as long as every datagram is       *)
(* answered once, and falls behind for good once one is doubled: for any   *)
(* number of rounds, losses, copies and restarts of pong.                  *)
(*                                                                         *)
(* The argument follows the line of datagrams under way, from the next one *)
(* ping will receive to the last one it sent.  Handing one on, from the    *)
(* path there to pong and from pong to the path back, leaves the line as   *)
(* it is, so only send(), recv() and a copy change it.                     *)
(*                                                                         *)
(* After that, what the samples are sorted into and what the percentiles   *)
(* interpolated between them say of how many lie below and above (module   *)
(* Stats), and that the report is of the samples as recorded.              *)
(***************************************************************************)
EXTENDS PingPong, Sums_proofs, SequenceTheorems

Joined(back, mid, there) == (back \o mid) \o there
Echo == IF echo = 0 THEN <<>> ELSE <<echo>>
Line == Joined(to_ping, Echo, to_pong)

(* Numbers rise by at most one along the line, up to the last one sent.    *)
Flow(line, last) ==
    /\ line \in Seq(1 .. Rounds)
    /\ \A i \in 1 .. Len(line) - 1 :
        line[i + 1] = line[i] \/ line[i + 1] = line[i] + 1
    /\ \A i \in 1 .. Len(line) : line[i] <= last
    /\ line # <<>> => line[Len(line)] = last

(* The number of the reply that comes next.                                *)
Awaited(line, last) == IF line = <<>> THEN last + 1 ELSE line[1]

LEMMA RoundsFacts == Rounds \in Nat /\ Warmup \in Nat
  BY PingPongAssumption DEF Rounds

-----------------------------------------------------------------------------
(* The line.                                                               *)

(* A sequence of one element and others has that element first.            *)
LEMMA ConsFacts ==
    ASSUME NEW S, NEW e \in S, NEW s \in Seq(S)
    PROVE  LET d == <<e>> \o s IN
           /\ d \in Seq(S) /\ d # <<>> /\ Len(d) = Len(s) + 1 /\ Len(s) \in Nat
           /\ d[1] = e /\ Tail(d) = s
           /\ \A i \in 2 .. Len(s) + 1 : d[i] = s[i - 1]
  <1> DEFINE h == <<e>>
             d == h \o s
  <1>1. h \in Seq(S) /\ Len(h) = 1 /\ h[1] = e /\ Len(s) \in Nat
    BY LenProperties
  <1> HIDE DEF h
  <1>2. /\ d \in Seq(S)
        /\ Len(d) = Len(h) + Len(s)
        /\ \A i \in 1 .. Len(h) + Len(s) :
             d[i] = IF i <= Len(h) THEN h[i] ELSE s[i - Len(h)]
    BY <1>1, ConcatProperties
  <1> HIDE DEF d
  <1>3. Len(d) = Len(s) + 1 /\ d # <<>>
    BY <1>1, <1>2, EmptySeq
  <1>4. d[1] = e /\ \A i \in 2 .. Len(s) + 1 : d[i] = s[i - 1]
    BY <1>1, <1>2
  <1>5. /\ Tail(d) \in Seq(S) /\ Len(Tail(d)) = Len(d) - 1
        /\ \A i \in 1 .. Len(Tail(d)) : Tail(d)[i] = d[i + 1]
    BY <1>2, <1>3, HeadTailProperties
  <1>6. Len(Tail(d)) = Len(s) /\ \A i \in 1 .. Len(s) : Tail(d)[i] = s[i]
    BY <1>1, <1>3, <1>4, <1>5
  <1>7. Tail(d) = s
    BY <1>5, <1>6, SeqEqual
  <1> QED BY <1>1, <1>2, <1>3, <1>4, <1>7 DEF d, h

LEMMA Uncons ==
    ASSUME NEW S, NEW s \in Seq(S), s # <<>>
    PROVE  /\ Head(s) \in S /\ Head(s) = s[1] /\ Tail(s) \in Seq(S)
           /\ Len(s) \in Nat \ {0}
           /\ s = <<Head(s)>> \o Tail(s)
  <1>1. /\ Len(s) \in Nat \ {0} /\ Head(s) = s[1] /\ Head(s) \in S
        /\ Tail(s) \in Seq(S)
    BY EmptySeq, HeadTailProperties
  <1>2. SubSeq(s, 1, Len(s)) = <<s[1]>> \o SubSeq(s, 1 + 1, Len(s))
    BY <1>1, SubSeqRecursiveFirst
  <1> QED BY <1>1, <1>2, SubSeqFull, TailIsSubSeq

(* What stands first on the path back stands first in the line.            *)
LEMMA JoinedCons ==
    ASSUME NEW S, NEW e \in S, NEW a \in Seq(S), NEW b \in Seq(S), NEW c \in Seq(S)
    PROVE  /\ Joined(a, b, c) \in Seq(S)
           /\ Joined(<<e>> \o a, b, c) = <<e>> \o Joined(a, b, c)
  <1>1. (a \o b) \in Seq(S) /\ <<e>> \in Seq(S)
    BY ConcatProperties
  <1>2. ((a \o b) \o c) \in Seq(S)
    BY <1>1, ConcatProperties
  <1>3. (<<e>> \o a) \o b = <<e>> \o (a \o b)
    BY <1>1, ConcatAssociative
  <1>4. (<<e>> \o (a \o b)) \o c = <<e>> \o ((a \o b) \o c)
    BY <1>1, ConcatAssociative
  <1> QED BY <1>2, <1>3, <1>4 DEF Joined

(* Pong takes a datagram off the path there.                               *)
LEMMA JoinedTake ==
    ASSUME NEW S, NEW a \in Seq(S), NEW c \in Seq(S), c # <<>>
    PROVE  Joined(a, <<Head(c)>>, Tail(c)) = Joined(a, <<>>, c)
  <1>1. c = <<Head(c)>> \o Tail(c) /\ Head(c) \in S
    BY Uncons
  <1>2. <<Head(c)>> \in Seq(S) /\ Tail(c) \in Seq(S)
    BY <1>1, Uncons
  <1>3. (a \o <<Head(c)>>) \o Tail(c) = a \o (<<Head(c)>> \o Tail(c))
    BY <1>2, ConcatAssociative
  <1>4. a \o <<>> = a
    BY ConcatEmptySeq, Zenon
  <1> QED BY <1>1, <1>3, <1>4, Zenon DEF Joined

(* Pong puts it on the path back.                                          *)
LEMMA JoinedGive ==
    ASSUME NEW S, NEW a \in Seq(S), NEW e \in S, NEW c \in Seq(S)
    PROVE  Joined(Append(a, e), <<>>, c) = Joined(a, <<e>>, c)
  <1>1. Append(a, e) \in Seq(S)
    BY AppendProperties
  <1>2. Append(a, e) \o <<>> = Append(a, e)
    BY <1>1, ConcatEmptySeq
  <1>3. Append(a, e) = a \o <<e>>
    BY AppendIsConcat
  <1> QED BY <1>2, <1>3 DEF Joined

(* A datagram sent joins the line at its end.                              *)
LEMMA JoinedSend ==
    ASSUME NEW S, NEW a \in Seq(S), NEW b \in Seq(S), NEW c \in Seq(S),
           NEW e \in S
    PROVE  Joined(a, b, Append(c, e)) = Append(Joined(a, b, c), e)
  <1>1. (a \o b) \in Seq(S) /\ <<e>> \in Seq(S)
    BY ConcatProperties
  <1>2. Append(c, e) = c \o <<e>>
    BY AppendIsConcat
  <1>3. ((a \o b) \o c) \o <<e>> = (a \o b) \o (c \o <<e>>)
    BY <1>1, ConcatAssociative
  <1>4. ((a \o b) \o c) \in Seq(S)
    BY <1>1, ConcatProperties
  <1>5. Append((a \o b) \o c, e) = ((a \o b) \o c) \o <<e>>
    BY <1>4, AppendIsConcat
  <1> QED BY <1>2, <1>3, <1>5 DEF Joined

(* The oldest reply leaves the line at its beginning.                      *)
LEMMA JoinedReceive ==
    ASSUME NEW S, NEW a \in Seq(S), NEW b \in Seq(S), NEW c \in Seq(S),
           a # <<>>
    PROVE  /\ Joined(a, b, c) # <<>>
           /\ Joined(a, b, c)[1] = Head(a)
           /\ Joined(Tail(a), b, c) = Tail(Joined(a, b, c))
  <1>1. Head(a) \in S /\ Tail(a) \in Seq(S) /\ a = <<Head(a)>> \o Tail(a)
    BY Uncons
  <1>2. /\ Joined(Tail(a), b, c) \in Seq(S)
        /\ Joined(<<Head(a)>> \o Tail(a), b, c)
             = <<Head(a)>> \o Joined(Tail(a), b, c)
    <2>1. \A e \in S : \A t \in Seq(S) :
            /\ Joined(t, b, c) \in Seq(S)
            /\ Joined(<<e>> \o t, b, c) = <<e>> \o Joined(t, b, c)
      BY JoinedCons, SMTT(30)
    <2> QED BY <1>1, <2>1, Zenon
  <1>3. LET d == <<Head(a)>> \o Joined(Tail(a), b, c) IN
        d # <<>> /\ d[1] = Head(a) /\ Tail(d) = Joined(Tail(a), b, c)
    BY <1>1, <1>2, ConsFacts
  <1>4. Joined(a, b, c) = <<Head(a)>> \o Joined(Tail(a), b, c)
    BY <1>1, <1>2, Zenon
  <1> QED BY <1>3, <1>4

(* r is q with its k-th datagram doubled.                                  *)
DoubledAt(r, q, k) ==
    /\ Len(r) = Len(q) + 1
    /\ \A i \in 1 .. Len(r) : r[i] = IF i <= k THEN q[i] ELSE q[i - 1]

(* A copy on the path back doubles the first datagram of the line ...      *)
LEMMA JoinedDoubleBack ==
    ASSUME NEW S, NEW a \in Seq(S), NEW b \in Seq(S), NEW c \in Seq(S),
           a # <<>>
    PROVE  LET q == Joined(a, b, c)
               r == Joined(<<Head(a)>> \o a, b, c)
           IN r \in Seq(S) /\ \E k \in 1 .. Len(q) : DoubledAt(r, q, k)
  <1> DEFINE q == Joined(a, b, c)
             e == Head(a)
             r == <<e>> \o q
  <1>1. e \in S
    BY Uncons
  <1>2. q # <<>> /\ q[1] = e
    BY JoinedReceive
  <1>3. q \in Seq(S) /\ Joined(<<e>> \o a, b, c) = <<e>> \o q
    BY <1>1, JoinedCons, SMTT(30)
  <1> HIDE DEF q, e
  <1>4. /\ r \in Seq(S) /\ Len(r) = Len(q) + 1 /\ r[1] = e
        /\ \A i \in 2 .. Len(q) + 1 : r[i] = q[i - 1]
    BY <1>1, <1>3, ConsFacts
  <1>5. Len(q) \in Nat \ {0}
    BY <1>2, <1>3, EmptySeq
  <1> HIDE DEF r
  <1>6. DoubledAt(r, q, 1)
    BY <1>2, <1>4, <1>5 DEF DoubledAt
  <1>7. r \in Seq(S) /\ \E k \in 1 .. Len(q) : DoubledAt(r, q, k)
    BY <1>4, <1>5, <1>6
  <1> QED BY <1>3, <1>7 DEF q, e, r

(* ... and one on the path there the first of that path.                   *)
LEMMA JoinedDoubleThere ==
    ASSUME NEW S, NEW a \in Seq(S), NEW b \in Seq(S), NEW c \in Seq(S),
           c # <<>>
    PROVE  LET q == Joined(a, b, c)
               r == Joined(a, b, <<Head(c)>> \o c)
           IN r \in Seq(S) /\ \E k \in 1 .. Len(q) : DoubledAt(r, q, k)
  <1> DEFINE x == a \o b
             d == <<Head(c)>> \o c
             q == x \o c
             r == x \o d
             k == Len(x) + 1
  <1>1. x \in Seq(S)
    BY ConcatProperties
  <1>2. Head(c) \in S /\ Head(c) = c[1] /\ Len(c) \in Nat \ {0}
    BY Uncons
  <1>3. /\ d \in Seq(S) /\ Len(d) = Len(c) + 1 /\ d[1] = c[1]
        /\ \A i \in 2 .. Len(c) + 1 : d[i] = c[i - 1]
    BY <1>2, ConsFacts
  <1>4. Len(x) \in Nat
    BY <1>1, LenProperties
  <1> HIDE DEF x, d
  <1>5. /\ q \in Seq(S)
        /\ Len(q) = Len(x) + Len(c)
        /\ \A i \in 1 .. Len(x) + Len(c) :
             q[i] = IF i <= Len(x) THEN x[i] ELSE c[i - Len(x)]
    BY <1>1, ConcatProperties
  <1>6. /\ r \in Seq(S)
        /\ Len(r) = Len(x) + Len(d)
        /\ \A i \in 1 .. Len(x) + Len(d) :
             r[i] = IF i <= Len(x) THEN x[i] ELSE d[i - Len(x)]
    BY <1>1, <1>3, ConcatProperties
  <1> HIDE DEF q, r
  <1>7. Len(r) = Len(q) + 1 /\ k \in 1 .. Len(q)
    BY <1>2, <1>3, <1>4, <1>5, <1>6
  <1>8. ASSUME NEW i \in 1 .. Len(r)
        PROVE  r[i] = IF i <= k THEN q[i] ELSE q[i - 1]
    <2>1. i \in Int /\ 1 <= i /\ i <= Len(x) + (Len(c) + 1)
      BY <1>2, <1>3, <1>4, <1>6
    <2>2. CASE i <= Len(x)
      <3>1. q[i] = x[i] /\ r[i] = x[i]
        BY <1>2, <1>3, <1>4, <1>5, <1>6, <2>1, <2>2
      <3> QED BY <1>4, <2>1, <2>2, <3>1
    <2>3. CASE i = Len(x) + 1
      <3>1. i - Len(x) = 1
        BY <1>4, <2>3
      <3>2. q[i] = c[i - Len(x)]
        BY <1>2, <1>4, <1>5, <2>1, <2>3
      <3>3. r[i] = d[i - Len(x)]
        BY <1>2, <1>3, <1>4, <1>6, <2>1, <2>3, SMTT(30)
      <3> QED BY <1>3, <1>4, <2>3, <3>1, <3>2, <3>3
    <2>4. CASE i > Len(x) + 1
      <3>1. /\ i - Len(x) \in 2 .. Len(c) + 1
            /\ (i - 1) - Len(x) = (i - Len(x)) - 1
        BY <1>2, <1>4, <2>1, <2>4
      <3>2. d[i - Len(x)] = c[(i - Len(x)) - 1]
        BY <1>3, <3>1
      <3>3. r[i] = d[i - Len(x)]
        BY <1>2, <1>3, <1>4, <1>6, <2>1, <2>4
      <3>4. q[i - 1] = c[(i - 1) - Len(x)]
        BY <1>2, <1>4, <1>5, <2>1, <2>4
      <3>5. r[i] = q[i - 1]
        BY <3>1, <3>2, <3>3, <3>4
      <3> QED BY <1>4, <2>1, <2>4, <3>5
    <2> QED BY <1>4, <2>1, <2>2, <2>3, <2>4
  <1>9. DoubledAt(r, q, k)
    BY <1>7, <1>8 DEF DoubledAt
  <1> HIDE DEF k
  <1>10. r \in Seq(S) /\ \E p \in 1 .. Len(q) : DoubledAt(r, q, p)
    BY <1>6, <1>7, <1>9
  <1>11. q = Joined(a, b, c) /\ r = Joined(a, b, <<Head(c)>> \o c)
    BY DEF q, r, x, d, Joined
  <1> QED BY <1>10, <1>11

-----------------------------------------------------------------------------
(* Its numbers.                                                            *)

LEMMA FlowSend ==
    ASSUME NEW q, NEW n \in Nat, Flow(q, n), n + 1 \in 1 .. Rounds
    PROVE  /\ Flow(Append(q, n + 1), n + 1)
           /\ Awaited(Append(q, n + 1), n + 1) = Awaited(q, n)
  <1> DEFINE r == Append(q, n + 1)
  <1>1. /\ q \in Seq(1 .. Rounds) /\ Len(q) \in Nat
        /\ q # <<>> => Len(q) \in Nat \ {0} /\ q[Len(q)] = n
        /\ q = <<>> => Len(q) = 0
    BY EmptySeq, LenProperties DEF Flow
  <1>2. /\ r \in Seq(1 .. Rounds) /\ r # <<>> /\ Len(r) = Len(q) + 1
        /\ \A i \in 1 .. Len(q) : r[i] = q[i]
        /\ r[Len(q) + 1] = n + 1
    BY <1>1, AppendProperties
  <1> HIDE DEF r
  <1>3. ASSUME NEW i \in 1 .. Len(r) - 1
        PROVE  r[i + 1] = r[i] \/ r[i + 1] = r[i] + 1
    <2>1. CASE i < Len(q)
      BY <1>1, <1>2, <2>1 DEF Flow
    <2>2. CASE i = Len(q)
      BY <1>1, <1>2, <2>2
    <2> QED BY <1>1, <1>2, <2>1, <2>2
  <1>4. ASSUME NEW i \in 1 .. Len(r)
        PROVE  r[i] <= n + 1
    <2>1. CASE i <= Len(q)
      <3>1. i \in 1 .. Len(q)
        BY <1>1, <2>1
      <3>2. q[i] \in 1 .. Rounds /\ q[i] <= n
        BY <1>1, <3>1, ElementOfSeq DEF Flow
      <3> QED BY <1>2, <3>1, <3>2, RoundsFacts
    <2>2. CASE i = Len(q) + 1
      BY <1>2, <2>2
    <2> QED BY <1>1, <1>2, <2>1, <2>2
  <1>5. Flow(r, n + 1)
    BY <1>1, <1>2, <1>3, <1>4 DEF Flow
  <1>6. Awaited(r, n + 1) = Awaited(q, n)
    BY <1>1, <1>2 DEF Awaited
  <1> QED BY <1>5, <1>6 DEF r

LEMMA FlowReceive ==
    ASSUME NEW q, NEW n \in Nat, Flow(q, n), q # <<>>
    PROVE  /\ Flow(Tail(q), n)
           /\ q[1] \in 1 .. Rounds /\ q[1] <= n
           /\ Awaited(Tail(q), n) <= q[1] + 1
  <1> DEFINE r == Tail(q)
  <1>1. /\ q \in Seq(1 .. Rounds) /\ Len(q) \in Nat \ {0} /\ q[Len(q)] = n
        /\ q[1] \in 1 .. Rounds /\ q[1] <= n
    <2>1. q \in Seq(1 .. Rounds) /\ Len(q) \in Nat \ {0}
      BY EmptySeq DEF Flow
    <2>2. 1 \in 1 .. Len(q)
      BY <2>1
    <2>3. q[1] \in 1 .. Rounds
      BY <2>1, <2>2, ElementOfSeq
    <2> QED BY <2>1, <2>2, <2>3 DEF Flow
  <1>2. /\ r \in Seq(1 .. Rounds) /\ Len(r) = Len(q) - 1
        /\ \A i \in 1 .. Len(r) : r[i] = q[i + 1]
        /\ r # <<>> => Len(r) \in Nat \ {0}
        /\ r = <<>> => Len(r) = 0
    BY <1>1, HeadTailProperties, EmptySeq
  <1> HIDE DEF r
  <1>3. \A i \in 1 .. Len(r) - 1 : r[i + 1] = r[i] \/ r[i + 1] = r[i] + 1
    BY <1>1, <1>2, SMTT(30) DEF Flow
  <1>4. \A i \in 1 .. Len(r) : r[i] <= n
    BY <1>1, <1>2 DEF Flow
  <1>5. r # <<>> => r[Len(r)] = n
    BY <1>1, <1>2
  <1>6. Flow(r, n)
    BY <1>2, <1>3, <1>4, <1>5 DEF Flow
  <1>7. Awaited(r, n) <= q[1] + 1
    <2>1. CASE r = <<>>
      <3>1. Len(q) = 1
        BY <1>1, <1>2, <2>1
      <3>2. q[1] = n
        BY <1>1, <3>1
      <3> QED BY <2>1, <3>2 DEF Awaited
    <2>2. CASE r # <<>>
      <3>1. r[1] = q[2] /\ (q[1 + 1] = q[1] \/ q[1 + 1] = q[1] + 1)
        BY <1>1, <1>2, <2>2 DEF Flow
      <3> QED BY <1>1, <2>2, <3>1, RoundsFacts DEF Awaited
    <2> QED BY <2>1, <2>2
  <1> QED BY <1>1, <1>6, <1>7 DEF r

LEMMA FlowDouble ==
    ASSUME NEW q, NEW n \in Nat, Flow(q, n),
           NEW r \in Seq(1 .. Rounds), NEW k \in 1 .. Len(q), DoubledAt(r, q, k)
    PROVE  Flow(r, n) /\ Awaited(r, n) = Awaited(q, n)
  <1>1. /\ q \in Seq(1 .. Rounds) /\ Len(q) \in Nat \ {0} /\ q # <<>>
        /\ q[Len(q)] = n
    <2>1. q \in Seq(1 .. Rounds) /\ Len(q) \in Nat
      BY LenProperties DEF Flow
    <2>2. q # <<>> /\ Len(q) \in Nat \ {0}
      BY <2>1, EmptySeq
    <2> QED BY <2>1, <2>2 DEF Flow
  <1>2. /\ Len(r) = Len(q) + 1 /\ r # <<>>
        /\ \A i \in 1 .. Len(r) : r[i] = IF i <= k THEN q[i] ELSE q[i - 1]
    BY <1>1, EmptySeq DEF DoubledAt
  <1>3. ASSUME NEW i \in 1 .. Len(r) - 1
        PROVE  r[i + 1] = r[i] \/ r[i + 1] = r[i] + 1
    <2>1. CASE i < k
      BY <1>1, <1>2, <2>1, SMTT(30) DEF Flow
    <2>2. CASE i = k
      BY <1>1, <1>2, <2>2
    <2>3. CASE i > k
      <3>1. i - 1 \in 1 .. Len(q) - 1
        BY <1>1, <1>2, <2>3
      <3>2. q[(i - 1) + 1] = q[i - 1] \/ q[(i - 1) + 1] = q[i - 1] + 1
        BY <3>1 DEF Flow
      <3>3. r[i] = q[i - 1] /\ r[i + 1] = q[(i - 1) + 1]
        BY <1>1, <1>2, <2>3
      <3> QED BY <3>2, <3>3
    <2> QED BY <1>1, <1>2, <2>1, <2>2, <2>3
  <1>4. ASSUME NEW i \in 1 .. Len(r)
        PROVE  r[i] <= n
    <2>1. CASE i <= k
      BY <1>1, <1>2, <2>1 DEF Flow
    <2>2. CASE i > k
      BY <1>1, <1>2, <2>2 DEF Flow
    <2> QED BY <1>1, <1>2, <2>1, <2>2
  <1>5. r[Len(r)] = n
    BY <1>1, <1>2
  <1>6. r[1] = q[1]
    BY <1>1, <1>2
  <1> QED BY <1>1, <1>2, <1>3, <1>4, <1>5, <1>6 DEF Flow, Awaited

-----------------------------------------------------------------------------
(* The invariant.                                                          *)

RoundTrip == [reply : 0 .. Rounds, cycles : Durations]

Types ==
    /\ round \in 0 .. Rounds /\ (pc = "recv" => round # 0)
    /\ rounds \in Seq(RoundTrip)
    /\ to_pong \in Seq(1 .. Rounds) /\ to_ping \in Seq(1 .. Rounds)
    /\ echo \in 0 .. Rounds /\ (pong = "send" <=> echo # 0)

(* Every measured round that is over has its sample.                       *)
Over == IF pc = "recv" THEN round - 1 ELSE round
Tally == Len(rounds) = IF Over > Warmup THEN Over - Warmup ELSE 0

(* The reply to come is at most one round on from the last one kept.       *)
Follows == rounds # <<>> => Awaited(Line, round) <= rounds[Len(rounds)].reply + 1

Lags == \A j, k \in DOMAIN rounds : j <= k => 0 <= Lag(j) /\ Lag(j) <= Lag(k)

Awaiting == IF pc = "recv" THEN <<round>> ELSE <<>>
Exact == Line = Awaiting /\ \A k \in DOMAIN rounds : Lag(k) = 0

IInv ==
    /\ Types
    /\ Tally
    /\ refused => lost
    /\ ~lost => Flow(Line, round) /\ Follows /\ Lags
    /\ ~lost /\ ~doubled => Exact

LEMMA EchoFacts ==
    /\ echo \in 0 .. Rounds => Echo \in Seq(1 .. Rounds)
    /\ echo = 0 => Echo = <<>>
    /\ echo # 0 => Echo = <<echo>>
  <1>1. CASE echo = 0
    <2>1. <<>> \in Seq(1 .. Rounds)
      BY EmptySeq
    <2> QED BY <1>1, <2>1 DEF Echo
  <1>2. CASE echo # 0
    <2>1. Echo = <<echo>>
      BY <1>2 DEF Echo
    <2>2. echo \in 0 .. Rounds => echo \in 1 .. Rounds
      BY <1>2, RoundsFacts
    <2> QED BY <1>2, <2>1, <2>2
  <1> QED BY <1>1, <1>2

LEMMA InitIInv == Init => IInv
  <1> SUFFICES ASSUME Init PROVE IInv
    OBVIOUS
  <1>1. Types /\ Tally
    <2>1. <<>> \in Seq(RoundTrip) /\ <<>> \in Seq(1 .. Rounds) /\ Len(<<>>) = 0
      BY EmptySeq
    <2>2. 0 \in 0 .. Rounds
      BY RoundsFacts
    <2> QED BY <2>1, <2>2, RoundsFacts DEF Init, Types, Tally, Over
  <1>2. Line = <<>>
    <2>1. Echo = <<>> /\ to_ping = <<>> /\ to_pong = <<>>
      BY DEF Init, Echo
    <2>2. <<>> \in Seq(Nat)
      BY EmptySeq
    <2>3. (<<>> \o <<>>) \o <<>> = <<>>
      BY <2>2, ConcatEmptySeq
    <2> QED BY <2>1, <2>3 DEF Line, Joined
  <1>3. Flow(Line, round)
    BY <1>2, RoundsFacts DEF Flow, Init
  <1>4. Follows /\ Lags /\ Exact
    BY <1>2 DEF Init, Follows, Lags, Exact, Awaiting
  <1> QED BY <1>1, <1>3, <1>4 DEF IInv, Init

(* What neither touches the line nor ping's rounds keeps all of it.        *)
LEMMA Elsewhere ==
    ASSUME IInv, Types', Line' = Line, UNCHANGED <<round, rounds, doubled>>,
           pc' = "recv" <=> pc = "recv", lost => lost', refused' => lost'
    PROVE  IInv'
  <1>1. Rounds' = Rounds
    BY DEF Rounds
  <1>2. Tally'
    BY DEF IInv, Tally, Over
  <1>3. ~lost' => (Flow(Line, round))' /\ Follows' /\ Lags'
    <2> SUFFICES ASSUME ~lost'
                 PROVE  (Flow(Line, round))' /\ Follows' /\ Lags'
      OBVIOUS
    <2>1. Flow(Line, round) /\ Follows /\ Lags
      BY DEF IInv
    <2>2. (Flow(Line, round))'
      BY <1>1, <2>1 DEF Flow
    <2>3. Follows'
      BY <2>1 DEF Follows, Awaited
    <2>4. Lags'
      BY <2>1 DEF Lags, Lag
    <2> QED BY <2>2, <2>3, <2>4
  <1>4. ~lost' /\ ~doubled' => Exact'
    <2> SUFFICES ASSUME ~lost', ~doubled' PROVE Exact'
      OBVIOUS
    <2>1. Exact
      BY DEF IInv
    <2>2. Awaiting' = Awaiting
      BY DEF Awaiting
    <2> QED BY <2>1, <2>2 DEF Exact, Lag
  <1> QED BY <1>2, <1>3, <1>4 DEF IInv

(* Once a datagram is lost nothing more is claimed of the line.            *)
LEMMA Loss ==
    ASSUME Types', Tally', lost'
    PROVE  IInv'
  BY DEF IInv

-----------------------------------------------------------------------------
(* The steps of ping.                                                      *)

LEMMA SendStep ==
    ASSUME IInv, Send
    PROVE  IInv'
  <1>1. /\ pc = "send" /\ pc' = "recv" /\ round \in Nat /\ round < Rounds
        /\ round' = round + 1 /\ round + 1 \in 1 .. Rounds
        /\ UNCHANGED <<rounds, to_ping, echo, pong, doubled>>
    BY RoundsFacts DEF Send, IInv, Types, pongVars
  <1>2. Tally'
    BY <1>1, RoundsFacts DEF IInv, Tally, Over
  <1>3. CASE refused
    <2>1. refused' = FALSE /\ lost' = TRUE /\ to_pong' = to_pong
      BY <1>3 DEF Send
    <2>2. Types'
      BY <1>1, <2>1, RoundsFacts DEF IInv, Types, RoundTrip, Rounds
    <2> QED BY <1>2, <2>1, <2>2, Loss
  <1>4. CASE ~refused
    <2>1. to_pong' = Append(to_pong, round + 1) /\ UNCHANGED <<refused, lost>>
      BY <1>4 DEF Send
    <2>2. to_pong' \in Seq(1 .. Rounds)
      BY <1>1, <2>1, AppendProperties DEF IInv, Types
    <2>3. Types'
      <3>1. Rounds' = Rounds /\ RoundTrip' = RoundTrip
        BY DEF Rounds, RoundTrip
      <3>2. round' \in 0 .. Rounds /\ round' # 0
        BY <1>1, RoundsFacts
      <3> QED BY <1>1, <2>2, <3>1, <3>2 DEF IInv, Types
    <2>4. Line' = Append(Line, round + 1)
      <3>1. /\ to_ping \in Seq(1 .. Rounds) /\ to_pong \in Seq(1 .. Rounds)
            /\ Echo \in Seq(1 .. Rounds)
        BY EchoFacts DEF IInv, Types
      <3>2. Joined(to_ping, Echo, Append(to_pong, round + 1))
              = Append(Joined(to_ping, Echo, to_pong), round + 1)
        <4> DEFINE S == 1 .. Rounds
                   n == round + 1
        <4>1. /\ to_ping \in Seq(S) /\ Echo \in Seq(S) /\ to_pong \in Seq(S)
              /\ n \in S
          BY <1>1, <3>1
        <4> HIDE DEF S, n
        <4>2. Joined(to_ping, Echo, Append(to_pong, n))
                = Append(Joined(to_ping, Echo, to_pong), n)
          BY <4>1, JoinedSend
        <4> QED BY <4>2 DEF n
      <3>3. to_ping' = to_ping /\ Echo' = Echo
        BY <1>1 DEF Echo
      <3> QED BY <2>1, <3>2, <3>3 DEF Line
    <2>5. ~lost' => (Flow(Line, round))' /\ Follows' /\ Lags'
      <3> SUFFICES ASSUME ~lost'
                   PROVE  (Flow(Line, round))' /\ Follows' /\ Lags'
        OBVIOUS
      <3>1. Flow(Line, round) /\ Follows /\ Lags
        BY <2>1 DEF IInv
      <3>2. /\ Flow(Append(Line, round + 1), round + 1)
            /\ Awaited(Append(Line, round + 1), round + 1) = Awaited(Line, round)
        BY <1>1, <3>1, FlowSend
      <3>3. (Flow(Line, round))'
        BY <1>1, <2>4, <3>2 DEF Flow, Rounds
      <3>4. (Awaited(Line, round))' = Awaited(Line, round)
        BY <1>1, <2>4, <3>2 DEF Awaited
      <3>5. Follows'
        BY <1>1, <3>1, <3>4 DEF Follows
      <3>6. Lags'
        BY <1>1, <3>1 DEF Lags, Lag
      <3> QED BY <3>3, <3>5, <3>6
    <2>6. ~lost' /\ ~doubled' => Exact'
      <3> SUFFICES ASSUME ~lost', ~doubled' PROVE Exact'
        OBVIOUS
      <3>1. Exact
        BY <1>1, <2>1 DEF IInv
      <3>2. Line = <<>>
        BY <1>1, <3>1 DEF Exact, Awaiting
      <3>3. Line' = <<round + 1>>
        BY <2>4, <3>2
      <3>4. Awaiting' = <<round + 1>>
        BY <1>1 DEF Awaiting
      <3> QED BY <1>1, <3>1, <3>3, <3>4 DEF Exact, Lag
    <2>7. refused' => lost'
      BY <1>4, <2>1
    <2> QED BY <1>2, <2>3, <2>5, <2>6, <2>7 DEF IInv
  <1> QED BY <1>3, <1>4

(* A sample more in a measured round, with the reply that ended it.        *)
LEMMA RecordStep ==
    ASSUME IInv, pc = "recv", pc' = AfterRecv, round' = round,
           NEW reply \in 0 .. Rounds, Record(reply)
    PROVE  /\ rounds' \in Seq(RoundTrip)
           /\ Tally'
           /\ \/ ~Measures /\ rounds' = rounds
              \/ /\ Measures
                 /\ Len(rounds') = Len(rounds) + 1
                 /\ Warmup + Len(rounds') = round
                 /\ \A k \in DOMAIN rounds : rounds'[k] = rounds[k]
                 /\ rounds'[Len(rounds')].reply = reply
  <1>1. /\ rounds \in Seq(RoundTrip) /\ Len(rounds) \in Nat
        /\ DOMAIN rounds = 1 .. Len(rounds)
        /\ round \in Nat
        /\ Len(rounds) = IF round - 1 > Warmup THEN (round - 1) - Warmup ELSE 0
    BY LenProperties, RoundsFacts DEF IInv, Types, Tally, Over
  <1>2. Over' = round
    BY DEF Over, AfterRecv
  <1>3. CASE ~Measures
    <2>1. rounds' = rounds
      BY <1>3 DEF Record
    <2>2. ~(round > Warmup)
      BY <1>3 DEF Measures
    <2> QED BY <1>1, <1>2, <1>3, <2>1, <2>2, RoundsFacts DEF Tally
  <1>4. CASE Measures
    <2>1. PICK cycles \in Durations :
            rounds' = Append(rounds, [reply |-> reply, cycles |-> cycles])
      BY <1>4 DEF Record
    <2> DEFINE new == [reply |-> reply, cycles |-> cycles]
    <2>2. new \in RoundTrip /\ new.reply = reply
      BY DEF RoundTrip
    <2> HIDE DEF new
    <2>3. /\ rounds' \in Seq(RoundTrip) /\ Len(rounds') = Len(rounds) + 1
          /\ \A k \in 1 .. Len(rounds) : rounds'[k] = rounds[k]
          /\ rounds'[Len(rounds) + 1] = new
      BY <1>1, <2>1, <2>2, AppendProperties DEF new
    <2>4. round > Warmup
      BY <1>4 DEF Measures
    <2>5. Len(rounds') = round - Warmup
      BY <1>1, <2>3, <2>4, RoundsFacts
    <2>6. Tally'
      BY <1>2, <2>4, <2>5 DEF Tally
    <2>7. Warmup + Len(rounds') = round
      BY <1>1, <2>5, RoundsFacts
    <2> QED BY <1>1, <1>4, <2>2, <2>3, <2>6, <2>7
  <1> QED BY <1>3, <1>4

LEMMA RecvStep ==
    ASSUME IInv, Recv
    PROVE  IInv'
  <1>1. /\ pc = "recv" /\ pc' = AfterRecv /\ pc' # "recv" /\ round' = round
        /\ UNCHANGED <<echo, pong, to_pong, lost, doubled>>
        /\ Rounds' = Rounds /\ RoundTrip' = RoundTrip
    BY DEF Recv, AfterRecv, pongVars, faultVars, Rounds, RoundTrip
  <1>2. CASE refused
    <2>1. Record(0) /\ to_ping' = to_ping /\ lost
      BY <1>2 DEF Recv, IInv
    <2>2. 0 \in 0 .. Rounds
      BY RoundsFacts
    <2>3. rounds' \in Seq(RoundTrip) /\ Tally'
      BY <1>1, <2>1, <2>2, RecordStep
    <2>4. Types'
      BY <1>1, <2>1, <2>3 DEF IInv, Types
    <2> QED BY <1>1, <2>1, <2>3, <2>4, Loss
  <1>3. CASE ~refused
    <2>1. /\ to_ping # <<>> /\ to_ping' = Tail(to_ping) /\ Record(Head(to_ping))
          /\ refused' = refused
      BY <1>3 DEF Recv
    <2>2. /\ to_ping \in Seq(1 .. Rounds) /\ to_pong \in Seq(1 .. Rounds)
          /\ Echo \in Seq(1 .. Rounds)
      BY EchoFacts DEF IInv, Types
    <2>3. Head(to_ping) \in 1 .. Rounds /\ Tail(to_ping) \in Seq(1 .. Rounds)
      BY <2>1, <2>2, HeadTailProperties
    <2>4. Head(to_ping) \in 0 .. Rounds
      BY <2>3, RoundsFacts
    <2>5. /\ rounds' \in Seq(RoundTrip) /\ Tally'
          /\ \/ ~Measures /\ rounds' = rounds
             \/ /\ Measures
                /\ Len(rounds') = Len(rounds) + 1
                /\ Warmup + Len(rounds') = round
                /\ \A k \in DOMAIN rounds : rounds'[k] = rounds[k]
                /\ rounds'[Len(rounds')].reply = Head(to_ping)
      BY <1>1, <2>1, <2>4, RecordStep
    <2>6. Types'
      BY <1>1, <2>1, <2>3, <2>5 DEF IInv, Types
    <2>7. /\ Line # <<>> /\ Line[1] = Head(to_ping) /\ Line' = Tail(Line)
      <3> DEFINE S == 1 .. Rounds
      <3>1. to_ping \in Seq(S) /\ Echo \in Seq(S) /\ to_pong \in Seq(S)
        BY <2>2
      <3> HIDE DEF S
      <3>2. /\ Joined(to_ping, Echo, to_pong) # <<>>
            /\ Joined(to_ping, Echo, to_pong)[1] = Head(to_ping)
            /\ Joined(Tail(to_ping), Echo, to_pong)
                 = Tail(Joined(to_ping, Echo, to_pong))
        BY <2>1, <3>1, JoinedReceive
      <3>3. Echo' = Echo
        BY <1>1 DEF Echo
      <3> QED BY <1>1, <2>1, <3>2, <3>3 DEF Line
    <2>8. ~lost' => (Flow(Line, round))' /\ Follows' /\ Lags'
      <3> SUFFICES ASSUME ~lost'
                   PROVE  (Flow(Line, round))' /\ Follows' /\ Lags'
        OBVIOUS
      <3>1. Flow(Line, round) /\ Follows /\ Lags /\ round \in Nat
        BY <1>1, RoundsFacts DEF IInv, Types
      <3>2. /\ Flow(Tail(Line), round) /\ Head(to_ping) <= round
            /\ Awaited(Tail(Line), round) <= Head(to_ping) + 1
        BY <2>7, <3>1, FlowReceive
      <3>3. (Flow(Line, round))'
        BY <1>1, <2>7, <3>2 DEF Flow
      <3>4. (Awaited(Line, round))' <= Head(to_ping) + 1
        BY <1>1, <2>7, <3>2 DEF Awaited
      <3>5. CASE ~Measures /\ rounds' = rounds
        <4>1. Len(rounds) = 0
          BY <1>1, <3>1, <3>5, RoundsFacts DEF IInv, Tally, Over, Measures
        <4>2. rounds' = <<>>
          BY <3>5, <4>1, EmptySeq DEF IInv, Types
        <4> QED BY <3>3, <4>2 DEF Follows, Lags
      <3>6. CASE Measures /\ Len(rounds') = Len(rounds) + 1
        <4>1. PICK n \in Nat : n = Len(rounds)
          BY LenProperties DEF IInv, Types
        <4>2. /\ DOMAIN rounds = 1 .. n /\ DOMAIN rounds' = 1 .. n + 1
              /\ Len(rounds') = n + 1 /\ (Warmup + n) + 1 = round
              /\ \A k \in 1 .. n : rounds'[k] = rounds[k]
              /\ rounds'[n + 1].reply = Head(to_ping)
          <5>1. Len(rounds') = n + 1
            BY <3>6, <4>1
          <5>2. DOMAIN rounds = 1 .. n /\ DOMAIN rounds' = 1 .. n + 1
            BY <2>5, <4>1, <5>1, LenProperties DEF IInv, Types
          <5>3. /\ Warmup + Len(rounds') = round
                /\ \A k \in DOMAIN rounds : rounds'[k] = rounds[k]
                /\ rounds'[Len(rounds')].reply = Head(to_ping)
            BY <2>5, <3>6
          <5>4. (Warmup + n) + 1 = round
            BY <5>1, <5>3, RoundsFacts
          <5> QED BY <5>1, <5>2, <5>3, <5>4
        <4>3. \A k \in 1 .. n : Lag(k) \in Int /\ (Lag(k))' = Lag(k)
          <5> SUFFICES ASSUME NEW k \in 1 .. n
                       PROVE  Lag(k) \in Int /\ (Lag(k))' = Lag(k)
            OBVIOUS
          <5>1. rounds[k] \in RoundTrip
            BY <4>1, ElementOfSeq DEF IInv, Types
          <5>2. rounds[k].reply \in 0 .. Rounds
            BY <5>1 DEF RoundTrip
          <5> QED BY <4>2, <5>2, RoundsFacts DEF Lag
        <4>4. /\ (Lag(n + 1))' = round - Head(to_ping)
              /\ (Lag(n + 1))' \in Int /\ 0 <= (Lag(n + 1))'
          <5>1. (Lag(n + 1))' = Warmup + ((n + 1) - Head(to_ping))
            BY <4>2 DEF Lag
          <5> QED BY <2>3, <3>1, <3>2, <4>2, <5>1, RoundsFacts
        <4>5. n # 0 => Lag(n) <= (Lag(n + 1))'
          <5> SUFFICES ASSUME n # 0 PROVE Lag(n) <= (Lag(n + 1))'
            OBVIOUS
          <5>1. rounds # <<>>
            BY <4>1, EmptySeq
          <5>2. Awaited(Line, round) = Head(to_ping)
            BY <2>7 DEF Awaited
          <5>3. Head(to_ping) <= rounds[n].reply + 1
            BY <3>1, <4>1, <5>1, <5>2 DEF Follows
          <5>4. Lag(n) = Warmup + (n - rounds[n].reply)
            BY DEF Lag
          <5>5. rounds[n] \in RoundTrip
            BY <4>1, ElementOfSeq DEF IInv, Types
          <5>6. rounds[n].reply \in Nat
            BY <5>5, RoundsFacts DEF RoundTrip
          <5> QED BY <2>3, <4>2, <4>4, <5>3, <5>4, <5>6, RoundsFacts, SMTT(30)
        <4>6. ASSUME NEW k \in 1 .. n
              PROVE  0 <= Lag(k) /\ Lag(k) <= (Lag(n + 1))'
          <5>1. n \in 1 .. n /\ k <= n /\ n # 0
            BY <4>1
          <5>2. 0 <= Lag(k) /\ Lag(k) <= Lag(n)
            BY <3>1, <4>2, <5>1 DEF Lags
          <5> QED BY <4>3, <4>4, <4>5, <5>1, <5>2
        <4>7. Lags'
          <5> SUFFICES ASSUME NEW j \in 1 .. n + 1, NEW k \in 1 .. n + 1, j <= k
                       PROVE  0 <= (Lag(j))' /\ (Lag(j))' <= (Lag(k))'
            BY <4>2 DEF Lags
          <5>1. CASE j = n + 1
            <6>1. k = n + 1
              BY <5>1
            <6> QED BY <4>4, <5>1, <6>1
          <5>2. CASE k = n + 1 /\ j # n + 1
            <6>1. j \in 1 .. n
              BY <5>2
            <6> QED BY <4>3, <4>6, <5>2, <6>1
          <5>3. CASE k # n + 1
            <6>1. j \in 1 .. n /\ k \in 1 .. n
              BY <5>3
            <6> QED BY <3>1, <4>2, <4>3, <6>1 DEF Lags
          <5> QED BY <5>1, <5>2, <5>3
        <4>8. Follows'
          BY <3>4, <4>2 DEF Follows
        <4> QED BY <3>3, <4>7, <4>8
      <3> QED BY <2>5, <3>5, <3>6
    <2>9. ~lost' /\ ~doubled' => Exact'
      <3> SUFFICES ASSUME ~lost', ~doubled' PROVE Exact'
        OBVIOUS
      <3>1. Exact
        BY <1>1 DEF IInv
      <3>2. Line = <<round>>
        BY <1>1, <3>1 DEF Exact, Awaiting
      <3>3. Head(to_ping) = round
        BY <2>7, <3>2
      <3>4. Line' = <<>>
        BY <2>7, <3>2
      <3>5. Line' = Awaiting'
        BY <1>1, <3>4 DEF Awaiting
      <3>6. ASSUME NEW k \in DOMAIN rounds'
            PROVE  (Lag(k))' = 0
        <4>1. CASE ~Measures /\ rounds' = rounds
          BY <3>1, <4>1 DEF Exact, Lag
        <4>2. CASE Measures /\ Len(rounds') = Len(rounds) + 1
          <5>1. /\ Len(rounds) \in Nat /\ DOMAIN rounds = 1 .. Len(rounds)
                /\ DOMAIN rounds' = 1 .. Len(rounds) + 1
            BY <2>5, <4>2, LenProperties DEF IInv, Types
          <5>2. CASE k \in DOMAIN rounds
            BY <2>5, <3>1, <4>2, <5>2 DEF Exact, Lag
          <5>3. CASE k = Len(rounds')
            <6>1. (Lag(k))' = Warmup + (k - rounds'[k].reply)
              BY DEF Lag
            <6>2. /\ Warmup + k = round /\ round \in Nat
                  /\ rounds'[k].reply = Head(to_ping)
              BY <2>5, <4>2, <5>3, RoundsFacts DEF IInv, Types
            <6>3. k \in Nat
              BY <5>1
            <6> QED BY <3>3, <6>1, <6>2, <6>3, RoundsFacts
          <5> QED BY <4>2, <5>1, <5>2, <5>3
        <4> QED BY <2>5, <4>1, <4>2
      <3> QED BY <3>5, <3>6 DEF Exact
    <2> QED BY <1>3, <2>1, <2>5, <2>6, <2>8, <2>9 DEF IInv
  <1> QED BY <1>2, <1>3

-----------------------------------------------------------------------------
(* The steps of pong and of the network.                                   *)

LEMMA PongStep ==
    ASSUME IInv, Pong
    PROVE  IInv'
  <1>1. /\ UNCHANGED <<pc, round, rounds, refused, lost, doubled>>
        /\ Rounds' = Rounds /\ RoundTrip' = RoundTrip
    BY DEF Pong, PongRecv, PongSend, PongStart, pingVars, netVars, faultVars,
           Rounds, RoundTrip
  <1>2. /\ to_ping \in Seq(1 .. Rounds) /\ to_pong \in Seq(1 .. Rounds)
        /\ echo \in 0 .. Rounds /\ (pong = "send" <=> echo # 0)
    BY DEF IInv, Types
  <1>3. Types' /\ Line' = Line
    <2>1. CASE PongRecv
      <3>1. /\ to_pong # <<>> /\ to_pong' = Tail(to_pong) /\ to_ping' = to_ping
            /\ pong = "recv" /\ pong' = "send" /\ echo' = Head(to_pong)
        BY <2>1 DEF PongRecv
      <3>2. Head(to_pong) \in 1 .. Rounds /\ Tail(to_pong) \in Seq(1 .. Rounds)
        BY <1>2, <3>1, HeadTailProperties
      <3>3. echo' \in 0 .. Rounds /\ echo' # 0
        BY <3>1, <3>2, RoundsFacts
      <3>4. Types'
        BY <1>1, <1>2, <3>1, <3>2, <3>3 DEF IInv, Types
      <3>5. Echo = <<>> /\ Echo' = <<Head(to_pong)>>
        BY <1>2, <3>1, <3>3 DEF Echo
      <3> DEFINE S == 1 .. Rounds
      <3>6. to_ping \in Seq(S) /\ to_pong \in Seq(S)
        BY <1>2
      <3> HIDE DEF S
      <3>7. Joined(to_ping, <<Head(to_pong)>>, Tail(to_pong))
              = Joined(to_ping, <<>>, to_pong)
        BY <3>1, <3>6, JoinedTake
      <3> QED BY <3>1, <3>4, <3>5, <3>7 DEF Line
    <2>2. CASE PongSend
      <3>1. /\ to_ping' = Append(to_ping, echo) /\ to_pong' = to_pong
            /\ pong = "send" /\ pong' = "recv" /\ echo' = 0
        BY <2>2 DEF PongSend
      <3>2. echo \in 1 .. Rounds
        BY <1>2, <3>1, RoundsFacts
      <3>3. to_ping' \in Seq(1 .. Rounds) /\ 0 \in 0 .. Rounds
        BY <1>2, <3>1, <3>2, AppendProperties, RoundsFacts
      <3>4. Types'
        BY <1>1, <1>2, <3>1, <3>3 DEF IInv, Types
      <3>5. Echo = <<echo>> /\ Echo' = <<>>
        BY <1>2, <3>1 DEF Echo
      <3> DEFINE S == 1 .. Rounds
      <3>6. to_ping \in Seq(S) /\ to_pong \in Seq(S) /\ echo \in S
        BY <1>2, <3>2
      <3> HIDE DEF S
      <3>7. Joined(Append(to_ping, echo), <<>>, to_pong)
              = Joined(to_ping, <<echo>>, to_pong)
        BY <3>6, JoinedGive
      <3> QED BY <3>1, <3>4, <3>5, <3>7 DEF Line
    <2>3. CASE PongStart
      <3>1. /\ pong = "down" /\ pong' = "recv" /\ echo' = echo
            /\ to_ping' = to_ping /\ to_pong' = to_pong
        BY <2>3 DEF PongStart, netVars
      <3> QED BY <1>1, <1>2, <3>1 DEF IInv, Types, Line, Echo
    <2> QED BY <2>1, <2>2, <2>3 DEF Pong
  <1>4. refused' => lost'
    BY <1>1 DEF IInv
  <1> QED BY <1>1, <1>3, <1>4, Elsewhere

LEMMA PongStopStep ==
    ASSUME IInv, PongStop
    PROVE  IInv'
  <1>1. /\ UNCHANGED <<pc, round, rounds, to_ping, refused, doubled>>
        /\ pong' = "down" /\ echo' = 0 /\ to_pong' = <<>>
        /\ Rounds' = Rounds /\ RoundTrip' = RoundTrip
    BY DEF PongStop, pingVars, Rounds, RoundTrip
  <1>2. lost' = (lost \/ to_pong # <<>> \/ echo # 0)
    BY DEF PongStop
  <1>3. Types'
    <2>1. <<>> \in Seq(1 .. Rounds) /\ 0 \in 0 .. Rounds
      BY EmptySeq, RoundsFacts
    <2> QED BY <1>1, <2>1 DEF IInv, Types
  <1>4. CASE to_pong # <<>> \/ echo # 0
    <2>1. lost'
      BY <1>2, <1>4
    <2>2. Tally'
      BY <1>1 DEF IInv, Tally, Over
    <2> QED BY <1>3, <2>1, <2>2, Loss
  <1>5. CASE to_pong = <<>> /\ echo = 0
    <2>1. Line' = Line
      BY <1>1, <1>5 DEF Line, Echo
    <2>2. lost => lost'
      BY <1>2
    <2>3. refused' => lost'
      BY <1>1, <2>2 DEF IInv
    <2> QED BY <1>1, <1>3, <2>1, <2>2, <2>3, Elsewhere
  <1> QED BY <1>4, <1>5

LEMMA LossStep ==
    ASSUME IInv, Refuse \/ Lose
    PROVE  IInv'
  <1>1. /\ UNCHANGED <<pc, round, rounds, pong, echo, doubled>> /\ lost'
        /\ Rounds' = Rounds /\ RoundTrip' = RoundTrip
    BY DEF Refuse, Lose, pingVars, pongVars, Rounds, RoundTrip
  <1>2. Tally'
    BY <1>1 DEF IInv, Tally, Over
  <1>3. /\ to_pong' \in {to_pong, Tail(to_pong)} /\ to_ping' \in {to_ping, Tail(to_ping)}
        /\ to_pong' # to_pong => to_pong # <<>>
        /\ to_ping' # to_ping => to_ping # <<>>
    BY DEF Refuse, Lose
  <1>4. to_ping \in Seq(1 .. Rounds) /\ to_pong \in Seq(1 .. Rounds)
    BY DEF IInv, Types
  <1>5. to_pong' \in Seq(1 .. Rounds) /\ to_ping' \in Seq(1 .. Rounds)
    BY <1>3, <1>4, HeadTailProperties
  <1>6. Types'
    BY <1>1, <1>5 DEF IInv, Types
  <1> QED BY <1>1, <1>2, <1>6, Loss

LEMMA DoubleStep ==
    ASSUME IInv, Double
    PROVE  IInv'
  <1>1. /\ UNCHANGED <<pc, round, rounds, pong, echo, refused, lost>> /\ doubled'
        /\ Rounds' = Rounds /\ RoundTrip' = RoundTrip /\ Echo' = Echo
    BY DEF Double, pingVars, pongVars, Rounds, RoundTrip, Echo
  <1>2. Tally'
    BY <1>1 DEF IInv, Tally, Over
  <1> DEFINE S == 1 .. Rounds
  <1>3. to_ping \in Seq(S) /\ to_pong \in Seq(S) /\ Echo \in Seq(S)
    BY EchoFacts DEF IInv, Types
  <1> HIDE DEF S
  <1>4. /\ to_ping' \in Seq(S) /\ to_pong' \in Seq(S) /\ Line' \in Seq(S)
        /\ \E k \in 1 .. Len(Line) : DoubledAt(Line', Line, k)
    <2>1. CASE /\ to_pong # <<>> /\ to_ping' = to_ping
               /\ to_pong' = <<Head(to_pong)>> \o to_pong
      <3>1. Line' = Joined(to_ping, Echo, <<Head(to_pong)>> \o to_pong)
        BY <1>1, <2>1 DEF Line
      <3>2. /\ Joined(to_ping, Echo, <<Head(to_pong)>> \o to_pong) \in Seq(S)
            /\ \E k \in 1 .. Len(Line) :
                 DoubledAt(Joined(to_ping, Echo, <<Head(to_pong)>> \o to_pong), Line, k)
        BY <1>3, <2>1, JoinedDoubleThere DEF Line
      <3>3. Head(to_pong) \in S
        BY <1>3, <2>1, Uncons
      <3>4. <<Head(to_pong)>> \o to_pong \in Seq(S)
        BY <1>3, <3>3, ConsFacts
      <3> QED BY <1>3, <2>1, <3>1, <3>2, <3>4
    <2>2. CASE /\ to_ping # <<>> /\ to_pong' = to_pong
               /\ to_ping' = <<Head(to_ping)>> \o to_ping
      <3>1. Line' = Joined(<<Head(to_ping)>> \o to_ping, Echo, to_pong)
        BY <1>1, <2>2 DEF Line
      <3>2. /\ Joined(<<Head(to_ping)>> \o to_ping, Echo, to_pong) \in Seq(S)
            /\ \E k \in 1 .. Len(Line) :
                 DoubledAt(Joined(<<Head(to_ping)>> \o to_ping, Echo, to_pong), Line, k)
        BY <1>3, <2>2, JoinedDoubleBack DEF Line
      <3>3. Head(to_ping) \in S
        BY <1>3, <2>2, Uncons
      <3>4. <<Head(to_ping)>> \o to_ping \in Seq(S)
        BY <1>3, <3>3, ConsFacts
      <3> QED BY <1>3, <2>2, <3>1, <3>2, <3>4
    <2> QED BY <2>1, <2>2 DEF Double
  <1>5. Types'
    BY <1>1, <1>4 DEF IInv, Types, S
  <1>6. ~lost' => (Flow(Line, round))' /\ Follows' /\ Lags'
    <2> SUFFICES ASSUME ~lost'
                 PROVE  (Flow(Line, round))' /\ Follows' /\ Lags'
      OBVIOUS
    <2>1. Flow(Line, round) /\ Follows /\ Lags /\ round \in Nat
      BY <1>1, RoundsFacts DEF IInv, Types
    <2>2. PICK k \in 1 .. Len(Line) : DoubledAt(Line', Line, k)
      BY <1>4
    <2>3. Line' \in Seq(1 .. Rounds)
      BY <1>4 DEF S
    <2>4. Flow(Line', round) /\ Awaited(Line', round) = Awaited(Line, round)
      BY <2>1, <2>2, <2>3, FlowDouble
    <2>5. (Flow(Line, round))'
      BY <1>1, <2>4 DEF Flow
    <2>6. Follows'
      BY <1>1, <2>1, <2>4 DEF Follows, Awaited
    <2>7. Lags'
      BY <1>1, <2>1 DEF Lags, Lag
    <2> QED BY <2>5, <2>6, <2>7
  <1>7. refused' => lost'
    BY <1>1 DEF IInv
  <1> QED BY <1>1, <1>2, <1>5, <1>6, <1>7 DEF IInv

(* The invariant holds of every reachable state.                           *)
THEOREM Inductive == Spec => []IInv
  <1>1. IInv /\ [Next]_vars => IInv'
    <2> SUFFICES ASSUME IInv, [Next]_vars
                 PROVE  IInv'
      OBVIOUS
    <2>1. CASE Plot \/ Report
      <3>1. /\ UNCHANGED <<round, rounds, pongVars, netVars, faultVars>>
            /\ pc # "recv" /\ pc' # "recv"
        BY <2>1 DEF Plot, Report
      <3>2. Rounds' = Rounds /\ RoundTrip' = RoundTrip
        BY DEF Rounds, RoundTrip
      <3>3. Types' /\ Line' = Line
        BY <3>1, <3>2
        DEF IInv, Types, Line, Echo, pongVars, netVars
      <3>4. (lost => lost') /\ (refused' => lost') /\ doubled' = doubled
        BY <3>1 DEF IInv, faultVars, netVars
      <3> QED BY <3>1, <3>3, <3>4, Elsewhere
    <2>2. CASE UNCHANGED vars
      <3>1. /\ UNCHANGED <<pc, round, rounds, to_ping, to_pong, echo, pong,
                           refused, lost, doubled>>
            /\ Rounds' = Rounds /\ RoundTrip' = RoundTrip
        BY <2>2 DEF vars, pingVars, pongVars, netVars, faultVars, Rounds, RoundTrip
      <3>2. Types' /\ Line' = Line
        BY <3>1 DEF IInv, Types, Line, Echo
      <3>3. (lost => lost') /\ (refused' => lost')
        BY <3>1 DEF IInv
      <3> QED BY <3>1, <3>2, <3>3, Elsewhere
    <2> QED BY <2>1, <2>2, SendStep, RecvStep, PongStep, PongStopStep, LossStep,
               DoubleStep DEF Next, Ping, Network
  <1> QED BY <1>1, InitIInv, PTL DEF Spec

(* Sample k times the k-th measured round trip (ping.cpp:51-58) as long as *)
(* each datagram is answered once; after a doubled one the samples fall    *)
(* behind and never catch up.                                              *)
THEOREM OwnRoundTrips == Spec => []SamplesOwnRoundTrip
  <1>1. IInv => SamplesOwnRoundTrip
    BY DEF IInv, Exact, Lags, SamplesOwnRoundTrip
  <1> QED BY <1>1, Inductive, PTL

-----------------------------------------------------------------------------
(* Sorting.                                                                *)

(* Among finitely many numbers one is the greatest.                        *)
LEMMA Largest ==
    ASSUME NEW n \in Nat, NEW s \in [1 .. n + 1 -> Nat]
    PROVE  \E m \in 1 .. n + 1 : \A i \in 1 .. n + 1 : s[i] <= s[m]
  <1> DEFINE Has(k) == \A t \in [1 .. k + 1 -> Nat] :
                         \E m \in 1 .. k + 1 : \A i \in 1 .. k + 1 : t[i] <= t[m]
             P == {k \in Nat : Has(k)}
  <1>1. Has(0)
    <2> SUFFICES ASSUME NEW t \in [1 .. 0 + 1 -> Nat]
                 PROVE  \E m \in 1 .. 0 + 1 : \A i \in 1 .. 0 + 1 : t[i] <= t[m]
      OBVIOUS
    <2>1. 1 \in 1 .. 0 + 1 /\ \A i \in 1 .. 0 + 1 : i = 1
      OBVIOUS
    <2>2. t[1] \in Nat
      OBVIOUS
    <2>3. \A i \in 1 .. 0 + 1 : t[i] <= t[1]
      BY <2>1, <2>2
    <2> QED BY <2>1, <2>3
  <1>2. ASSUME NEW k \in Nat, Has(k) PROVE Has(k + 1)
    <2> SUFFICES ASSUME NEW t \in [1 .. (k + 1) + 1 -> Nat]
                 PROVE  \E m \in 1 .. (k + 1) + 1 :
                          \A i \in 1 .. (k + 1) + 1 : t[i] <= t[m]
      OBVIOUS
    <2> DEFINE u == [i \in 1 .. k + 1 |-> t[i]]  N == (k + 1) + 1
    <2>1. \A i \in 1 .. k + 1 : i \in 1 .. N
      OBVIOUS
    <2>2. u \in [1 .. k + 1 -> Nat]
      BY <2>1
    <2>3. PICK m \in 1 .. k + 1 : \A i \in 1 .. k + 1 : u[i] <= u[m]
      BY <1>2, <2>2
    <2>4. \A i \in 1 .. N : i \in 1 .. k + 1 \/ i = N
      OBVIOUS
    <2>5. \A i \in 1 .. N : t[i] \in Nat
      OBVIOUS
    <2>6. N \in 1 .. N /\ m \in 1 .. N
      BY <2>1
    <2>7. \A i \in 1 .. k + 1 : t[i] <= t[m]
      BY <2>3
    <2> HIDE DEF u, N
    <2>8. CASE t[N] <= t[m]
      <3>1. \A i \in 1 .. N : t[i] <= t[m]
        BY <2>4, <2>7, <2>8
      <3> QED BY <2>6, <3>1 DEF N
    <2>9. CASE ~(t[N] <= t[m])
      <3>1. \A i \in 1 .. N : t[i] <= t[N]
        <4> SUFFICES ASSUME NEW i \in 1 .. N PROVE t[i] <= t[N]
          OBVIOUS
        <4>1. t[i] \in Nat /\ t[N] \in Nat /\ t[m] \in Nat
          BY <2>5, <2>6
        <4>2. i \in 1 .. k + 1 => t[i] <= t[m]
          BY <2>7
        <4>3. CASE i = N
          BY <4>1, <4>3
        <4>4. CASE t[i] <= t[m]
          BY <2>9, <4>1, <4>4
        <4> QED BY <2>4, <4>2, <4>3, <4>4
      <3> QED BY <2>6, <3>1 DEF N
    <2> QED BY <2>8, <2>9
  <1> HIDE DEF Has
  <1>3. 0 \in P /\ \A k \in Nat : k \in P => k + 1 \in P
    BY <1>1, <1>2
  <1>4. n \in P
    BY <1>3, Naturals
  <1> QED BY <1>4 DEF Has

(* p puts the n numbers of s in order.                                     *)
Sorts(p, s, n) ==
    /\ p \in [1 .. n -> 1 .. n]
    /\ \A w \in 1 .. n : \E i \in 1 .. n : p[i] = w
    /\ \A i, j \in 1 .. n : p[i] = p[j] => i = j
    /\ \A i, j \in 1 .. n : i < j => s[p[i]] <= s[p[j]]

(* The greatest goes last, the last takes its place, the rest is sorted.   *)
LEMMA SortOneMore ==
    ASSUME NEW n \in Nat, NEW s \in [1 .. n + 1 -> Nat],
           \A t \in [1 .. n -> Nat] : \E p : Sorts(p, t, n)
    PROVE  \E p : Sorts(p, s, n + 1)
  <1> DEFINE N == n + 1
  <1>1. PICK m \in 1 .. N : \A i \in 1 .. N : s[i] <= s[m]
    BY Largest
  <1> DEFINE t == [i \in 1 .. n |-> IF i = m THEN s[N] ELSE s[i]]
  <1>2. /\ \A i \in 1 .. n : i \in 1 .. N /\ i # N
        /\ \A i \in 1 .. N : i \in 1 .. n \/ i = N
        /\ N \in 1 .. N
        /\ \A i \in 1 .. n : i < N
        /\ \A i, j \in 1 .. N : i < j => i \in 1 .. n
    OBVIOUS
  <1> HIDE DEF N
  <1>3. t \in [1 .. n -> Nat]
    BY <1>2 DEF N
  <1>4. PICK q : Sorts(q, t, n)
    BY <1>3
  <1> DEFINE p == [i \in 1 .. N |-> IF i = N THEN m ELSE IF q[i] = m THEN N ELSE q[i]]
  <1>5. /\ q \in [1 .. n -> 1 .. n]
        /\ \A w \in 1 .. n : \E i \in 1 .. n : q[i] = w
        /\ \A i, j \in 1 .. n : q[i] = q[j] => i = j
        /\ \A i, j \in 1 .. n : i < j => t[q[i]] <= t[q[j]]
    BY <1>4 DEF Sorts
  <1>6. p \in [1 .. N -> 1 .. N]
    <2> SUFFICES ASSUME NEW i \in 1 .. N
                 PROVE  (IF i = N THEN m ELSE IF q[i] = m THEN N ELSE q[i]) \in 1 .. N
      OBVIOUS
    <2>1. i # N => q[i] \in 1 .. n
      BY <1>2, <1>5
    <2> QED BY <1>2, <2>1
  <1>7. \A i \in 1 .. n : p[i] = IF q[i] = m THEN N ELSE q[i]
    BY <1>2
  <1>8. p[N] = m
    BY <1>2
  <1> HIDE DEF p
  <1>9. \A i \in 1 .. n : q[i] \in 1 .. n /\ s[p[i]] = t[q[i]] /\ p[i] # m
    <2> SUFFICES ASSUME NEW i \in 1 .. n
                 PROVE  q[i] \in 1 .. n /\ s[p[i]] = t[q[i]] /\ p[i] # m
      OBVIOUS
    <2>1. q[i] \in 1 .. n /\ q[i] # N
      BY <1>2, <1>5
    <2>2. CASE q[i] = m
      BY <1>7, <2>1, <2>2
    <2>3. CASE q[i] # m
      BY <1>7, <2>1, <2>3
    <2> QED BY <2>2, <2>3
  <1>10. \A w \in 1 .. N : \E i \in 1 .. N : p[i] = w
    <2> SUFFICES ASSUME NEW w \in 1 .. N PROVE \E i \in 1 .. N : p[i] = w
      OBVIOUS
    <2>1. CASE w = m
      BY <1>2, <1>8, <2>1
    <2>2. CASE w # m /\ w = N
      <3>1. m \in 1 .. n
        BY <1>2, <2>2
      <3>2. PICK i \in 1 .. n : q[i] = m
        BY <1>5, <3>1
      <3>3. p[i] = N /\ i \in 1 .. N
        BY <1>2, <1>7, <3>2
      <3> QED BY <2>2, <3>3
    <2>3. CASE w # m /\ w # N
      <3>1. PICK i \in 1 .. n : q[i] = w
        BY <1>2, <1>5, <2>3
      <3>2. p[i] = w /\ i \in 1 .. N
        BY <1>2, <1>7, <2>3, <3>1
      <3> QED BY <3>2
    <2> QED BY <2>1, <2>2, <2>3
  <1>11. ASSUME NEW i \in 1 .. N, NEW j \in 1 .. N, p[i] = p[j] PROVE i = j
    <2>1. CASE i = N \/ j = N
      BY <1>2, <1>8, <1>9, <1>11, <2>1
    <2>2. CASE i # N /\ j # N
      <3>1. i \in 1 .. n /\ j \in 1 .. n
        BY <1>2, <2>2
      <3>2. q[i] # N /\ q[j] # N
        BY <1>2, <1>9, <3>1
      <3>3. q[i] = q[j]
        BY <1>7, <1>11, <3>1, <3>2
      <3> QED BY <1>5, <3>1, <3>3
    <2> QED BY <2>1, <2>2
  <1>12. ASSUME NEW i \in 1 .. N, NEW j \in 1 .. N, i < j PROVE s[p[i]] <= s[p[j]]
    <2>1. CASE j = N
      BY <1>1, <1>6, <1>8, <2>1
    <2>2. CASE j # N
      <3>1. i \in 1 .. n /\ j \in 1 .. n
        BY <1>2, <1>12, <2>2
      <3>2. t[q[i]] <= t[q[j]]
        BY <1>5, <1>12, <3>1
      <3> QED BY <1>9, <3>1, <3>2
    <2> QED BY <2>1, <2>2
  <1> QED BY <1>6, <1>10, <1>11, <1>12, Zenon DEF Sorts, N

LEMMA SortExists ==
    ASSUME NEW n \in Nat, NEW s \in [1 .. n -> Nat]
    PROVE  \E p : Sorts(p, s, n)
  <1> DEFINE Can(k) == \A t \in [1 .. k -> Nat] : \E p : Sorts(p, t, k)
             P == {k \in Nat : Can(k)}
  <1>1. 0 \in P
    <2> SUFFICES ASSUME NEW t \in [1 .. 0 -> Nat] PROVE \E p : Sorts(p, t, 0)
      OBVIOUS
    <2> DEFINE p == [i \in 1 .. 0 |-> i]
    <2>1. 1 .. 0 = {}
      OBVIOUS
    <2>2. Sorts(p, t, 0)
      BY <2>1 DEF Sorts
    <2> QED BY <2>2
  <1>2. ASSUME NEW k \in Nat, k \in P PROVE k + 1 \in P
    <2>1. Can(k)
      BY <1>2
    <2>2. Can(k + 1)
      BY <2>1, SortOneMore
    <2> QED BY <2>2
  <1> HIDE DEF P
  <1>3. n \in P
    BY <1>1, <1>2, Naturals
  <1> QED BY <1>3 DEF P

(* What stats_compute leaves: the same samples, none less than the last.   *)
LEMMA SortedFacts ==
    ASSUME NEW D \in SUBSET Nat, NEW s \in Seq(D)
    PROVE  /\ Sorted(s) \in Seq(D) /\ Len(Sorted(s)) = Len(s)
           /\ \E p : /\ Sorts(p, s, Len(s))
                     /\ \A i \in 1 .. Len(s) : Sorted(s)[i] = s[p[i]]
  <1> DEFINE n == Len(s)
             N == 1 .. n
             orders == {[i \in N |-> s[p[i]]] : p \in Bijection(N, N)}
             t == CHOOSE t \in orders : \A i, j \in N : i < j => t[i] <= t[j]
  <1>1. n \in Nat /\ DOMAIN s = N /\ \A i \in N : s[i] \in D
    OBVIOUS
  <1>2. s \in [N -> Nat]
    <2>1. s = [i \in N |-> s[i]]
      OBVIOUS
    <2> QED BY <1>1, <2>1
  <1>3. Sorted(s) = t
    BY <1>1 DEF Sorted
  <1> HIDE DEF n
  <1>4. PICK q : Sorts(q, s, n)
    BY <1>1, <1>2, SortExists
  <1>5. [i \in N |-> s[q[i]]] \in orders
    <2>1. q \in Bijection(N, N)
      BY <1>4 DEF Sorts, Bijection, Injection, Surjection, IsInjective
    <2> QED BY <2>1
  <1>6. \A i, j \in N : i < j => [k \in N |-> s[q[k]]][i] <= [k \in N |-> s[q[k]]][j]
    BY <1>4 DEF Sorts
  <1>7. t \in orders /\ \A i, j \in N : i < j => t[i] <= t[j]
    <2> HIDE DEF orders
    <2> QED BY <1>5, <1>6, Zenon
  <1> HIDE DEF t
  <1>8. PICK p \in Bijection(N, N) : t = [i \in N |-> s[p[i]]]
    BY <1>7
  <1>9. p \in [N -> N]
    BY <1>8 DEF Bijection, Injection
  <1>10. \A i \in N : t[i] = s[p[i]] /\ p[i] \in N
    BY <1>8, <1>9
  <1>11. Sorts(p, s, n)
    <2>1. /\ \A w \in N : \E i \in N : p[i] = w
          /\ \A i, j \in N : p[i] = p[j] => i = j
      BY <1>8 DEF Bijection, Injection, Surjection, IsInjective
    <2>2. \A i, j \in N : i < j => s[p[i]] <= s[p[j]]
      BY <1>7, <1>10
    <2> QED BY <1>9, <2>1, <2>2 DEF Sorts
  <1>12. t \in Seq(D) /\ Len(t) = n
    BY <1>1, <1>8, <1>9
  <1> QED BY <1>3, <1>10, <1>11, <1>12 DEF n

LEMMA SortedRises ==
    ASSUME NEW s \in Seq(Nat), NEW i \in 1 .. Len(s), NEW j \in 1 .. Len(s), i <= j
    PROVE  /\ Sorted(s)[i] \in Nat /\ Sorted(s)[j] \in Nat
           /\ Sorted(s)[i] <= Sorted(s)[j]
  <1>1. PICK p : /\ Sorts(p, s, Len(s))
                 /\ \A h \in 1 .. Len(s) : Sorted(s)[h] = s[p[h]]
    BY SortedFacts
  <1>2. \A h \in 1 .. Len(s) : p[h] \in 1 .. Len(s)
    BY <1>1 DEF Sorts
  <1>3. \A h \in 1 .. Len(s) : s[h] \in Nat
    BY ElementOfSeq
  <1>4. s[p[i]] \in Nat /\ s[p[j]] \in Nat
    BY <1>2, <1>3
  <1>5. i < j \/ i = j
    OBVIOUS
  <1>6. \A a, b \in 1 .. Len(s) : a < b => s[p[a]] <= s[p[b]]
    BY <1>1 DEF Sorts
  <1>7. s[p[i]] <= s[p[j]]
    BY <1>4, <1>5, <1>6
  <1> QED BY <1>1, <1>4, <1>7

-----------------------------------------------------------------------------
(* The percentiles.                                                        *)

(* There are no more values than arguments.                                *)
LEMMA ImageBound ==
    ASSUME NEW I, IsFiniteSet(I), NEW p, NEW K, \A k \in K : \E i \in I : p[i] = k
    PROVE  IsFiniteSet(K) /\ Cardinality(K) <= Cardinality(I)
                          /\ Cardinality(K) \in Nat /\ Cardinality(I) \in Nat
  <1> DEFINE T == {p[i] : i \in I}  f == [i \in I |-> p[i]]
  <1>1. f \in Surjection(I, T)
    BY DEF Surjection
  <1>2. IsFiniteSet(T) /\ Cardinality(T) <= Cardinality(I)
    BY <1>1, FS_Surjection
  <1>3. K \in SUBSET T
    OBVIOUS
  <1> HIDE DEF T
  <1>4. IsFiniteSet(K) /\ Cardinality(K) <= Cardinality(T)
    BY <1>2, <1>3, FS_Subset
  <1>5. Cardinality(K) \in Nat /\ Cardinality(T) \in Nat /\ Cardinality(I) \in Nat
    BY <1>2, <1>4, FS_CardinalityType
  <1> QED BY <1>2, <1>4, <1>5

LEMMA TimesRises ==
    ASSUME NEW d \in Nat, NEW a \in Nat, NEW b \in Nat, a >= b
    PROVE  a * d >= b * d
  <1>1. a - b \in Nat /\ a * d = b * d + (a - b) * d
    OBVIOUS
  <1>2. (a - b) * d \in Nat /\ b * d \in Nat
    BY <1>1
  <1> QED BY <1>1, <1>2

(* What is between x and y, rest of d parts of the way, and what that says *)
(* of a number on either side of it.                                       *)
LEMMA Interpolate ==
    ASSUME NEW x \in Nat, NEW y \in Nat, x <= y,
           NEW d \in Nat \ {0}, NEW rest \in 0 .. d - 1
    PROVE  LET v == x * (d - rest) + y * rest IN
           /\ x * d <= v /\ v <= y * d
           /\ rest = 0 => v = x * d
           /\ \A a \in Nat : (a * d < v => a < y) /\ (a * d > v => a > x)
  <1> DEFINE v == x * (d - rest) + y * rest
             up == (y - x) * rest  down == (y - x) * (d - rest)
  <1>1. y - x \in Nat /\ d - rest \in Nat /\ rest \in Nat
    OBVIOUS
  <1>2. up \in Nat /\ down \in Nat
    BY <1>1
  <1>3. v = x * d + up /\ y * d = v + down
    OBVIOUS
  <1>4. x * d \in Nat /\ y * d \in Nat
    OBVIOUS
  <1>5. rest = 0 => up = 0
    BY <1>1
  <1> HIDE DEF v, up, down
  <1>6. x * d <= v /\ v <= y * d /\ (rest = 0 => v = x * d) /\ v \in Nat
    BY <1>2, <1>3, <1>4, <1>5
  <1>7. \A a, b \in Nat : a >= b => a * d >= b * d
    BY TimesRises
  <1>8. ASSUME NEW a \in Nat PROVE (a * d < v => a < y) /\ (a * d > v => a > x)
    <2>1. a * d \in Nat
      OBVIOUS
    <2> QED BY <1>4, <1>6, <1>7, <2>1
  <1> QED BY <1>6, <1>8 DEF v

(* Every percentile is a fraction of at most one.                          *)
LEMMA PercentileType ==
    ASSUME NEW p \in Percentiles
    PROVE  p[1] \in Nat \ {0} /\ p[2] \in Nat \ {0} /\ p[1] < p[2]
  BY DEF Percentiles

(* Where _pct looks: lo gaps are passed, rest of the next one too.         *)
LEMMA Position ==
    ASSUME NEW gaps \in Nat, NEW m \in Nat \ {0}, NEW d \in Nat \ {0}, m < d
    PROVE  LET idx == m * gaps  lo == idx \div d  rest == idx % d IN
           /\ idx \in Nat /\ lo \in 0 .. gaps /\ rest \in 0 .. d - 1
           /\ idx = d * lo + rest
           /\ lo = gaps => rest = 0
           /\ (d - m) * gaps = d * gaps - idx
  <1> DEFINE idx == m * gaps  lo == idx \div d  rest == idx % d
  <1>1. idx \in Nat /\ (d - m) * gaps = d * gaps - idx /\ (d - m) * gaps \in Nat
    <2>1. idx \in Nat /\ d - m \in Nat
      OBVIOUS
    <2>2. (d - m) * gaps \in Nat
      BY <2>1
    <2> QED BY <2>1, <2>2
  <1> HIDE DEF idx
  <1>2. lo \in Nat /\ rest \in 0 .. d - 1 /\ idx = d * lo + rest
    BY <1>1
  <1> HIDE DEF lo, rest
  <1>3. d * gaps \in Nat /\ idx <= d * gaps
    BY <1>1
  <1>4. lo <= gaps /\ (lo = gaps => rest = 0)
    <2>1. CASE lo = gaps
      BY <1>1, <1>2, <1>3, <2>1
    <2>2. CASE lo > gaps
      <3>1. lo - (gaps + 1) \in Nat
        BY <1>2, <2>2
      <3>2. d * lo = d * (gaps + 1) + d * (lo - (gaps + 1)) /\ d * (lo - (gaps + 1)) \in Nat
        BY <1>2, <3>1
      <3>3. d * (gaps + 1) = d * gaps + d
        OBVIOUS
      <3> QED BY <1>1, <1>2, <1>3, <3>2, <3>3
    <2>3. lo < gaps \/ lo = gaps \/ lo > gaps
      BY <1>2
    <2>4. lo < gaps => lo <= gaps /\ lo # gaps
      BY <1>2
    <2> QED BY <2>1, <2>2, <2>3, <2>4
  <1> QED BY <1>1, <1>2, <1>4 DEF idx, lo, rest

(* A percentile lies between the least and the greatest sample, with no    *)
(* more samples below it, nor above it, than there are gaps.               *)
LEMMA PctFacts ==
    ASSUME NEW s \in Seq(Nat), s # <<>>, NEW p \in Percentiles
    PROVE  LET t == Sorted(s)  v == Pct(t, p)  n == Len(s)  gaps == n - 1 IN
           /\ t[1] * v[2] <= v[1] /\ v[1] <= t[n] * v[2]
           /\ Cardinality({k \in 1 .. n : s[k] * v[2] < v[1]}) * p[2]
                < p[1] * gaps + p[2]
           /\ Cardinality({k \in 1 .. n : s[k] * v[2] > v[1]}) * p[2]
                < (p[2] - p[1]) * gaps + p[2]
  <1> DEFINE t == Sorted(s)  n == Len(s)  gaps == n - 1  d == p[2]
             idx == p[1] * gaps  lo == idx \div d  rest == idx % d
             hi == IF lo + 1 < n THEN lo + 1 ELSE lo
             x == t[lo + 1]  y == t[hi + 1]
             V == x * (d - rest) + y * rest
  <1>1. n \in Nat \ {0} /\ gaps \in Nat /\ n = gaps + 1 /\ Len(t) = n
    BY EmptySeq, SortedFacts
  <1>2. d \in Nat \ {0} /\ p[1] \in Nat \ {0} /\ p[1] < d
    BY PercentileType
  <1>3. Pct(t, p) = <<V, d>>
    BY <1>1 DEF Pct
  <1>4. PICK q : Sorts(q, s, n) /\ \A i \in 1 .. n : t[i] = s[q[i]]
    BY SortedFacts
  <1>5. \A i, j \in 1 .. n : i <= j => t[i] \in Nat /\ t[j] \in Nat /\ t[i] <= t[j]
    BY SortedRises
  <1> HIDE DEF t, n, gaps, d
  <1>6. /\ idx \in Nat /\ lo \in 0 .. gaps /\ rest \in 0 .. d - 1
        /\ idx = d * lo + rest
        /\ lo = gaps => rest = 0
        /\ (d - p[1]) * gaps = d * gaps - idx
    BY <1>1, <1>2, Position
  <1> HIDE DEF idx, lo, rest
  <1>7. /\ lo + 1 \in 1 .. n /\ hi + 1 \in 1 .. n /\ lo + 1 <= hi + 1
        /\ rest # 0 => hi = lo + 1
    BY <1>1, <1>6
  <1> HIDE DEF hi
  <1>8. 1 \in 1 .. n /\ n \in 1 .. n /\ 1 <= lo + 1 /\ hi + 1 <= n
    BY <1>1, <1>7
  <1>9. /\ x \in Nat /\ y \in Nat /\ x <= y
        /\ t[1] \in Nat /\ t[n] \in Nat /\ t[1] <= x /\ y <= t[n]
    BY <1>5, <1>7, <1>8
  <1>10. /\ x * d <= V /\ V <= y * d
         /\ rest = 0 => V = x * d
         /\ \A a \in Nat : (a * d < V => a < y) /\ (a * d > V => a > x)
    BY <1>2, <1>6, <1>9, Interpolate
  <1>11. V \in Nat
    <2>1. d - rest \in Nat /\ rest \in Nat
      BY <1>2, <1>6
    <2>2. x * (d - rest) \in Nat /\ y * rest \in Nat
      BY <1>9, <2>1
    <2> QED BY <2>2
  <1> HIDE DEF V, x, y
  <1>12. t[1] * d <= V /\ V <= t[n] * d
    <2>1. x * d >= t[1] * d /\ t[n] * d >= y * d
      BY <1>2, <1>9, TimesRises
    <2>2. \A a \in Nat : a * d \in Nat
      BY <1>2
    <2>3. x * d \in Nat /\ y * d \in Nat /\ t[1] * d \in Nat /\ t[n] * d \in Nat
      BY <1>9, <2>2
    <2> QED BY <1>10, <1>11, <2>1, <2>3
  <1>13. ASSUME NEW k \in 1 .. n
         PROVE  s[k] \in Nat /\ \E i \in 1 .. n : q[i] = k /\ t[i] = s[k]
    <2>1. PICK i \in 1 .. n : q[i] = k
      BY <1>4 DEF Sorts
    <2>2. t[i] = s[k] /\ t[i] \in Nat
      BY <1>1, <1>4, <1>5, <2>1
    <2> QED BY <2>1, <2>2
  <1> DEFINE below == {k \in 1 .. n : s[k] * d < V}
             above == {k \in 1 .. n : s[k] * d > V}
             ceil == IF rest = 0 THEN lo ELSE lo + 1
             after == gaps - lo
  <1>14. Cardinality(below) * d < idx + d
    <2>1. ceil \in Nat
      BY <1>6
    <2>2. ASSUME NEW k \in below PROVE \E i \in 1 .. ceil : q[i] = k
      <3>1. PICK i \in 1 .. n : q[i] = k /\ t[i] = s[k] /\ s[k] \in Nat
        BY <1>13
      <3>2. s[k] * d < V
        OBVIOUS
      <3>3. CASE rest = 0
        <4>1. ~(s[k] >= x)
          <5>1. s[k] >= x => s[k] * d >= x * d
            BY <1>2, <1>9, <3>1, TimesRises
          <5>2. s[k] * d \in Nat /\ x * d \in Nat
            BY <1>2, <1>9, <3>1, SMTT(30)
          <5> QED BY <1>10, <3>2, <3>3, <5>1, <5>2
        <4>2. ~(lo + 1 <= i)
          BY <1>5, <1>7, <1>9, <3>1, <4>1 DEF x
        <4>3. i \in 1 .. lo
          BY <1>6, <4>2
        <4> QED BY <3>1, <3>3, <4>3
      <3>4. CASE rest # 0
        <4>1. s[k] < y
          BY <1>10, <3>1, <3>2
        <4>2. ~(hi + 1 <= i)
          BY <1>5, <1>7, <1>9, <3>1, <4>1 DEF y
        <4>3. i \in 1 .. lo + 1
          BY <1>6, <1>7, <3>4, <4>2
        <4> QED BY <3>1, <3>4, <4>3
      <3> QED BY <3>3, <3>4
    <2>3. IsFiniteSet(1 .. ceil) /\ Cardinality(1 .. ceil) = ceil
      <3> HIDE DEF ceil
      <3>1. 1 \in Int /\ ceil \in Int /\ (1 > ceil => ceil = 0) /\ ceil - 1 + 1 = ceil
        BY <2>1
      <3> QED BY <3>1, FS_Interval
    <2>4. ceil * d < idx + d
      BY <1>2, <1>6
    <2> HIDE DEF ceil, below
    <2>5. Cardinality(below) <= ceil /\ Cardinality(below) \in Nat
      BY <2>2, <2>3, ImageBound
    <2>6. ceil * d >= Cardinality(below) * d
      BY <1>2, <2>1, <2>5, TimesRises
    <2>7. ceil * d \in Nat /\ Cardinality(below) * d \in Nat
      BY <1>2, <2>1, <2>5
    <2> QED BY <1>2, <1>6, <2>4, <2>6, <2>7
  <1>15. Cardinality(above) * d < (d - p[1]) * gaps + d
    <2>1. after \in Nat
      BY <1>1, <1>6
    <2>2. ASSUME NEW k \in above PROVE \E i \in lo + 2 .. n : q[i] = k
      <3>1. PICK i \in 1 .. n : q[i] = k /\ t[i] = s[k] /\ s[k] \in Nat
        BY <1>13
      <3>2. s[k] > x
        BY <1>10, <3>1
      <3>3. ~(i <= lo + 1)
        BY <1>5, <1>7, <1>9, <3>1, <3>2 DEF x
      <3>4. i \in lo + 2 .. n
        BY <1>1, <1>6, <3>3
      <3> QED BY <3>1, <3>4
    <2>3. IsFiniteSet(lo + 2 .. n) /\ Cardinality(lo + 2 .. n) = after
      <3>1. lo + 2 \in Int /\ n \in Int /\ (lo + 2 > n => after = 0)
            /\ n - (lo + 2) + 1 = after
        BY <1>1, <1>6
      <3> QED BY <3>1, FS_Interval
    <2>4. after * d < (d - p[1]) * gaps + d
      <3>1. after * d = d * gaps - d * lo
        BY <1>1, <1>2, <1>6
      <3>2. d * gaps \in Nat /\ d * lo \in Nat
        BY <1>1, <1>2, <1>6
      <3> QED BY <1>2, <1>6, <3>1, <3>2
    <2>5. (d - p[1]) * gaps \in Nat
      BY <1>1, <1>2
    <2> HIDE DEF after, above
    <2>6. Cardinality(above) <= after /\ Cardinality(above) \in Nat
      <3> DEFINE I == lo + 2 .. n
      <3>1. /\ IsFiniteSet(I) /\ Cardinality(I) = after
            /\ \A k \in above : \E i \in I : q[i] = k
        BY <2>2, <2>3
      <3> HIDE DEF I
      <3> QED BY <3>1, ImageBound
    <2>7. after * d >= Cardinality(above) * d
      BY <1>2, <2>1, <2>6, TimesRises
    <2>8. after * d \in Nat /\ Cardinality(above) * d \in Nat
      BY <1>2, <2>1, <2>6
    <2> QED BY <1>2, <2>4, <2>5, <2>7, <2>8
  <1> QED BY <1>3, <1>12, <1>14, <1>15 DEF t, n, gaps, d, idx

(* What is at least n times lo, and at most n times hi, over n.            *)
LEMMA Quotients ==
    ASSUME NEW n \in Nat \ {0}, NEW lo \in Nat, NEW hi \in Nat, NEW a \in Nat,
           n * lo <= a, a <= n * hi
    PROVE  lo <= a \div n /\ a \div n <= hi
  <1> DEFINE q == a \div n
  <1>1. q \in Nat /\ n * q <= a /\ a < n * q + n
    OBVIOUS
  <1> HIDE DEF q
  <1>2. n * q \in Nat /\ n * lo \in Nat /\ n * hi \in Nat /\ (q + 1) * n = n * q + n
        /\ lo * n = n * lo /\ hi * n = n * hi /\ q * n = n * q
    BY <1>1
  <1>3. ~(lo >= q + 1)
    <2>1. lo >= q + 1 => lo * n >= (q + 1) * n
      BY <1>1, TimesRises
    <2> QED BY <1>1, <1>2, <2>1
  <1>4. ~(q >= hi + 1)
    <2>1. q >= hi + 1 => q * n >= (hi + 1) * n
      BY <1>1, TimesRises
    <2>2. (hi + 1) * n = n * hi + n
      OBVIOUS
    <2> QED BY <1>1, <1>2, <2>1, <2>2
  <1> QED BY <1>1, <1>3, <1>4 DEF q

(* The mean lies between them too.                                         *)
LEMMA MeanFacts ==
    ASSUME NEW s \in Seq(Nat), s # <<>>
    PROVE  Sorted(s)[1] <= Mean(s) /\ Mean(s) <= Sorted(s)[Len(s)]
  <1> DEFINE t == Sorted(s)  n == Len(s)  lo == t[1]  hi == t[n]
  <1>1. n \in Nat \ {0} /\ 1 \in 1 .. n /\ n \in 1 .. n
    BY EmptySeq
  <1>2. PICK q : Sorts(q, s, n) /\ \A i \in 1 .. n : t[i] = s[q[i]]
    BY SortedFacts
  <1>3. \A i, j \in 1 .. n : i <= j => t[i] \in Nat /\ t[j] \in Nat /\ t[i] <= t[j]
    BY SortedRises
  <1> HIDE DEF t
  <1>4. lo \in Nat /\ hi \in Nat
    BY <1>1, <1>3
  <1>5. ASSUME NEW k \in 1 .. n PROVE s[k] \in Int /\ lo <= s[k] /\ s[k] <= hi
    <2>1. PICK i \in 1 .. n : q[i] = k
      BY <1>2 DEF Sorts
    <2>2. 1 <= i /\ i <= n
      BY <1>1
    <2> QED BY <1>1, <1>2, <1>3, <2>1, <2>2
  <1>6. IsFiniteSet(1 .. n) /\ Cardinality(1 .. n) = n
    BY <1>1, FS_Interval
  <1> DEFINE total == SumFunctionOnSet(s, 1 .. n)
  <1>7. Mean(s) = total \div n
    BY DEF Mean, Total, SumFunction
  <1> HIDE DEF n, lo, hi
  <1>8. n * lo <= total /\ total <= n * hi
    <2> DEFINE I == 1 .. n
    <2>1. /\ IsFiniteSet(I) /\ lo \in Int /\ hi \in Int
          /\ \A k \in I : s[k] \in Int /\ lo <= s[k] /\ s[k] <= hi
      BY <1>4, <1>5, <1>6
    <2>2. Cardinality(I) = n
      BY <1>6
    <2> HIDE DEF I
    <2>3. /\ Cardinality(I) * lo <= SumFunctionOnSet(s, I)
          /\ SumFunctionOnSet(s, I) <= Cardinality(I) * hi
      BY <2>1, SumBounds
    <2> QED BY <2>2, <2>3, Zenon DEF I
  <1>9. total \in Nat
    <2>1. total \in Int
      BY <1>5, <1>6, SumType
    <2>2. n * lo \in Nat
      BY <1>1, <1>4
    <2> QED BY <1>8, <2>1, <2>2
  <1> HIDE DEF total
  <1>10. lo <= total \div n /\ total \div n <= hi
    BY <1>1, <1>4, <1>8, <1>9, Quotients
  <1> QED BY <1>7, <1>10 DEF t, n, lo, hi

-----------------------------------------------------------------------------
(* What ping keeps and reports.                                            *)

Recorded == [k \in DOMAIN rounds |-> rounds[k].cycles]

Flags ==
    /\ pc \in {"send", "recv", "plot", "compute", "done"}
    /\ pong \in {"down", "recv", "send"}
    /\ refused \in BOOLEAN /\ lost \in BOOLEAN /\ doubled \in BOOLEAN
    /\ faults \in 0 .. MaxFaults

(* No round is left when the samples are plotted, and they are sorted only *)
(* after that.                                                             *)
Keeps ==
    /\ pc \in {"plot", "compute", "done"} => round = Rounds
    /\ pc # "done" => samples = Recorded /\ result = NoResult
    /\ csv \in IF pc \in {"compute", "done"} THEN {<<>>, Recorded} ELSE {<<>>}
    /\ pc = "done" => /\ samples = Sorted(Recorded)
                      /\ result = Compute(Recorded, Sorted(Recorded), NoResult)

LEMMA RecordedFacts ==
    ASSUME IInv
    PROVE  /\ Recorded \in Seq(Durations) /\ Len(Recorded) = Len(rounds)
           /\ DOMAIN rounds = 1 .. Len(rounds) /\ Len(rounds) \in 0 .. NSamples
           /\ pc = "recv" => Len(rounds) < NSamples
           /\ pc # "recv" /\ round = Rounds => Len(rounds) = NSamples
  <1>1. /\ rounds \in Seq(RoundTrip) /\ Len(rounds) \in Nat
        /\ DOMAIN rounds = 1 .. Len(rounds)
    BY LenProperties DEF IInv, Types
  <1>2. \A k \in 1 .. Len(rounds) : rounds[k].cycles \in Durations
    <2>1. \A k \in 1 .. Len(rounds) : rounds[k] \in RoundTrip
      BY <1>1, ElementOfSeq
    <2> QED BY <2>1 DEF RoundTrip
  <1>3. Recorded \in Seq(Durations) /\ Len(Recorded) = Len(rounds)
    BY <1>1, <1>2 DEF Recorded
  <1>4. Len(rounds) = IF Over > Warmup THEN Over - Warmup ELSE 0
    BY DEF IInv, Tally
  <1>5. round \in 0 .. Rounds /\ (pc = "recv" => round # 0)
    BY DEF IInv, Types
  <1>6. NSamples \in Nat \ {0} /\ Warmup \in Nat /\ Rounds = Warmup + NSamples
    BY PingPongAssumption DEF Rounds
  <1>7. CASE pc = "recv"
    <2>1. Over = round - 1
      BY <1>7 DEF Over
    <2> QED BY <1>1, <1>3, <1>4, <1>5, <1>6, <1>7, <2>1
  <1>8. CASE pc # "recv"
    <2>1. Over = round
      BY <1>8 DEF Over
    <2> QED BY <1>1, <1>3, <1>4, <1>5, <1>6, <1>8, <2>1
  <1> QED BY <1>7, <1>8

LEMMA InitKeeps == Init => Flags /\ Keeps
  <1> SUFFICES ASSUME Init PROVE Flags /\ Keeps
    OBVIOUS
  <1>1. 0 \in 0 .. MaxFaults
    BY PingPongAssumption
  <1>2. Recorded = <<>>
    BY DEF Init, Recorded
  <1> QED BY <1>1, <1>2 DEF Init, Flags, Keeps

LEMMA FlagsStep == ASSUME Flags, [Next]_vars PROVE Flags'
  <1>1. CASE Send
    BY <1>1 DEF Flags, Send, pongVars
  <1>2. CASE Recv
    BY <1>2 DEF Flags, Recv, AfterRecv, pongVars, faultVars
  <1>3. CASE Plot \/ Report
    BY <1>3 DEF Flags, Plot, Report, pongVars, netVars, faultVars
  <1>4. CASE Pong
    BY <1>4 DEF Flags, Pong, PongRecv, PongSend, PongStart, pingVars, netVars, faultVars
  <1>5. CASE PongStop \/ Lose \/ Double
    <2>1. faults + 1 \in 0 .. MaxFaults
      BY <1>5, PingPongAssumption DEF Flags, PongStop, Lose, Double
    <2>2. faults' = faults + 1 /\ pc' = pc /\ refused' = refused
          /\ pong' \in {pong, "down"}
      BY <1>5 DEF PongStop, Lose, Double, pingVars, pongVars
    <2>3. lost' \in BOOLEAN /\ doubled' \in BOOLEAN
      BY <1>5, Zenon DEF Flags, PongStop, Lose, Double
    <2> QED BY <2>1, <2>2, <2>3 DEF Flags
  <1>6. CASE Refuse
    BY <1>6 DEF Flags, Refuse, pingVars, pongVars
  <1>7. CASE UNCHANGED vars
    BY <1>7 DEF Flags, vars, pingVars, pongVars, netVars, faultVars
  <1> QED BY <1>1, <1>2, <1>3, <1>4, <1>5, <1>6, <1>7 DEF Next, Ping, Network

LEMMA Appended ==
    ASSUME NEW S, NEW s \in Seq(S), NEW e \in S
    PROVE  Append(s, e) = [k \in 1 .. Len(s) + 1 |-> IF k = Len(s) + 1 THEN e ELSE s[k]]
  <1> DEFINE n == Len(s)  d == Append(s, e)
  <1>1. /\ d \in Seq(S) /\ Len(d) = n + 1 /\ n \in Nat
        /\ \A k \in 1 .. n : d[k] = s[k]
        /\ d[n + 1] = e
    BY AppendProperties, LenProperties
  <1>2. \A k \in 1 .. n + 1 : k # n + 1 => k \in 1 .. n
    BY <1>1
  <1> HIDE DEF n, d
  <1>3. d = [k \in 1 .. n + 1 |-> d[k]]
    <2>1. d = [k \in 1 .. Len(d) |-> d[k]]
      BY <1>1
    <2> QED BY <1>1, <2>1
  <1>4. \A k \in 1 .. n + 1 : d[k] = IF k = n + 1 THEN e ELSE s[k]
    BY <1>1, <1>2
  <1>5. d = [k \in 1 .. n + 1 |-> IF k = n + 1 THEN e ELSE s[k]]
    BY <1>3, <1>4, Zenon
  <1> QED BY <1>5 DEF n, d

(* A measured round adds its sample to both.                               *)
LEMMA KeepsRecv ==
    ASSUME IInv, Keeps, Recv
    PROVE  Keeps'
  <1>1. /\ pc = "recv" /\ pc' = AfterRecv /\ pc' \in {"plot", "send"}
        /\ pc' = "plot" => round' = Rounds'
        /\ UNCHANGED <<result, csv>>
    BY DEF Recv, AfterRecv, Rounds
  <1>2. PICK reply : Record(reply)
    BY DEF Recv
  <1>3. samples = Recorded /\ result = NoResult /\ csv = <<>>
    BY <1>1 DEF Keeps
  <1>4. samples' = Recorded'
    <2>1. CASE ~Measures
      BY <1>2, <1>3, <2>1 DEF Record, Recorded
    <2>2. CASE Measures
      <3>1. PICK cycles \in Durations :
              /\ samples' = StatsRecord(samples, NSamples, cycles)
              /\ rounds' = Append(rounds, [reply |-> reply, cycles |-> cycles])
        BY <1>2, <2>2 DEF Record
      <3> DEFINE n == Len(rounds)  new == [reply |-> reply, cycles |-> cycles]
      <3>2. /\ Recorded \in Seq(Durations) /\ Len(Recorded) = n
            /\ DOMAIN rounds = 1 .. n /\ n \in Nat /\ n < NSamples
        BY <1>1, RecordedFacts
      <3>3. samples' = Append(Recorded, cycles)
        BY <1>3, <3>1, <3>2 DEF StatsRecord
      <3>4. rounds' = [k \in 1 .. n + 1 |-> IF k = n + 1 THEN new ELSE rounds[k]]
        <4>1. rounds \in Seq(RoundTrip)
          BY DEF IInv, Types
        <4> HIDE DEF new
        <4> QED BY <3>1, <4>1 DEF new
      <3>5. Recorded' = [k \in 1 .. n + 1 |-> rounds'[k].cycles]
        BY <3>4 DEF Recorded
      <3>6. Append(Recorded, cycles)
              = [k \in 1 .. n + 1 |-> IF k = n + 1 THEN cycles ELSE Recorded[k]]
        <4> DEFINE r == Recorded
        <4>1. r \in Seq(Durations) /\ Len(r) = n
          BY <3>2
        <4> HIDE DEF r
        <4>2. Append(r, cycles)
                = [k \in 1 .. Len(r) + 1 |-> IF k = Len(r) + 1 THEN cycles ELSE r[k]]
          BY <4>1, Appended
        <4> QED BY <4>1, <4>2, Zenon DEF r
      <3>7. \A k \in 1 .. n + 1 :
              rounds'[k].cycles = IF k = n + 1 THEN cycles ELSE Recorded[k]
        <4>1. \A k \in 1 .. n : Recorded[k] = rounds[k].cycles
          BY <3>2 DEF Recorded
        <4>2. \A k \in 1 .. n + 1 : k # n + 1 => k \in 1 .. n
          BY <3>2
        <4> QED BY <3>4, <4>1, <4>2
      <3> HIDE DEF n
      <3> QED BY <3>3, <3>5, <3>6, <3>7
    <2> QED BY <2>1, <2>2
  <1> QED BY <1>1, <1>3, <1>4 DEF Keeps

LEMMA KeepsStep ==
    ASSUME IInv, Flags, Keeps, [Next]_vars
    PROVE  Keeps'
  <1>1. Rounds' = Rounds
    BY DEF Rounds
  <1>2. CASE Send
    <2>1. /\ pc = "send" /\ pc' = "recv"
          /\ UNCHANGED <<samples, result, csv, rounds>>
      BY <1>2 DEF Send
    <2> QED BY <2>1 DEF Keeps, Recorded
  <1>3. CASE Plot
    <2>1. /\ pc = "plot" /\ pc' = "compute" /\ csv' \in {csv, samples}
          /\ UNCHANGED <<round, samples, result, rounds>>
      BY <1>3 DEF Plot
    <2> QED BY <1>1, <2>1 DEF Keeps, Recorded
  <1>4. CASE Report
    <2>1. /\ pc = "compute" /\ pc' = "done"
          /\ samples' = Sorted(samples)
          /\ result' = Compute(samples, samples', result)
          /\ UNCHANGED <<round, csv, rounds>>
      BY <1>4 DEF Report
    <2>2. Recorded' = Recorded
      BY <2>1 DEF Recorded
    <2>3. /\ round = Rounds /\ samples = Recorded /\ result = NoResult
          /\ csv \in {<<>>, Recorded}
      BY <2>1 DEF Keeps
    <2> QED BY <1>1, <2>1, <2>2, <2>3 DEF Keeps
  <1>5. CASE Pong \/ PongStop \/ Network \/ UNCHANGED vars
    <2>1. UNCHANGED pingVars
      BY <1>5 DEF Pong, PongRecv, PongSend, PongStart, PongStop, Network, Refuse, Lose,
                  Double, vars
    <2>2. UNCHANGED <<pc, round, samples, result, csv, rounds>>
      BY <2>1 DEF pingVars
    <2> QED BY <1>1, <2>2 DEF Keeps, Recorded
  <1> QED BY <1>2, <1>3, <1>4, <1>5, KeepsRecv DEF Next, Ping

(* Nothing is lost between a measured round and the report, or between it  *)
(* and samples.csv if that could be opened.                                *)
THEOREM KeepsInductive == Spec => [](Flags /\ Keeps)
  <1>1. IInv /\ Flags /\ Keeps /\ [Next]_vars => (Flags /\ Keeps)'
    BY FlagsStep, KeepsStep
  <1> QED BY <1>1, InitKeeps, Inductive, PTL DEF Spec

(* What stands in the report once it is made.                              *)
LEMMA Reported ==
    ASSUME IInv, Keeps, pc = "done"
    PROVE  LET r == Recorded IN
           /\ r \in Seq(Nat) /\ r # <<>> /\ Len(r) = NSamples /\ csv \in {<<>>, r}
           /\ result.n = NSamples
           /\ result.jitter = Jitter(r) /\ result.mean = Mean(r)
           /\ result.min = Sorted(r)[1] /\ result.max = Sorted(r)[NSamples]
           /\ \A p \in Percentiles : result.pct[p] = Pct(Sorted(r), p)
  <1> DEFINE r == Recorded
  <1>1. r \in Seq(Durations) /\ Len(r) = NSamples
    BY RecordedFacts DEF Keeps
  <1>2. NSamples \in Nat \ {0} /\ Durations \subseteq Nat
    BY PingPongAssumption
  <1>3. csv \in {<<>>, r} /\ result = Compute(r, Sorted(r), NoResult)
    BY DEF Keeps
  <1> HIDE DEF r
  <1>4. r \in Seq(Nat) /\ r # <<>>
    <2>1. \A k \in 1 .. Len(r) : r[k] \in Nat
      BY <1>1, <1>2, ElementOfSeq
    <2>2. r # <<>>
      BY <1>1, <1>2, EmptySeq
    <2>3. r = [k \in 1 .. Len(r) |-> r[k]] /\ Len(r) \in Nat
      BY <1>1
    <2> QED BY <2>1, <2>2, <2>3
  <1>5. Sorted(r) \in Seq(Nat) /\ Len(Sorted(r)) = NSamples
    BY <1>1, <1>4, SortedFacts
  <1>6. Last(Sorted(r)) = Sorted(r)[NSamples]
    BY <1>5 DEF Last
  <1>7. /\ result.n = NSamples
        /\ result.jitter = Jitter(r) /\ result.mean = Mean(r)
        /\ result.min = Sorted(r)[1] /\ result.max = Sorted(r)[NSamples]
        /\ result.pct = [p \in Percentiles |-> Pct(Sorted(r), p)]
    BY <1>1, <1>3, <1>4, <1>6 DEF Compute
  <1>8. \A p \in Percentiles : result.pct[p] = Pct(Sorted(r), p)
    BY <1>7, Zenon
  <1> QED BY <1>1, <1>3, <1>4, <1>7, <1>8 DEF r

(* Everything keeps its range: ping never records more than NSamples.      *)
THEOREM TypeCorrect == Spec => []TypeOK
  <1>1. ASSUME IInv, Flags, Keeps PROVE TypeOK
    <2>1. /\ Recorded \in Seq(Durations) /\ Len(Recorded) = Len(rounds)
          /\ Len(rounds) \in 0 .. NSamples
      BY <1>1, RecordedFacts
    <2>2. Sorted(Recorded) \in Seq(Durations) /\ Len(Sorted(Recorded)) = Len(Recorded)
      <3> DEFINE r == Recorded
      <3>1. Durations \in SUBSET Nat /\ r \in Seq(Durations)
        BY <2>1, PingPongAssumption
      <3> HIDE DEF r
      <3>2. Sorted(r) \in Seq(Durations) /\ Len(Sorted(r)) = Len(r)
        BY <3>1, SortedFacts
      <3> QED BY <3>2 DEF r
    <2>3. samples \in Seq(Durations) /\ Len(samples) <= NSamples
      <3>1. samples = Recorded \/ samples = Sorted(Recorded)
        BY <1>1 DEF Keeps
      <3> QED BY <2>1, <2>2, <3>1
    <2>4. csv \in Seq(Durations)
      <3>1. <<>> \in Seq(Durations)
        BY EmptySeq
      <3>2. csv = Recorded \/ csv = <<>>
        BY <1>1 DEF Keeps
      <3> QED BY <2>1, <3>1, <3>2
    <2>5. result.n \in 0 .. NSamples
      <3>1. pc # "done" => result.n = 0
        BY <1>1 DEF Keeps, NoResult
      <3>2. pc = "done" => result.n = NSamples
        BY <1>1, Reported
      <3> QED BY <3>1, <3>2, PingPongAssumption
    <2> QED BY <1>1, <2>1, <2>3, <2>4, <2>5 DEF TypeOK, Flags, IInv, Types, RoundTrip
  <1> QED BY <1>1, Inductive, KeepsInductive, PTL

(* The report is of the samples as recorded, though stats_compute sorts    *)
(* them in place (stats.h:69-107): a series written and the jitter are in  *)
(* recording order, the mean lies between the least and the greatest       *)
(* sample, and no percentile has more samples below or above it than its   *)
(* place allows.                                                           *)
THEOREM ReportIsTrue == Spec => []ReportTrue
  <1>1. ASSUME IInv, Keeps PROVE ReportTrue
    <2> SUFFICES ASSUME pc = "done" PROVE ReportTrue
      BY DEF ReportTrue
    <2> DEFINE r == Recorded  gaps == NSamples - 1
    <2>1. /\ r \in Seq(Nat) /\ r # <<>> /\ Len(r) = NSamples /\ csv \in {<<>>, r}
          /\ result.n = NSamples
          /\ result.jitter = Jitter(r) /\ result.mean = Mean(r)
          /\ result.min = Sorted(r)[1] /\ result.max = Sorted(r)[NSamples]
          /\ \A p \in Percentiles : result.pct[p] = Pct(Sorted(r), p)
      BY <1>1, Reported
    <2>2. /\ DOMAIN rounds = 1 .. NSamples
          /\ \A k \in 1 .. NSamples : r[k] = rounds[k].cycles
      BY <1>1, <2>1, RecordedFacts DEF Recorded
    <2> HIDE DEF r
    <2>3. result.jitter[1] = Total([k \in 1 .. gaps |-> AbsDelta(r[k], r[k + 1])])
      BY <2>1 DEF Jitter
    <2>4. result.min <= result.mean /\ result.mean <= result.max
      BY <2>1, MeanFacts
    <2>5. ASSUME NEW p \in Percentiles
          PROVE  LET v == result.pct[p] IN
                 /\ result.min * v[2] <= v[1] /\ v[1] <= result.max * v[2]
                 /\ CountBelow(v) * p[2] < p[1] * gaps + p[2]
                 /\ CountAbove(v) * p[2] < (p[2] - p[1]) * gaps + p[2]
      <3> DEFINE v == Pct(Sorted(r), p)
      <3>1. result.pct[p] = v
        BY <2>1
      <3>2. /\ Sorted(r)[1] * v[2] <= v[1] /\ v[1] <= Sorted(r)[Len(r)] * v[2]
            /\ Cardinality({k \in 1 .. Len(r) : r[k] * v[2] < v[1]}) * p[2]
                 < p[1] * (Len(r) - 1) + p[2]
            /\ Cardinality({k \in 1 .. Len(r) : r[k] * v[2] > v[1]}) * p[2]
                 < (p[2] - p[1]) * (Len(r) - 1) + p[2]
        BY <2>1, PctFacts
      <3> HIDE DEF v
      <3>3. /\ {k \in DOMAIN rounds : rounds[k].cycles * v[2] < v[1]}
                 = {k \in 1 .. Len(r) : r[k] * v[2] < v[1]}
            /\ {k \in DOMAIN rounds : rounds[k].cycles * v[2] > v[1]}
                 = {k \in 1 .. Len(r) : r[k] * v[2] > v[1]}
        BY <2>1, <2>2
      <3>4. /\ CountBelow(v) = Cardinality({k \in 1 .. Len(r) : r[k] * v[2] < v[1]})
            /\ CountAbove(v) = Cardinality({k \in 1 .. Len(r) : r[k] * v[2] > v[1]})
        BY <3>3, Zenon DEF CountBelow, CountAbove
      <3>5. /\ result.min * v[2] <= v[1] /\ v[1] <= result.max * v[2]
            /\ CountBelow(v) * p[2] < p[1] * gaps + p[2]
            /\ CountAbove(v) * p[2] < (p[2] - p[1]) * gaps + p[2]
        BY <2>1, <3>2, <3>4, Zenon
      <3> QED BY <3>1, <3>5, Zenon
    <2> QED BY <2>1, <2>3, <2>4, <2>5, Zenon DEF ReportTrue, Recorded, r
  <1> QED BY <1>1, Inductive, KeepsInductive, PTL
=============================================================================
