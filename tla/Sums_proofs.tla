----------------------------- MODULE Sums_proofs -----------------------------
(***************************************************************************)
(* Sums over finite sets, as the modules of the book, the sample collector *)
(* and the volatility estimator take them: of a function, through the      *)
(* folds of the community modules.  A fold is a CHOOSE of a recursive      *)
(* function, so that there is one has to be proved too.                    *)
(*                                                                         *)
(* The two induction principles speak of a set of the things that have a   *)
(* property, not of a predicate: provers instantiate a set.                *)
(***************************************************************************)
EXTENDS FiniteSetsExt, FiniteSetTheorems, WellFoundedInduction, TLAPS

Below == {pair \in Nat \X Nat : pair[1] < pair[2]}

(* The naturals are well ordered.                                          *)
LEMMA Least ==
    ASSUME NEW T \in SUBSET Nat, T # {}
    PROVE  \E x \in T : \A y \in T : x <= y
  <1>1. IsWellFoundedOn(Below, Nat)
    BY NatLessThanWellFounded DEF OpToRel, Below
  <1>2. PICK x \in T : \A y \in T : ~ (<<y, x>> \in Below)
    BY <1>1, WFMin
  <1>3. ASSUME NEW y \in T
        PROVE  x <= y
    <2>1. x \in Nat /\ y \in Nat
      OBVIOUS
    <2>2. <<y, x>> \notin Below
      BY <1>2
    <2> QED BY <2>1, <2>2 DEF Below
  <1> QED BY <1>3

(* A set that has 0, and n + 1 with every n, has every natural.            *)
LEMMA Naturals ==
    ASSUME NEW P, 0 \in P, \A n \in Nat : n \in P => n + 1 \in P
    PROVE  Nat \subseteq P
  <1> SUFFICES ASSUME Nat \ P # {} PROVE FALSE
    OBVIOUS
  <1>1. PICK x \in Nat \ P : \A y \in Nat \ P : x <= y
    BY Least
  <1>2. x # 0 /\ x - 1 \in Nat
    BY <1>1
  <1>3. x - 1 \in P
    BY <1>1, <1>2
  <1>4. (x - 1) + 1 \in P
    BY <1>2, <1>3
  <1> QED BY <1>1, <1>2, <1>4

(* A set of subsets of S that has {}, and with every T also T and one more *)
(* element, has S.                                                         *)
LEMMA FiniteSubsets ==
    ASSUME NEW S, IsFiniteSet(S), NEW P, {} \in P,
           \A T \in SUBSET S : \A x \in S \ T : T \in P => T \cup {x} \in P
    PROVE  S \in P
  <1> DEFINE Q == {n \in Nat : \A T \in SUBSET S : Cardinality(T) = n => T \in P}
  <1>1. \A T \in SUBSET S : IsFiniteSet(T) /\ Cardinality(T) \in Nat
    BY FS_Subset, FS_CardinalityType
  <1>2. 0 \in Q
    BY <1>1, FS_EmptySet
  <1>3. ASSUME NEW n \in Nat, n \in Q PROVE n + 1 \in Q
    <2> SUFFICES ASSUME NEW T \in SUBSET S, Cardinality(T) = n + 1 PROVE T \in P
      OBVIOUS
    <2>1. T # {}
      BY <1>1, FS_EmptySet
    <2>2. PICK x \in T : TRUE
      BY <2>1
    <2>3. Cardinality(T \ {x}) = n
      <3>1. IsFiniteSet(T)
        BY <1>1
      <3>2. Cardinality(T \ {x}) = Cardinality(T) - 1
        BY <3>1, FS_RemoveElement
      <3> QED BY <3>2
    <2>4. T \ {x} \in P
      BY <1>3, <2>3
    <2>5. T = (T \ {x}) \cup {x} /\ x \in S \ (T \ {x}) /\ T \ {x} \in SUBSET S
      OBVIOUS
    <2> QED BY <2>4, <2>5
  <1> HIDE DEF Q
  <1>4. Nat \subseteq Q
    BY <1>2, <1>3, Naturals
  <1> QED BY <1>1, <1>4 DEF Q

-----------------------------------------------------------------------------
(* The element the fold takes first, and the function it recurs through.   *)
Picked(s) == CHOOSE x \in s : TRUE
Recurs(g, f, D) ==
    g = [s \in D |-> IF s = {} THEN 0 ELSE f[Picked(s)] + g[s \ {Picked(s)}]]
Recursion(f, S) == CHOOSE g : Recurs(g, f, SUBSET S)

LEMMA SumUnfolds ==
    ASSUME NEW f, NEW S
    PROVE  SumFunctionOnSet(f, S) = Recursion(f, S)[S]
BY Zenon DEF SumFunctionOnSet, FoldFunctionOnSet, MapThenFoldSet, Recursion, Recurs, Picked

LEMMA PickedIn == ASSUME NEW s, s # {} PROVE Picked(s) \in s
BY DEF Picked

LEMMA RecursionExists ==
    ASSUME NEW f, NEW S, IsFiniteSet(S)
    PROVE  Recurs(Recursion(f, S), f, SUBSET S)
<1> DEFINE D(n) == {s \in SUBSET S : Cardinality(s) <= n}
           P == {n \in Nat : \E g : Recurs(g, f, D(n))}
<1>1. \A s \in SUBSET S : /\ IsFiniteSet(s) /\ Cardinality(s) \in Nat
                          /\ Cardinality(s) <= Cardinality(S)
                          /\ (Cardinality(s) = 0 <=> s = {})
  BY FS_Subset, FS_CardinalityType, FS_EmptySet
<1>2. \A s \in SUBSET S : s # {} =>
        /\ Picked(s) \in s /\ s \ {Picked(s)} \in SUBSET S
        /\ Cardinality(s \ {Picked(s)}) = Cardinality(s) - 1
  BY <1>1, PickedIn, FS_RemoveElement
<1>3. 0 \in P
  <2> DEFINE g == [s \in D(0) |-> 0]
  <2>1. \A s \in D(0) : s = {}
    BY <1>1
  <2>2. Recurs(g, f, D(0))
    BY <2>1 DEF Recurs
  <2> QED BY <2>2
<1>4. ASSUME NEW n \in Nat, n \in P PROVE n + 1 \in P
  <2>1. PICK g : Recurs(g, f, D(n))
    BY <1>4
  <2> DEFINE h == [s \in D(n + 1) |->
                     IF s = {} THEN 0 ELSE f[Picked(s)] + g[s \ {Picked(s)}]]
  <2>2. \A s \in D(n + 1) : s # {} => s \ {Picked(s)} \in D(n)
    BY <1>1, <1>2
  <2>3. ASSUME NEW s \in D(n) PROVE s \in D(n + 1) /\ h[s] = g[s]
    <3>1. s \in D(n + 1)
      BY <1>1
    <3>2. g[s] = IF s = {} THEN 0 ELSE f[Picked(s)] + g[s \ {Picked(s)}]
      BY <2>1, Zenon DEF Recurs
    <3> QED BY <3>1, <3>2
  <2>4. \A s \in D(n + 1) : s # {} => g[s \ {Picked(s)}] = h[s \ {Picked(s)}]
    BY <2>2, <2>3
  <2>5. h = [s \in D(n + 1) |->
                     IF s = {} THEN 0 ELSE f[Picked(s)] + h[s \ {Picked(s)}]]
    BY <2>4
  <2>6. Recurs(h, f, D(n + 1))
    BY <2>5, Zenon DEF Recurs
  <2> QED BY <2>6
<1> HIDE DEF P
<1>5. Nat \subseteq P
  BY <1>3, <1>4, Naturals
<1>6. Cardinality(S) \in P
  BY <1>1, <1>5
<1>7. D(Cardinality(S)) = SUBSET S
  BY <1>1
<1>8. \E g : Recurs(g, f, SUBSET S)
  BY <1>6, <1>7 DEF P
<1> QED BY <1>8 DEF Recursion

LEMMA RecursionAgrees ==
    ASSUME NEW f, NEW S, IsFiniteSet(S), NEW R \in SUBSET S
    PROVE  Recursion(f, S)[R] = Recursion(f, R)[R]
<1> DEFINE g == Recursion(f, S)  h == Recursion(f, R)
           Q == {n \in Nat : \A T \in SUBSET R : Cardinality(T) = n => g[T] = h[T]}
<1>1. IsFiniteSet(R) /\ \A T \in SUBSET R : /\ IsFiniteSet(T) /\ Cardinality(T) \in Nat
                                            /\ (Cardinality(T) = 0 <=> T = {})
  BY FS_Subset, FS_CardinalityType, FS_EmptySet
<1>2. Recurs(g, f, SUBSET S) /\ Recurs(h, f, SUBSET R)
  BY <1>1, RecursionExists
<1> HIDE DEF g, h
<1>3. 0 \in Q
  BY <1>1, <1>2 DEF Recurs
<1>4. ASSUME NEW n \in Nat, n \in Q PROVE n + 1 \in Q
  <2> SUFFICES ASSUME NEW T \in SUBSET R, Cardinality(T) = n + 1 PROVE g[T] = h[T]
    OBVIOUS
  <2> DEFINE U == T \ {Picked(T)}
  <2>1. T # {}
    BY <1>1
  <2>2. Picked(T) \in T /\ U \in SUBSET R /\ Cardinality(U) = n
    BY <1>1, <2>1, PickedIn, FS_RemoveElement
  <2>3. g[U] = h[U]
    BY <1>4, <2>2
  <2>4. T \in SUBSET S
    OBVIOUS
  <2> QED BY <1>2, <2>1, <2>3, <2>4 DEF Recurs
<1> HIDE DEF Q
<1>5. Nat \subseteq Q
  BY <1>3, <1>4, Naturals
<1>6. Cardinality(R) \in Q
  BY <1>1, <1>5
<1> QED BY <1>6 DEF Q, g, h

(* Nothing sums to 0; a sum is what the picked element adds to the rest's. *)
LEMMA SumEmpty == ASSUME NEW f PROVE SumFunctionOnSet(f, {}) = 0
<1>1. Recurs(Recursion(f, {}), f, SUBSET {})
  BY FS_EmptySet, RecursionExists
<1> QED BY <1>1, SumUnfolds DEF Recurs

LEMMA SumPicked ==
    ASSUME NEW f, NEW S, IsFiniteSet(S), S # {}
    PROVE  SumFunctionOnSet(f, S) = f[Picked(S)] + SumFunctionOnSet(f, S \ {Picked(S)})
<1> DEFINE R == S \ {Picked(S)}
<1>1. Recursion(f, S)[S] = f[Picked(S)] + Recursion(f, S)[R]
  <2> DEFINE g == Recursion(f, S)
  <2>1. Recurs(g, f, SUBSET S)
    BY RecursionExists
  <2> HIDE DEF g
  <2>2. g[S] = IF S = {} THEN 0 ELSE f[Picked(S)] + g[R]
    BY <2>1, Zenon DEF Recurs
  <2> QED BY <2>2 DEF g
<1>2. Recursion(f, S)[R] = Recursion(f, R)[R]
  BY RecursionAgrees
<1> QED BY <1>1, <1>2, SumUnfolds

(* A sum of integers is an integer, and takes any element first.           *)
LEMMA SumType ==
    ASSUME NEW f, NEW S, IsFiniteSet(S), \A i \in S : f[i] \in Int
    PROVE  SumFunctionOnSet(f, S) \in Int
<1> DEFINE Q == {n \in Nat : \A T \in SUBSET S : Cardinality(T) = n => SumFunctionOnSet(f, T) \in Int}
<1>1. \A T \in SUBSET S : /\ IsFiniteSet(T) /\ Cardinality(T) \in Nat
                          /\ (Cardinality(T) = 0 <=> T = {})
  BY FS_Subset, FS_CardinalityType, FS_EmptySet
<1>2. 0 \in Q
  BY <1>1, SumEmpty
<1>3. ASSUME NEW n \in Nat, n \in Q PROVE n + 1 \in Q
  <2> SUFFICES ASSUME NEW T \in SUBSET S, Cardinality(T) = n + 1 PROVE SumFunctionOnSet(f, T) \in Int
    OBVIOUS
  <2> DEFINE U == T \ {Picked(T)}
  <2>1. T # {}
    BY <1>1
  <2>2. Picked(T) \in S /\ U \in SUBSET S /\ Cardinality(U) = n
    BY <1>1, <2>1, PickedIn, FS_RemoveElement
  <2>3. SumFunctionOnSet(f, U) \in Int
    BY <1>3, <2>2
  <2>4. SumFunctionOnSet(f, T) = f[Picked(T)] + SumFunctionOnSet(f, U)
    BY <1>1, <2>1, SumPicked
  <2> QED BY <2>2, <2>3, <2>4
<1> HIDE DEF Q
<1>4. Nat \subseteq Q
  BY <1>2, <1>3, Naturals
<1>5. Cardinality(S) \in Q
  BY <1>1, <1>4
<1> QED BY <1>5 DEF Q

LEMMA SumRemove ==
    ASSUME NEW f, NEW S, IsFiniteSet(S), \A i \in S : f[i] \in Int, NEW x \in S
    PROVE  SumFunctionOnSet(f, S) = f[x] + SumFunctionOnSet(f, S \ {x})
<1> DEFINE Q == {n \in Nat : \A T \in SUBSET S : \A y \in T : Cardinality(T) = n =>
                    SumFunctionOnSet(f, T) = f[y] + SumFunctionOnSet(f, T \ {y})}
<1>1. \A T \in SUBSET S : /\ IsFiniteSet(T) /\ Cardinality(T) \in Nat
                          /\ (Cardinality(T) = 0 <=> T = {})
                          /\ SumFunctionOnSet(f, T) \in Int
  BY FS_Subset, FS_CardinalityType, FS_EmptySet, SumType
<1>2. 0 \in Q
  BY <1>1
<1>3. ASSUME NEW n \in Nat, n \in Q PROVE n + 1 \in Q
  <2> SUFFICES ASSUME NEW T \in SUBSET S, NEW y \in T, Cardinality(T) = n + 1
               PROVE SumFunctionOnSet(f, T) = f[y] + SumFunctionOnSet(f, T \ {y})
    OBVIOUS
  <2> DEFINE p == Picked(T)
  <2>1. p \in T
    BY PickedIn
  <2>2. SumFunctionOnSet(f, T) = f[p] + SumFunctionOnSet(f, T \ {p})
    BY <1>1, SumPicked
  <2> HIDE DEF p
  <2>3. CASE y = p
    BY <2>2, <2>3
  <2>4. CASE y # p
    <3>1. Cardinality(T \ {p}) = n /\ Cardinality(T \ {y}) = n
      BY <1>1, <2>1, FS_RemoveElement
    <3>2. y \in T \ {p} /\ p \in T \ {y}
      BY <2>1, <2>4
    <3>3. SumFunctionOnSet(f, T \ {p}) = f[y] + SumFunctionOnSet(f, (T \ {p}) \ {y})
      BY <1>3, <3>1, <3>2
    <3>4. SumFunctionOnSet(f, T \ {y}) = f[p] + SumFunctionOnSet(f, (T \ {y}) \ {p})
      BY <1>3, <3>1, <3>2
    <3>5. (T \ {p}) \ {y} = (T \ {y}) \ {p}
      OBVIOUS
    <3>6. /\ SumFunctionOnSet(f, (T \ {y}) \ {p}) \in Int /\ SumFunctionOnSet(f, T \ {y}) \in Int
          /\ SumFunctionOnSet(f, T \ {p}) \in Int /\ SumFunctionOnSet(f, T) \in Int
          /\ f[p] \in Int /\ f[y] \in Int
      BY <1>1, <2>1
    <3> DEFINE rest == SumFunctionOnSet(f, (T \ {y}) \ {p})
    <3>7. SumFunctionOnSet(f, T) = f[p] + (f[y] + rest) /\ SumFunctionOnSet(f, T \ {y}) = f[p] + rest
      BY <2>2, <3>3, <3>4, <3>5
    <3> HIDE DEF rest
    <3>8. rest \in Int
      BY <3>6 DEF rest
    <3> QED BY <3>6, <3>7, <3>8
  <2> QED BY <2>3, <2>4
<1> HIDE DEF Q
<1>4. Nat \subseteq Q
  BY <1>2, <1>3, Naturals
<1>5. Cardinality(S) \in Q
  BY <1>1, <1>4
<1> QED BY <1>5 DEF Q

LEMMA SumInsert ==
    ASSUME NEW f, NEW S, IsFiniteSet(S), NEW x, x \notin S,
           f[x] \in Int, \A i \in S : f[i] \in Int
    PROVE  SumFunctionOnSet(f, S \cup {x}) = f[x] + SumFunctionOnSet(f, S)
<1>1. IsFiniteSet(S \cup {x}) /\ (S \cup {x}) \ {x} = S
  BY FS_AddElement
<1> QED BY <1>1, SumRemove

(* Functions that agree have the same sum; zeros do not count.             *)
LEMMA SumAgrees ==
    ASSUME NEW S, IsFiniteSet(S), NEW f, NEW g,
           \A i \in S : f[i] \in Int /\ g[i] = f[i]
    PROVE  SumFunctionOnSet(g, S) = SumFunctionOnSet(f, S)
<1> DEFINE P == {T \in SUBSET S : SumFunctionOnSet(g, T) = SumFunctionOnSet(f, T)}
<1>1. {} \in P
  BY SumEmpty
<1>2. ASSUME NEW T \in SUBSET S, NEW x \in S \ T, T \in P PROVE T \cup {x} \in P
  <2>1. IsFiniteSet(T) /\ T \cup {x} \in SUBSET S
    BY FS_Subset
  <2>2. SumFunctionOnSet(f, T \cup {x}) = f[x] + SumFunctionOnSet(f, T)
    BY <2>1, SumInsert
  <2>3. SumFunctionOnSet(g, T \cup {x}) = g[x] + SumFunctionOnSet(g, T)
    BY <2>1, SumInsert
  <2> QED BY <1>2, <2>1, <2>2, <2>3
<1> HIDE DEF P
<1>3. S \in P
  BY <1>1, <1>2, FiniteSubsets
<1> QED BY <1>3 DEF P

LEMMA SumZeros ==
    ASSUME NEW S, IsFiniteSet(S), NEW f, \A i \in S : f[i] \in Int,
           NEW R \in SUBSET S, \A i \in S \ R : f[i] = 0
    PROVE  SumFunctionOnSet(f, S) = SumFunctionOnSet(f, R)
<1> DEFINE P == {T \in SUBSET S :
                    SumFunctionOnSet(f, T) = SumFunctionOnSet(f, T \cap R)}
<1>1. {} \in P
  OBVIOUS
<1>2. ASSUME NEW T \in SUBSET S, NEW x \in S \ T, T \in P PROVE T \cup {x} \in P
  <2>1. /\ IsFiniteSet(T) /\ T \cup {x} \in SUBSET S
        /\ IsFiniteSet(T \cap R) /\ T \cap R \in SUBSET S
    BY FS_Subset
  <2>2. SumFunctionOnSet(f, T \cup {x}) = f[x] + SumFunctionOnSet(f, T)
    BY <2>1, SumInsert
  <2>3. SumFunctionOnSet(f, T) = SumFunctionOnSet(f, T \cap R)
    BY <1>2
  <2>4. CASE x \in R
    <3>1. (T \cup {x}) \cap R = (T \cap R) \cup {x}
      BY <2>4
    <3>2. SumFunctionOnSet(f, (T \cap R) \cup {x})
            = f[x] + SumFunctionOnSet(f, T \cap R)
      BY <2>1, SumInsert
    <3> QED BY <2>1, <2>2, <2>3, <3>1, <3>2
  <2>5. CASE x \notin R
    <3>1. (T \cup {x}) \cap R = T \cap R /\ f[x] = 0
      BY <2>5
    <3>2. SumFunctionOnSet(f, T) \in Int
      BY <2>1, SumType
    <3>3. SumFunctionOnSet(f, T \cup {x}) = SumFunctionOnSet(f, T)
      BY <2>2, <3>1, <3>2
    <3>4. SumFunctionOnSet(f, T \cup {x}) = SumFunctionOnSet(f, (T \cup {x}) \cap R)
      BY <2>3, <3>1, <3>3, Zenon
    <3> QED BY <2>1, <3>4
  <2> QED BY <2>4, <2>5
<1> HIDE DEF P
<1>3. S \in P
  BY <1>1, <1>2, FiniteSubsets
<1>4. S \cap R = R
  OBVIOUS
<1> QED BY <1>3, <1>4 DEF P

(* A sum lies between as many times the least and the greatest.            *)
LEMMA SumBounds ==
    ASSUME NEW S, IsFiniteSet(S), NEW f, NEW lo \in Int, NEW hi \in Int,
           \A i \in S : f[i] \in Int /\ lo <= f[i] /\ f[i] <= hi
    PROVE  /\ Cardinality(S) * lo <= SumFunctionOnSet(f, S)
           /\ SumFunctionOnSet(f, S) <= Cardinality(S) * hi
<1> DEFINE P == {T \in SUBSET S :
                    /\ Cardinality(T) * lo <= SumFunctionOnSet(f, T)
                    /\ SumFunctionOnSet(f, T) <= Cardinality(T) * hi}
<1>1. {} \in P
  BY SumEmpty, FS_EmptySet
<1>2. ASSUME NEW T \in SUBSET S, NEW x \in S \ T, T \in P PROVE T \cup {x} \in P
  <2> DEFINE sum == SumFunctionOnSet(f, T)  k == Cardinality(T)
  <2>1. IsFiniteSet(T) /\ T \cup {x} \in SUBSET S
    BY FS_Subset
  <2>2. SumFunctionOnSet(f, T \cup {x}) = f[x] + sum /\ sum \in Int
    BY <2>1, SumInsert, SumType
  <2>3. Cardinality(T \cup {x}) = k + 1 /\ k \in Nat
    BY <2>1, FS_AddElement, FS_CardinalityType
  <2>4. k * lo <= sum /\ sum <= k * hi
    BY <1>2
  <2> HIDE DEF sum, k
  <2>5. (k + 1) * lo = k * lo + lo /\ (k + 1) * hi = k * hi + hi
    BY <2>3
  <2>6. k * lo \in Int /\ k * hi \in Int
    BY <2>3
  <2>7. (k + 1) * lo <= f[x] + sum /\ f[x] + sum <= (k + 1) * hi
    BY <2>2, <2>4, <2>5, <2>6
  <2> QED BY <2>1, <2>2, <2>3, <2>7
<1> HIDE DEF P
<1>3. S \in P
  BY <1>1, <1>2, FiniteSubsets
<1> QED BY <1>3 DEF P

(* Cauchy and Schwarz: the squares' sum, times how many there are, is no   *)
(* less than the square of the sum.                                        *)
LEMMA OneMoreSquare ==
    ASSUME NEW k \in Nat, NEW s \in Int, NEW q \in Int, NEW r \in Int,
           k * q >= s * s, k = 0 => s = 0 /\ q = 0
    PROVE  (k + 1) * (r * r + q) >= (r + s) * (r + s)
<1> DEFINE gap == q + k * (r * r) - 2 * (s * r)
<1>1. gap \in Int
  OBVIOUS
<1>2. (k + 1) * (r * r + q) = k * (r * r) + k * q + r * r + q
  OBVIOUS
<1>3. (r + s) * (r + s) = r * r + 2 * (s * r) + s * s
  OBVIOUS
<1>4. gap >= 0
  <2>1. CASE k = 0
    BY <2>1
  <2>2. CASE k > 0
    <3> DEFINE d == s - k * r
    <3>1. d \in Int /\ d * d >= 0
      <4>1. d \in Int
        OBVIOUS
      <4>2. \A z \in Int : z * z >= 0
        OBVIOUS
      <4> QED BY <4>1, <4>2
    <3>2. d * d = s * s - 2 * (k * (s * r)) + k * (k * (r * r))
      OBVIOUS
    <3>3. k * gap = k * q + k * (k * (r * r)) - 2 * (k * (s * r))
      OBVIOUS
    <3> HIDE DEF gap, d
    <3>4. k * gap >= 0
      BY <3>1, <3>2, <3>3
    <3> QED BY <1>1, <2>2, <3>4
  <2> QED BY <2>1, <2>2
<1> QED BY <1>2, <1>3, <1>4

LEMMA SquaresBound ==
    ASSUME NEW S, IsFiniteSet(S), NEW f, NEW g,
           \A i \in S : f[i] \in Int /\ g[i] = f[i] * f[i]
    PROVE  Cardinality(S) * SumFunctionOnSet(g, S)
             >= SumFunctionOnSet(f, S) * SumFunctionOnSet(f, S)
<1> DEFINE P == {T \in SUBSET S :
                    Cardinality(T) * SumFunctionOnSet(g, T)
                      >= SumFunctionOnSet(f, T) * SumFunctionOnSet(f, T)}
<1>1. {} \in P
  BY SumEmpty, FS_EmptySet
<1>2. ASSUME NEW T \in SUBSET S, NEW x \in S \ T, T \in P PROVE T \cup {x} \in P
  <2> DEFINE s == SumFunctionOnSet(f, T)  q == SumFunctionOnSet(g, T)
             k == Cardinality(T)
  <2>1. IsFiniteSet(T) /\ T \cup {x} \in SUBSET S /\ (k = 0 => T = {})
    BY FS_Subset, FS_EmptySet
  <2>2. SumFunctionOnSet(f, T \cup {x}) = f[x] + s /\ s \in Int
    BY <2>1, SumInsert, SumType
  <2>3. SumFunctionOnSet(g, T \cup {x}) = g[x] + q /\ q \in Int
    <3>1. \A i \in T \cup {x} : g[i] \in Int
      OBVIOUS
    <3> QED BY <2>1, <3>1, SumInsert, SumType
  <2>4. Cardinality(T \cup {x}) = k + 1 /\ k \in Nat
    BY <2>1, FS_AddElement, FS_CardinalityType
  <2>5. k * q >= s * s /\ (k = 0 => s = 0 /\ q = 0)
    BY <1>2, <2>1, SumEmpty
  <2> HIDE DEF s, q, k
  <2>6. (k + 1) * (f[x] * f[x] + q) >= (f[x] + s) * (f[x] + s)
    BY <2>2, <2>3, <2>4, <2>5, OneMoreSquare
  <2> QED BY <2>1, <2>2, <2>3, <2>4, <2>6
<1> HIDE DEF P
<1>3. S \in P
  BY <1>1, <1>2, FiniteSubsets
<1> QED BY <1>3 DEF P
=============================================================================
