-------------------------- MODULE Findings_proofs --------------------------
(***************************************************************************)
(* Proofs about the analysis: the searches of ModuleGraph, for any number   *)
(* of files, any tables and any depth and limit, find what definitions      *)
(* without a queue say, and so do the answers of Findings made from them;   *)
(* and the scanners of SourceText find in a text of any length the block    *)
(* that its lexemes make.                                                  *)
(***************************************************************************)
EXTENDS DeadCodeReads, SourceText, FiniteSetTheorems, FunctionTheorems, SequenceTheorems, WellFoundedInduction, TLAPS

(***************************************************************************)
(* Numbers and sorted sets.                                                *)
(***************************************************************************)
(* The least-number principle, for a set.                                  *)
LEMMA SmallestOf == ASSUME NEW T \in SUBSET Nat, T # {} PROVE \E m \in T : \A n \in T : m <= n
<1>1. IsWellFoundedOn({p \in Nat \X Nat : p[1] < p[2]}, Nat)
  BY NatLessThanWellFounded DEF OpToRel
<1>2. PICK m \in T : \A n \in T : <<n, m>> \notin {p \in Nat \X Nat : p[1] < p[2]}
  BY <1>1, WFMin, Zenon
<1>3. ASSUME NEW n \in T PROVE m <= n
  <2>1. m \in Nat /\ n \in Nat /\ <<n, m>> \notin {p \in Nat \X Nat : p[1] < p[2]}
    BY <1>2
  <2>2. QED
    BY <2>1
<1>4. QED
  BY <1>3

(* Induction for a set of numbers.                                         *)
LEMMA AllNumbers ==
  ASSUME NEW T \in SUBSET Nat, 0 \in T, \A n \in T : n + 1 \in T
  PROVE  T = Nat
<1>1. SUFFICES ASSUME Nat \ T # {} PROVE FALSE
  OBVIOUS
<1>2. PICK m \in Nat \ T : \A n \in Nat \ T : m <= n
  BY <1>1, SmallestOf
<1>3. m - 1 \in T
  BY <1>2
<1>4. QED
  BY <1>2, <1>3

LEMMA IntervalIsFinite == ASSUME NEW n \in Nat PROVE IsFiniteSet(1..n) /\ Cardinality(1..n) = n
<1>1. 1 \in Int /\ n \in Int /\ (IF 1 > n THEN 0 ELSE n - 1 + 1) = n
  OBVIOUS
<1>2. QED
  BY <1>1, FS_Interval

(* The least and the greatest of a set.                                    *)
LEMMA LeastIs == ASSUME NEW S \in SUBSET Nat, S # {} PROVE Min(S) \in S /\ \A x \in S : Min(S) <= x
<1>1. PICK m \in S : \A n \in S : m <= n
  BY SmallestOf
<1>2. Min(S) = CHOOSE x \in S : \A y \in S : x =< y
  BY DEF Min
<1>3. QED
  BY <1>1, <1>2

LEMMA MaxOf ==
  ASSUME NEW n \in Nat, NEW S \in SUBSET (0..n), S # {}
  PROVE  Max(S) \in S /\ \A x \in S : x <= Max(S)
<1>1. PICK T : T = {k \in Nat : \E x \in S : k = n - x}
  OBVIOUS
<1>2. \A x \in S : x \in Int /\ n - x \in T
  BY <1>1
<1>3. T \in SUBSET Nat /\ T # {}
  BY <1>1, <1>2
<1>4. PICK m \in T : \A k \in T : m <= k
  BY ONLY <1>3, SmallestOf
<1>5. PICK y \in S : m = n - y
  BY <1>1
<1>6. \A x \in S : x <= y
  BY <1>2, <1>4, <1>5
<1>7. Max(S) = CHOOSE x \in S : \A z \in S : x >= z
  BY DEF Max
<1>8. \A x \in S : y >= x
  BY <1>2, <1>6
<1>9. Max(S) \in S /\ \A z \in S : Max(S) >= z
  BY <1>7, <1>8
<1>10. QED
  BY <1>2, <1>9

(* What has a place of its own below the size of its set is enumerated in   *)
(* the order of the places.                                                *)
Placed(place, S, n) == place \in [S -> 0..(n - 1)] /\ \A x, y \in S : place[x] = place[y] => x = y
TakesByPlace(e, place, S, n) ==
  /\ e = [i \in 1..n |-> e[i]]
  /\ \A i \in 1..n : (\E x \in S : place[x] = i - 1) => e[i] \in S /\ place[e[i]] = i - 1

LEMMA EnumerationByPlace ==
  ASSUME NEW S, IsFiniteSet(S), NEW n, n = Cardinality(S), NEW place, Placed(place, S, n),
         NEW e, TakesByPlace(e, place, S, n)
  PROVE  /\ n \in Nat
         /\ e \in Bijection(1..n, S)
         /\ \A i \in 1..n : place[e[i]] = i - 1
<1> USE DEF Placed, TakesByPlace
<1>1. n \in Nat
  BY FS_CardinalityType
<1>2. \A k \in 0..(n - 1) : \E x \in S : place[x] = k
  <2>1. IsFiniteSet(0..(n - 1)) /\ Cardinality(0..(n - 1)) = n
    <3>1. n - 1 \in Int /\ 0 \in Int /\ (IF 0 > n - 1 THEN 0 ELSE (n - 1) - 0 + 1) = n
      BY <1>1
    <3>2. QED
      BY <3>1, FS_Interval
  <2>2. place \in Injection(S, 0..(n - 1))
    BY Fun_IsInj
  <2>3. place \in Surjection(S, 0..(n - 1))
    BY <2>1, <2>2, FS_Injection
  <2>4. QED
    BY <2>3 DEF Surjection
<1>3. ASSUME NEW i \in 1..n PROVE e[i] \in S /\ place[e[i]] = i - 1
  <2>1. i - 1 \in 0..(n - 1)
    BY <1>1
  <2>2. PICK x \in S : place[x] = i - 1
    BY <1>2, <2>1
  <2>3. QED
    BY <2>2
<1>4. e \in [1..n -> S]
  BY <1>3
<1>5. \A i, j \in 1..n : e[i] = e[j] => i = j
  <2>1. TAKE i, j \in 1..n
  <2>2. e[i] = e[j] => i - 1 = j - 1
    BY <1>3
  <2>3. QED
    BY <1>1, <2>2
<1>6. \A x \in S : \E i \in 1..n : e[i] = x
  <2>1. TAKE x \in S
  <2>2. place[x] \in 0..(n - 1)
    OBVIOUS
  <2>3. place[x] + 1 \in 1..n /\ (place[x] + 1) - 1 = place[x]
    BY <1>1, <2>2
  <2>4. e[place[x] + 1] \in S /\ place[e[place[x] + 1]] = place[x]
    BY <1>3, <2>3
  <2>5. e[place[x] + 1] = x
    BY <2>4
  <2>6. QED
    BY <2>3, <2>5
<1>7. e \in Bijection(1..n, S)
  BY <1>4, <1>5, <1>6, Zenon DEF Bijection, Injection, Surjection, IsInjective
<1>8. QED
  BY <1>1, <1>3, <1>7

(* A finite set with a strict total order R is enumerated by the number of  *)
(* elements below each.                                                    *)
StrictOrder(R, S) ==
  /\ \A x \in S : <<x, x>> \notin R
  /\ \A x, y, z \in S : <<x, y>> \in R /\ <<y, z>> \in R => <<x, z>> \in R
  /\ \A x, y \in S : x = y \/ <<x, y>> \in R \/ <<y, x>> \in R
InOrder(S, R) == [i \in 1..Cardinality(S) |-> CHOOSE x \in S : Cardinality({y \in S : <<y, x>> \in R}) = i - 1]
EnumeratesBy(e, S, R) ==
  /\ Cardinality(S) \in Nat
  /\ e \in Bijection(1..Cardinality(S), S)
  /\ \A i, j \in 1..Cardinality(S) : i < j => <<e[i], e[j]>> \in R

LEMMA Enumeration ==
  ASSUME NEW S, IsFiniteSet(S), NEW R, StrictOrder(R, S)
  PROVE  EnumeratesBy(InOrder(S, R), S, R)
<1> DEFINE e == InOrder(S, R)
           n == Cardinality(S)
           below(x) == {y \in S : <<y, x>> \in R}
           place == [x \in S |-> Cardinality(below(x))]
<1>0. /\ \A x \in S : <<x, x>> \notin R
      /\ \A x, y, z \in S : <<x, y>> \in R /\ <<y, z>> \in R => <<x, z>> \in R
      /\ \A x, y \in S : x = y \/ <<x, y>> \in R \/ <<y, x>> \in R
  BY DEF StrictOrder
<1>1. n \in Nat /\ \A x \in S : IsFiniteSet(below(x)) /\ Cardinality(below(x)) \in Nat
  <2>1. \A x \in S : below(x) \subseteq S
    OBVIOUS
  <2>2. QED
    BY <2>1, FS_Subset, FS_CardinalityType
<1>2. ASSUME NEW x \in S, NEW y \in S, <<x, y>> \in R
      PROVE  Cardinality(below(x)) < Cardinality(below(y))
  <2>1. below(x) \subseteq below(y) /\ x \in below(y) /\ x \notin below(x)
    BY <1>0, <1>2
  <2> HIDE DEF below
  <2>2. Cardinality(below(x)) <= Cardinality(below(y)) /\ Cardinality(below(x)) # Cardinality(below(y))
    BY <1>1, <2>1, FS_Subset
  <2>3. QED
    BY <1>1, <2>2
<1>3. ASSUME NEW x \in S PROVE Cardinality(below(x)) \in 0..(n - 1)
  <2>1. below(x) \subseteq S /\ x \notin below(x)
    BY <1>0
  <2> HIDE DEF below
  <2>2. Cardinality(below(x)) <= n /\ Cardinality(below(x)) # n
    BY <2>1, FS_Subset
  <2> HIDE DEF n
  <2>3. QED
    BY <1>1, <2>2
<1>4. e = [i \in 1..n |-> e[i]] /\ \A i \in 1..n : e[i] = CHOOSE x \in S : place[x] = i - 1
  <2>1. \A i \in 1..n : e[i] = CHOOSE x \in S : Cardinality(below(x)) = i - 1
    BY DEF InOrder
  <2>2. \A x \in S : place[x] = Cardinality(below(x))
    OBVIOUS
  <2>3. e = [i \in 1..n |-> e[i]]
    <3> DEFINE At(i) == CHOOSE x \in S : Cardinality(below(x)) = i - 1
    <3>1. e = [i \in 1..n |-> At(i)]
      BY DEF InOrder
    <3> HIDE DEF At, n
    <3>2. QED
      BY <3>1
  <2> HIDE DEF place, below, n
  <2>4. \A i : (CHOOSE x \in S : Cardinality(below(x)) = i - 1) = (CHOOSE x \in S : place[x] = i - 1)
    BY <2>2, Zenon
  <2>5. QED
    BY <2>1, <2>3, <2>4, Zenon
<1> HIDE DEF below, n, e
<1>5. place \in [S -> 0..(n - 1)] /\ \A x \in S : place[x] = Cardinality(below(x))
  BY <1>3
<1> HIDE DEF place
<1>6. \A x, y \in S : place[x] = place[y] => x = y
  <2>1. SUFFICES ASSUME NEW x \in S, NEW y \in S, x # y PROVE place[x] # place[y]
    OBVIOUS
  <2>2. Cardinality(below(x)) < Cardinality(below(y)) \/ Cardinality(below(y)) < Cardinality(below(x))
    BY <1>0, <1>2, <2>1
  <2>3. QED
    BY <1>1, <1>5, <2>2
<1>7. e \in Bijection(1..n, S) /\ \A i \in 1..n : place[e[i]] = i - 1
  <2>1. n = Cardinality(S) /\ place \in [S -> 0..(n - 1)]
    BY <1>5 DEF n
  <2>2. /\ e = [i \in 1..n |-> e[i]]
        /\ \A i \in 1..n : (\E x \in S : place[x] = i - 1) => e[i] \in S /\ place[e[i]] = i - 1
    BY <1>4
  <2>3. \A x, y \in S : place[x] = place[y] => x = y
    BY <1>6
  <2>4. Placed(place, S, n) /\ TakesByPlace(e, place, S, n)
    BY <2>1, <2>2, <2>3 DEF Placed, TakesByPlace
  <2> HIDE DEF n, below, place
  <2>5. QED
    BY ONLY IsFiniteSet(S), <2>1, <2>4, EnumerationByPlace
<1>8. ASSUME NEW i \in 1..n, NEW j \in 1..n, i < j PROVE <<e[i], e[j]>> \in R
  <2>1. e[i] \in S /\ e[j] \in S
    BY <1>7 DEF Bijection, Injection
  <2>2. place[e[i]] = i - 1 /\ place[e[j]] = j - 1
    BY <1>7
  <2>3. Cardinality(below(e[i])) < Cardinality(below(e[j]))
    BY <1>1, <1>5, <1>8, <2>1, <2>2
  <2>4. e[i] # e[j]
    BY <1>1, <1>8, <2>2
  <2>5. <<e[j], e[i]>> \notin R
    <3>1. PICK a \in S, b \in S : a = e[i] /\ b = e[j]
      BY <2>1
    <3>2. ~(Cardinality(below(b)) < Cardinality(below(a)))
      BY <1>1, <2>3, <3>1
    <3>3. QED
      BY <1>2, <3>1, <3>2
  <2>6. QED
    BY <1>0, <2>1, <2>4, <2>5
<1>9. QED
  BY <1>1, <1>7, <1>8 DEF n, e, EnumeratesBy

(* A finite set of numbers, sorted: all of it, each once, in order.         *)
LEMMA SortedFacts ==
  ASSUME NEW S \in SUBSET Int, IsFiniteSet(S)
  PROVE  /\ Cardinality(S) \in Nat
         /\ Sorted(S) \in Seq(S) /\ Len(Sorted(S)) = Cardinality(S)
         /\ \A x \in S : \E i \in 1..Len(Sorted(S)) : Sorted(S)[i] = x
         /\ \A i, j \in 1..Len(Sorted(S)) : i < j => Sorted(S)[i] < Sorted(S)[j]
<1> DEFINE R == {p \in S \X S : p[1] < p[2]}
           n == Cardinality(S)
           e == [i \in 1..n |-> CHOOSE x \in S : Cardinality({y \in S : <<y, x>> \in R}) = i - 1]
<1>1. ASSUME NEW x \in S PROVE {y \in S : y < x} = {y \in S : <<y, x>> \in R}
  OBVIOUS
<1>2. Sorted(S) = [i \in 1..n |-> CHOOSE x \in S : Cardinality({y \in S : y < x}) = i - 1]
  BY DEF Sorted, SortedBy
<1>3. Sorted(S) = e
  BY <1>1, <1>2, Zenon
<1>4. /\ \A x \in S : <<x, x>> \notin R
      /\ \A x, y, z \in S : <<x, y>> \in R /\ <<y, z>> \in R => <<x, z>> \in R
      /\ \A x, y \in S : x = y \/ <<x, y>> \in R \/ <<y, x>> \in R
      /\ \A x, y \in S : <<x, y>> \in R <=> x < y
  OBVIOUS
<1> HIDE DEF R
<1>5. /\ n \in Nat
      /\ e \in Bijection(1..n, S)
      /\ \A i, j \in 1..n : i < j => <<e[i], e[j]>> \in R
  <2>1. StrictOrder(R, S) /\ e = InOrder(S, R)
    BY <1>4 DEF StrictOrder, InOrder
  <2>2. EnumeratesBy(e, S, R)
    BY <2>1, Enumeration
  <2>3. QED
    BY <2>2 DEF EnumeratesBy
<1> HIDE DEF e, n
<1>6. /\ e \in [1..n -> S]
      /\ \A x \in S : \E i \in 1..n : e[i] = x
  BY <1>5 DEF Bijection, Injection, Surjection
<1>7. e \in Seq(S) /\ Len(e) = n
  BY <1>5, <1>6
<1>8. \A i, j \in 1..n : i < j => e[i] < e[j]
  BY <1>4, <1>5, <1>6
<1>9. QED
  BY <1>3, <1>5, <1>6, <1>7, <1>8 DEF n

(***************************************************************************)
(* Recursive functions over the numbers exist, and so are what their        *)
(* definitions say.                                                        *)
(***************************************************************************)
Follows(g, n, S, start, step) ==
  g \in [0..n -> S] /\ g[0] = start /\ \A k \in 0..(n - 1) : g[k + 1] = step[g[k]]

Iteration(f, S, start, step) ==
  f \in [Nat -> S] /\ f[0] = start /\ \A n \in Nat : f[n + 1] = step[f[n]]

LEMMA OneStepMore ==
  ASSUME NEW S, NEW step \in [S -> S], NEW start \in S, NEW n \in Nat, NEW g, Follows(g, n, S, start, step)
  PROVE  \E h : Follows(h, n + 1, S, start, step)
<1> DEFINE h == [k \in 0..(n + 1) |-> IF k = n + 1 THEN step[g[n]] ELSE g[k]]
<1>1. g \in [0..n -> S] /\ g[0] = start /\ \A k \in 0..(n - 1) : g[k + 1] = step[g[k]]
  BY DEF Follows
<1>2. h \in [0..(n + 1) -> S]
  <2>1. ASSUME NEW k \in 0..(n + 1) PROVE (IF k = n + 1 THEN step[g[n]] ELSE g[k]) \in S
    <3>1. n \in 0..n /\ (k # n + 1 => k \in 0..n)
      OBVIOUS
    <3>2. QED
      BY <1>1, <3>1
  <2>2. QED
    BY <2>1
<1>3. h[0] = start
  BY <1>1
<1>4. ASSUME NEW k \in 0..((n + 1) - 1) PROVE h[k + 1] = step[h[k]]
  <2>1. k \in 0..(n + 1) /\ k + 1 \in 0..(n + 1) /\ k # n + 1 /\ (k # n => k \in 0..(n - 1)) /\ (k + 1 = n + 1 <=> k = n)
    OBVIOUS
  <2>2. h[k] = g[k] /\ h[k + 1] = IF k = n THEN step[g[n]] ELSE g[k + 1]
    BY <2>1
  <2>3. QED
    BY <1>1, <2>1, <2>2
<1> HIDE DEF h
<1>5. QED
  BY <1>2, <1>3, <1>4 DEF Follows

LEMMA FollowersAgree ==
  ASSUME NEW S, NEW step \in [S -> S], NEW start \in S, NEW n \in Nat, NEW m \in Nat, n <= m,
         NEW g, Follows(g, n, S, start, step), NEW h, Follows(h, m, S, start, step)
  PROVE  \A k \in 0..n : g[k] = h[k]
<1> DEFINE T == {k \in Nat : k <= n => g[k] = h[k]}
<1>1. 0 \in T
  BY DEF Follows
<1>2. ASSUME NEW k \in T PROVE k + 1 \in T
  <2>1. SUFFICES ASSUME k + 1 <= n PROVE g[k + 1] = h[k + 1]
    OBVIOUS
  <2>2. k \in 0..(n - 1) /\ k \in 0..(m - 1) /\ g[k] = h[k]
    BY <2>1
  <2>3. QED
    BY <2>2 DEF Follows
<1> HIDE DEF T
<1>3. T = Nat
  BY <1>1, <1>2, AllNumbers DEF T
<1>4. QED
  BY <1>3 DEF T

LEMMA Iterated ==
  ASSUME NEW S, NEW step \in [S -> S], NEW start \in S
  PROVE  \E f : Iteration(f, S, start, step)
<1> USE DEF Iteration
<1> DEFINE T == {n \in Nat : \E g : Follows(g, n, S, start, step)}
           G(n) == CHOOSE g : Follows(g, n, S, start, step)
           f == [n \in Nat |-> G(n)[n]]
<1>1. 0 \in T
  <2>1. Follows([k \in 0..0 |-> start], 0, S, start, step)
    BY DEF Follows
  <2>2. QED
    BY <2>1
<1>2. \A n \in T : n + 1 \in T
  BY OneStepMore
<1>3. T = Nat
  <2> HIDE DEF T
  <2>1. T \subseteq Nat
    BY DEF T
  <2>2. QED
    BY <1>1, <1>2, <2>1, AllNumbers
<1>4. \A n \in Nat : Follows(G(n), n, S, start, step)
  BY <1>3
<1> HIDE DEF T, G
<1>5. ASSUME NEW n \in Nat PROVE G(n)[n] \in S
  BY <1>4 DEF Follows
<1>6. f \in [Nat -> S]
  BY <1>5
<1>7. f[0] = start
  BY <1>4 DEF Follows
<1>8. ASSUME NEW n \in Nat PROVE f[n + 1] = step[f[n]]
  <2>1. Follows(G(n), n, S, start, step) /\ Follows(G(n + 1), n + 1, S, start, step) /\ n <= n + 1 /\ n \in 0..n
    BY <1>4
  <2>2. G(n)[n] = G(n + 1)[n]
    BY <2>1, FollowersAgree
  <2>3. G(n + 1)[n + 1] = step[G(n + 1)[n]]
    <3>1. n \in 0..((n + 1) - 1)
      OBVIOUS
    <3>2. QED
      BY <2>1, <3>1 DEF Follows
  <2>4. QED
    BY <2>2, <2>3
<1>9. QED
  BY <1>6, <1>7, <1>8

(***************************************************************************)
(* The files at most n edges away.                                         *)
(***************************************************************************)
OneEdgeOn(edges, X) == X \cup UNION {edges[f] : f \in X}

LEMMA BallSteps ==
  ASSUME NEW edges \in [Files -> SUBSET Files], NEW S \in SUBSET Files
  PROVE  /\ Ball(edges, S, 0) = S
         /\ \A n \in Nat : /\ Ball(edges, S, n) \in SUBSET Files
                           /\ Ball(edges, S, n + 1) = OneEdgeOn(edges, Ball(edges, S, n))
<1> DEFINE At(g, k) == IF k = 0 THEN S ELSE g[k - 1] \cup UNION {edges[f] : f \in g[k - 1]}
           Body(g) == [k \in Nat |-> At(g, k)]
           ball == CHOOSE g : g = Body(g)
           step == [X \in SUBSET Files |-> OneEdgeOn(edges, X)]
<1>1. step \in [SUBSET Files -> SUBSET Files]
  BY DEF OneEdgeOn
<1>2. PICK g : g \in [Nat -> SUBSET Files] /\ g[0] = S /\ \A n \in Nat : g[n + 1] = step[g[n]]
  <2>1. S \in SUBSET Files
    OBVIOUS
  <2> HIDE DEF step
  <2>2. \E g : Iteration(g, SUBSET Files, S, step)
    BY ONLY <1>1, <2>1, Iterated, Zenon
  <2>3. QED
    BY <2>2 DEF Iteration
<1>3. g = Body(g)
  <2>1. ASSUME NEW k \in Nat
        PROVE  g[k] = At(g, k)
    <3>1. CASE k = 0
      BY <1>2, <3>1
    <3>2. CASE k # 0
      <4>1. k - 1 \in Nat /\ (k - 1) + 1 = k
        BY <3>2
      <4>2. g[k] = step[g[k - 1]] /\ g[k - 1] \in SUBSET Files
        BY <1>2, <4>1
      <4>3. QED
        BY <3>2, <4>2 DEF OneEdgeOn
    <3>3. QED
      BY <3>1, <3>2
  <2> HIDE DEF At
  <2>2. g = [k \in Nat |-> g[k]]
    BY <1>2
  <2>3. QED
    BY <2>1, <2>2
<1>4. ball = Body(ball)
  BY <1>3
<1>5. \A n \in Nat : Ball(edges, S, n) = ball[n]
  BY DEF Ball
<1>6. ball[0] = S
  <2> HIDE DEF ball
  <2>1. QED
    BY <1>4
<1>7. ASSUME NEW n \in Nat PROVE ball[n + 1] = OneEdgeOn(edges, ball[n])
  <2> HIDE DEF ball
  <2>1. n + 1 \in Nat /\ n + 1 # 0 /\ (n + 1) - 1 = n
    OBVIOUS
  <2>2. QED
    BY <1>4, <2>1 DEF OneEdgeOn
<1>8. \A n \in Nat : ball[n] \in SUBSET Files
  <2> HIDE DEF ball, Body
  <2> DEFINE T == {n \in Nat : ball[n] \in SUBSET Files}
  <2>1. 0 \in T
    BY <1>6
  <2>2. \A n \in T : n + 1 \in T
    <3>1. TAKE n \in T
    <3>2. n \in Nat /\ ball[n] \in SUBSET Files /\ ball[n + 1] = OneEdgeOn(edges, ball[n])
      BY <1>7
    <3>3. OneEdgeOn(edges, ball[n]) \in SUBSET Files
      BY <3>2 DEF OneEdgeOn
    <3>4. QED
      BY <3>2, <3>3
  <2> HIDE DEF T
  <2>3. T = Nat
    <3>1. T \subseteq Nat
      BY DEF T
    <3>2. QED
      BY <2>1, <2>2, <3>1, AllNumbers
  <2>4. QED
    BY <2>3 DEF T
<1> HIDE DEF ball, Body
<1>9. QED
  BY <1>5, <1>6, <1>7, <1>8

LEMMA BallGrows ==
  ASSUME NEW edges \in [Files -> SUBSET Files], NEW S \in SUBSET Files, NEW m \in Nat, NEW n \in Nat, m <= n
  PROVE  Ball(edges, S, m) \subseteq Ball(edges, S, n)
<1> DEFINE B(k) == Ball(edges, S, k)
           T == {k \in Nat : B(m) \subseteq B(m + k)}
<1>1. \A k \in Nat : B(k + 1) = OneEdgeOn(edges, B(k))
  BY BallSteps
<1> HIDE DEF B
<1>2. 0 \in T
  BY DEF T
<1>3. ASSUME NEW k \in T PROVE k + 1 \in T
  <2>1. m + k \in Nat /\ m + (k + 1) = (m + k) + 1 /\ k + 1 \in Nat /\ B(m) \subseteq B(m + k)
    OBVIOUS
  <2>2. B(m + k) \subseteq B((m + k) + 1)
    BY <1>1, <2>1 DEF OneEdgeOn
  <2>3. QED
    BY <2>1, <2>2
<1>4. T = Nat
  <2>1. T \subseteq Nat
    OBVIOUS
  <2> HIDE DEF T
  <2>2. QED
    BY <1>2, <1>3, <2>1, AllNumbers
<1>5. n - m \in T /\ m + (n - m) = n
  <2>1. n - m \in Nat /\ m + (n - m) = n
    OBVIOUS
  <2> HIDE DEF T
  <2>2. QED
    BY <1>4, <2>1
<1>6. B(m) \subseteq B(n)
  BY <1>5
<1>7. QED
  BY <1>6 DEF B

(* Closed: no edge leads out of it.  A ball lies in every closed set its    *)
(* middle lies in, and one of as many edges as there are files is closed.   *)
Closed(edges, X) == \A f \in X : edges[f] \subseteq X

LEMMA BallIsLeast ==
  ASSUME NEW edges \in [Files -> SUBSET Files], NEW S \in SUBSET Files, NEW X, S \subseteq X, Closed(edges, X), NEW n \in Nat
  PROVE  Ball(edges, S, n) \subseteq X
<1> DEFINE B(k) == Ball(edges, S, k)
           T == {k \in Nat : B(k) \subseteq X}
<1>1. B(0) = S /\ \A k \in Nat : B(k + 1) = OneEdgeOn(edges, B(k))
  BY BallSteps
<1> HIDE DEF B
<1>2. 0 \in T
  BY <1>1
<1>3. ASSUME NEW k \in T PROVE k + 1 \in T
  BY <1>1 DEF OneEdgeOn, Closed
<1>4. T = Nat
  <2>1. T \subseteq Nat
    OBVIOUS
  <2> HIDE DEF T
  <2>2. QED
    BY <1>2, <1>3, <2>1, AllNumbers
<1>5. B(n) \subseteq X
  <2>1. n \in T
    BY <1>4
  <2>2. QED
    BY <2>1
<1>6. QED
  BY <1>5 DEF B

LEMMA FilesAreFinite == IsFiniteSet(Files) /\ Cardinality(Files) = NFiles
<1>1. NFiles \in Nat /\ 1 \in Int /\ (IF 1 > NFiles THEN 0 ELSE NFiles - 1 + 1) = NFiles
  BY PathsAssumption
<1>2. QED
  BY <1>1, FS_Interval DEF Files

LEMMA BallCloses ==
  ASSUME NEW edges \in [Files -> SUBSET Files], NEW S \in SUBSET Files
  PROVE  Closed(edges, Ball(edges, S, NFiles))
<1> DEFINE B(k) == Ball(edges, S, k)
           T == {k \in Nat : Closed(edges, B(k)) \/ Cardinality(B(k)) >= k}
<1>1. \A k \in Nat : B(k) \in SUBSET Files /\ B(k + 1) = OneEdgeOn(edges, B(k))
  BY BallSteps
<1> HIDE DEF B
<1>2. \A k \in Nat : IsFiniteSet(B(k)) /\ Cardinality(B(k)) \in Nat
  BY <1>1, FilesAreFinite, FS_Subset, FS_CardinalityType
<1>3. 0 \in T
  BY <1>2
<1>4. ASSUME NEW k \in T PROVE k + 1 \in T
  <2>1. CASE Closed(edges, B(k))
    <3>1. B(k + 1) = B(k)
      BY <1>1, <2>1 DEF OneEdgeOn, Closed
    <3>2. QED
      BY <2>1, <3>1
  <2>2. CASE ~Closed(edges, B(k))
    <3>1. B(k) \subseteq B(k + 1) /\ B(k) # B(k + 1)
      BY <1>1, <2>2 DEF OneEdgeOn, Closed
    <3>2. Cardinality(B(k)) <= Cardinality(B(k + 1)) /\ Cardinality(B(k)) # Cardinality(B(k + 1))
      BY <1>2, <3>1, FS_Subset
    <3>3. Cardinality(B(k)) \in Nat /\ Cardinality(B(k + 1)) \in Nat /\ Cardinality(B(k)) >= k
      BY <1>2, <2>2
    <3>4. QED
      BY <3>2, <3>3
  <2>3. QED
    BY <2>1, <2>2
<1>5. T = Nat
  <2>1. T \subseteq Nat
    OBVIOUS
  <2> HIDE DEF T
  <2>2. QED
    BY <1>3, <1>4, <2>1, AllNumbers
<1>6. NFiles \in Nat
  BY PathsAssumption
<1>7. Closed(edges, B(NFiles)) \/ Cardinality(B(NFiles)) >= NFiles
  BY <1>5, <1>6
<1>8. CASE Cardinality(B(NFiles)) >= NFiles
  <2>1. B(NFiles) \subseteq Files
    BY <1>1, <1>6
  <2>2. Cardinality(B(NFiles)) <= NFiles /\ (Cardinality(B(NFiles)) = NFiles => B(NFiles) = Files)
    BY <2>1, FilesAreFinite, FS_Subset
  <2>3. B(NFiles) = Files
    BY <1>2, <1>6, <1>8, <2>2
  <2>4. QED
    BY <2>3 DEF Closed, B
<1>9. QED
  BY <1>7, <1>8 DEF B

LEMMA BallOfMany ==
  ASSUME NEW edges \in [Files -> SUBSET Files], NEW S \in SUBSET Files, NEW n \in Nat
  PROVE  Ball(edges, S, n) = UNION {Ball(edges, {f}, n) : f \in S}
<1> DEFINE B(k) == Ball(edges, S, k)
           Of(f, k) == Ball(edges, {f}, k)
           T == {k \in Nat : B(k) = UNION {Of(f, k) : f \in S}}
<1>1. B(0) = S /\ \A k \in Nat : B(k + 1) = OneEdgeOn(edges, B(k))
  BY BallSteps
<1>2. \A f \in S : Of(f, 0) = {f} /\ \A k \in Nat : Of(f, k + 1) = OneEdgeOn(edges, Of(f, k))
  <2>1. TAKE f \in S
  <2>2. {f} \in SUBSET Files
    OBVIOUS
  <2>3. QED
    BY <2>2, BallSteps
<1> HIDE DEF B, Of
<1>3. 0 \in T
  BY <1>1, <1>2
<1>4. ASSUME NEW k \in T PROVE k + 1 \in T
  <2>1. k \in Nat /\ B(k) = UNION {Of(f, k) : f \in S}
    OBVIOUS
  <2>2. ASSUME NEW x \in B(k + 1) PROVE \E f \in S : x \in Of(f, k + 1)
    <3>1. x \in B(k) \/ \E y \in B(k) : x \in edges[y]
      BY <1>1, <2>1 DEF OneEdgeOn
    <3>2. QED
      BY <1>2, <2>1, <3>1 DEF OneEdgeOn
  <2>3. ASSUME NEW f \in S, NEW x \in Of(f, k + 1) PROVE x \in B(k + 1)
    <3>1. x \in Of(f, k) \/ \E y \in Of(f, k) : x \in edges[y]
      BY <1>2, <2>1 DEF OneEdgeOn
    <3>2. QED
      BY <1>1, <2>1, <3>1 DEF OneEdgeOn
  <2>4. B(k + 1) = UNION {Of(f, k + 1) : f \in S}
    BY <2>2, <2>3
  <2>5. QED
    BY <2>1, <2>4
<1>5. T = Nat
  <2>1. T \subseteq Nat
    OBVIOUS
  <2> HIDE DEF T
  <2>2. QED
    BY <1>3, <1>4, <2>1, AllNumbers
<1>6. B(n) = UNION {Of(f, n) : f \in S}
  BY <1>5
<1>7. QED
  BY <1>6 DEF B, Of

(***************************************************************************)
(* The search by depth.                                                    *)
(***************************************************************************)
Entries  == [file : Files, depth : Nat]
Searches == [queue : Seq(Entries), visited : SUBSET Files]
NewFiles(neighbors, maxDepth, s) ==
  IF Head(s.queue).depth >= maxDepth THEN {} ELSE neighbors[Head(s.queue).file] \ s.visited

LEMMA QueueAfter ==
  ASSUME NEW E, NEW q \in Seq(E), q # <<>>, NEW p \in Seq(E), NEW r, r = Tail(q) \o p
  PROVE  /\ r \in Seq(E) /\ Len(r) = Len(q) - 1 + Len(p) /\ Len(q) >= 1
         /\ \A i \in 1..(Len(q) - 1) : r[i] = q[i + 1]
         /\ \A i \in Len(q)..Len(r) : r[i] = p[i - Len(q) + 1]
  OBVIOUS

(* The files of a set, sorted, as a part of a queue.                       *)
LEMMA SortedFiles ==
  ASSUME NEW X \in SUBSET Files
  PROVE  /\ Sorted(X) \in Seq(Files) /\ Len(Sorted(X)) = Cardinality(X) /\ Cardinality(X) \in Nat
         /\ \A i \in 1..Len(Sorted(X)) : Sorted(X)[i] \in X
         /\ \A x \in X : \E i \in 1..Len(Sorted(X)) : Sorted(X)[i] = x
<1>1. IsFiniteSet(X)
  BY FilesAreFinite, FS_Subset
<1>2. Files \subseteq Int
  BY PathsAssumption DEF Files
<1>3. /\ Cardinality(X) \in Nat
      /\ Sorted(X) \in Seq(X) /\ Len(Sorted(X)) = Cardinality(X)
      /\ \A x \in X : \E i \in 1..Len(Sorted(X)) : Sorted(X)[i] = x
  <2>1. X \in SUBSET Int
    BY <1>2
  <2>2. QED
    BY ONLY <1>1, <2>1, SortedFacts
<1>4. PICK q : q = Sorted(X)
  OBVIOUS
<1>5. q \in Seq(Files) /\ \A i \in 1..Len(q) : q[i] \in X
  BY <1>3, <1>4
<1>6. QED
  BY <1>3, <1>4, <1>5

LEMMA EntriesOf ==
  ASSUME NEW X \in SUBSET Files, NEW d \in Nat,
         NEW p, p = [i \in DOMAIN Sorted(X) |-> [file |-> Sorted(X)[i], depth |-> d]]
  PROVE  /\ p \in Seq(Entries) /\ Len(p) = Cardinality(X) /\ Cardinality(X) \in Nat
         /\ \A i \in 1..Len(p) : p[i].file \in X /\ p[i].depth = d
         /\ \A x \in X : \E i \in 1..Len(p) : p[i].file = x
<1>1. PICK q : q = Sorted(X)
  OBVIOUS
<1>2. /\ q \in Seq(Files) /\ Len(q) = Cardinality(X) /\ Cardinality(X) \in Nat
      /\ \A i \in 1..Len(q) : q[i] \in X
      /\ \A x \in X : \E i \in 1..Len(q) : q[i] = x
  BY <1>1, SortedFiles
<1>3. p = [i \in 1..Len(q) |-> [file |-> q[i], depth |-> d]]
  BY <1>1, <1>2
<1>4. \A i \in 1..Len(q) : p[i] = [file |-> q[i], depth |-> d] /\ p[i] \in Entries
  BY <1>2, <1>3 DEF Entries
<1>5. p \in Seq(Entries) /\ Len(p) = Len(q)
  <2>1. p = [i \in 1..Len(q) |-> p[i]] /\ Len(q) \in Nat /\ \A i \in 1..Len(q) : p[i] \in Entries
    BY <1>2, <1>3, <1>4
  <2>2. QED
    BY ONLY <2>1
<1>6. ASSUME NEW i \in 1..Len(p) PROVE p[i].file = q[i] /\ p[i].depth = d
  <2>1. p[i] = [file |-> q[i], depth |-> d]
    BY <1>4, <1>5
  <2>2. QED
    BY ONLY <2>1
<1>7. \A x \in X : \E i \in 1..Len(p) : p[i].file = x
  BY <1>2, <1>5, <1>6
<1>8. \A i \in 1..Len(p) : p[i].file \in X
  BY <1>2, <1>5, <1>6
<1>9. QED
  BY <1>2, <1>5, <1>6, <1>7, <1>8

TurnTo(s, t, new) ==
  /\ t \in Searches /\ new \in SUBSET Files
  /\ t.visited = s.visited \cup new
  /\ Len(s.queue) >= 1 /\ Cardinality(new) \in Nat /\ Len(t.queue) = Len(s.queue) - 1 + Cardinality(new)
  /\ \A i \in 1..(Len(s.queue) - 1) : t.queue[i] = s.queue[i + 1]
  /\ \A i \in Len(s.queue)..Len(t.queue) : t.queue[i].file \in new /\ t.queue[i].depth = s.queue[1].depth + 1
  /\ \A x \in new : \E i \in Len(s.queue)..Len(t.queue) : t.queue[i].file = x

LEMMA TurnFacts ==
  ASSUME NEW neighbors \in [Files -> SUBSET Files], NEW maxDepth \in Nat, NEW s \in Searches, s.queue # <<>>,
         NEW t, t = SearchTurn(neighbors, maxDepth, s), NEW new, new = NewFiles(neighbors, maxDepth, s)
  PROVE  TurnTo(s, t, new)
<1>1. PICK q : q = s.queue
  OBVIOUS
<1>2. q \in Seq(Entries) /\ q # <<>> /\ Head(q) = q[1] /\ q[1] \in Entries /\ s.visited \in SUBSET Files /\ Len(q) \in Nat
  BY <1>1 DEF Searches
<1>3. new \in SUBSET Files
  BY <1>1, <1>2 DEF NewFiles, Entries
<1>4. PICK p : p = [i \in DOMAIN Sorted(new) |-> [file |-> Sorted(new)[i], depth |-> q[1].depth + 1]]
  OBVIOUS
<1>5. q[1].depth + 1 \in Nat
  BY <1>2 DEF Entries
<1>6. /\ p \in Seq(Entries) /\ Len(p) = Cardinality(new) /\ Cardinality(new) \in Nat
      /\ \A i \in 1..Len(p) : p[i].file \in new /\ p[i].depth = q[1].depth + 1
      /\ \A x \in new : \E i \in 1..Len(p) : p[i].file = x
  BY <1>3, <1>4, <1>5, EntriesOf
<1>7. t = [queue |-> Tail(q) \o p, visited |-> s.visited \cup new]
  BY <1>1, <1>2, <1>4 DEF SearchTurn, NewFiles
<1>8. PICK r : r = Tail(q) \o p
  OBVIOUS
<1>9. /\ r \in Seq(Entries) /\ Len(r) = Len(q) - 1 + Len(p) /\ Len(q) >= 1
      /\ \A i \in 1..(Len(q) - 1) : r[i] = q[i + 1]
      /\ \A i \in Len(q)..Len(r) : r[i] = p[i - Len(q) + 1]
  BY <1>2, <1>6, <1>8, QueueAfter
<1>10. t.queue = r /\ t.visited = s.visited \cup new /\ t \in Searches
  BY <1>2, <1>3, <1>7, <1>8, <1>9 DEF Searches
<1>11. \A i \in Len(q)..Len(r) : i - Len(q) + 1 \in 1..Len(p)
  BY <1>2, <1>6, <1>9
<1>12. \A i \in Len(q)..Len(r) : r[i].file \in new /\ r[i].depth = q[1].depth + 1
  BY <1>6, <1>9, <1>11
<1>13. ASSUME NEW x \in new PROVE \E i \in Len(q)..Len(r) : r[i].file = x
  <2>1. PICK j \in 1..Len(p) : p[j].file = x
    BY <1>6
  <2>2. j + Len(q) - 1 \in Len(q)..Len(r) /\ (j + Len(q) - 1) - Len(q) + 1 = j
    BY <1>2, <1>6, <1>9
  <2>3. r[j + Len(q) - 1] = p[j]
    BY <1>9, <2>2
  <2>4. QED
    BY <2>1, <2>2, <2>3
<1>14. QED
  BY <1>1, <1>3, <1>6, <1>9, <1>10, <1>12, <1>13 DEF TurnTo

(* The balls around the seeds, and what holds after n turns: the queue is   *)
(* ordered by depth with two depths at most; a visited file that has to be   *)
(* followed was followed or waits; all files as near as the head were seen.  *)
Balls(neighbors, found, B) ==
  /\ B \in [Nat -> SUBSET Files] /\ B[0] = found
  /\ \A n \in Nat : B[n + 1] = OneEdgeOn(neighbors, B[n])
  /\ \A m, n \in Nat : m <= n => B[m] \subseteq B[n]

Near(maxDepth, B, s) ==
  /\ s.visited \subseteq B[maxDepth]
  /\ \A i \in 1..Len(s.queue) : s.queue[i].depth <= maxDepth
ByDepth(s) ==
  \A i, j \in 1..Len(s.queue) :
    i <= j => s.queue[i].depth <= s.queue[j].depth /\ s.queue[j].depth <= s.queue[i].depth + 1
WasOrWillBeFollowed(neighbors, f, k, s) ==
  neighbors[f] \subseteq s.visited \/ \E i \in 1..Len(s.queue) : s.queue[i].file = f /\ s.queue[i].depth <= k
Followed(neighbors, maxDepth, B, s) ==
  \A k \in 0..(maxDepth - 1) : \A f \in s.visited \cap B[k] : WasOrWillBeFollowed(neighbors, f, k, s)
HeadIsNearest(B, s) == s.queue # <<>> => B[s.queue[1].depth] \subseteq s.visited
QueuedAreNear(B, s) == \A i \in 1..Len(s.queue) : s.queue[i].file \in B[s.queue[i].depth]
TurnsSuffice(s, n) == s.queue = <<>> \/ Len(s.queue) + Cardinality(Files \ s.visited) + n <= NFiles

SearchInv(neighbors, found, maxDepth, B, s, n) ==
  /\ s \in Searches /\ found \subseteq s.visited
  /\ Near(maxDepth, B, s) /\ QueuedAreNear(B, s)
  /\ ByDepth(s) /\ Followed(neighbors, maxDepth, B, s) /\ HeadIsNearest(B, s)
  /\ TurnsSuffice(s, n)

LEMMA BallsExist ==
  ASSUME NEW edges \in [Files -> SUBSET Files], NEW S \in SUBSET Files
  PROVE  Balls(edges, S, [n \in Nat |-> Ball(edges, S, n)])
<1> DEFINE B == [n \in Nat |-> Ball(edges, S, n)]
           Of(n) == Ball(edges, S, n)
<1>1. Of(0) = S /\ \A n \in Nat : Of(n) \in SUBSET Files /\ Of(n + 1) = OneEdgeOn(edges, Of(n))
  BY BallSteps
<1>2. \A m, n \in Nat : m <= n => Of(m) \subseteq Of(n)
  BY BallGrows
<1>3. B = [n \in Nat |-> Of(n)]
  OBVIOUS
<1> HIDE DEF Of, B
<1>4. \A n \in Nat : B[n] = Of(n)
  BY <1>3
<1>5. B \in [Nat -> SUBSET Files]
  BY <1>1, <1>3
<1>6. \A n \in Nat : B[n + 1] = OneEdgeOn(edges, B[n])
  BY <1>1, <1>4
<1>7. \A m, n \in Nat : m <= n => B[m] \subseteq B[n]
  BY <1>2, <1>4
<1>8. Balls(edges, S, B)
  BY <1>1, <1>4, <1>5, <1>6, <1>7 DEF Balls
<1>9. QED
  BY <1>8 DEF B

LEMMA FewerLeft ==
  ASSUME NEW seen \in SUBSET Files, NEW new \in SUBSET Files, new \cap seen = {}
  PROVE  /\ Cardinality(Files \ seen) \in Nat /\ Cardinality(new) \in Nat
         /\ Cardinality(Files \ (seen \cup new)) = Cardinality(Files \ seen) - Cardinality(new)
<1>1. IsFiniteSet(Files \ seen) /\ IsFiniteSet(new)
  BY FilesAreFinite, FS_Subset
<1>2. /\ (Files \ seen) \ new = Files \ (seen \cup new)
      /\ (Files \ seen) \cap new = new
  OBVIOUS
<1>3. Cardinality((Files \ seen) \ new) = Cardinality(Files \ seen) - Cardinality((Files \ seen) \cap new)
  BY <1>1, FS_Difference
<1>4. QED
  BY <1>1, <1>2, <1>3, FS_CardinalityType

LEMMA SearchStarts ==
  ASSUME NEW neighbors \in [Files -> SUBSET Files], NEW maxDepth \in Nat, NEW found \in SUBSET Files,
         NEW B, Balls(neighbors, found, B),
         NEW p, p = [i \in DOMAIN Sorted(found) |-> [file |-> Sorted(found)[i], depth |-> 0]],
         NEW s, s = [queue |-> p, visited |-> found]
  PROVE  SearchInv(neighbors, found, maxDepth, B, s, 0)
<1>1. /\ p \in Seq(Entries) /\ Len(p) = Cardinality(found) /\ Cardinality(found) \in Nat
      /\ \A i \in 1..Len(p) : p[i].file \in found /\ p[i].depth = 0
      /\ \A x \in found : \E i \in 1..Len(p) : p[i].file = x
  <2>1. PICK d \in Nat : d = 0
    OBVIOUS
  <2>2. p = [i \in DOMAIN Sorted(found) |-> [file |-> Sorted(found)[i], depth |-> d]]
    BY <2>1
  <2>3. /\ p \in Seq(Entries) /\ Len(p) = Cardinality(found) /\ Cardinality(found) \in Nat
        /\ \A i \in 1..Len(p) : p[i].file \in found /\ p[i].depth = d
        /\ \A x \in found : \E i \in 1..Len(p) : p[i].file = x
    BY ONLY <2>2, found \in SUBSET Files, d \in Nat, EntriesOf
  <2>4. QED
    BY <2>1, <2>3
<1>2. s \in Searches /\ s.queue = p /\ s.visited = found
  BY <1>1 DEF Searches
<1>3. B[0] = found /\ B[0] \subseteq B[maxDepth]
  BY DEF Balls
<1>4. Near(maxDepth, B, s) /\ ByDepth(s) /\ QueuedAreNear(B, s)
  <2>1. \A i \in 1..Len(s.queue) : s.queue[i].file \in found /\ s.queue[i].depth = 0
    BY ONLY <1>1, <1>2
  <2>2. Near(maxDepth, B, s)
    BY ONLY <1>2, <1>3, <2>1, maxDepth \in Nat DEF Near
  <2>3. ByDepth(s)
    BY ONLY <2>1 DEF ByDepth
  <2>4. QueuedAreNear(B, s)
    BY ONLY <1>3, <2>1 DEF QueuedAreNear
  <2>5. QED
    BY <2>2, <2>3, <2>4
<1>5. Followed(neighbors, maxDepth, B, s)
  BY <1>1, <1>2 DEF Followed, WasOrWillBeFollowed
<1>6. HeadIsNearest(B, s)
  BY <1>1, <1>2, <1>3 DEF HeadIsNearest
<1>7. TurnsSuffice(s, 0)
  <2>1. Cardinality(Files \ found) = Cardinality(Files) - Cardinality(found)
    <3>1. {} \in SUBSET Files /\ found \cap {} = {} /\ Files \ {} = Files /\ {} \cup found = found
      OBVIOUS
    <3>2. Cardinality(Files \ ({} \cup found)) = Cardinality(Files \ {}) - Cardinality(found)
      BY ONLY <3>1, FewerLeft, found \in SUBSET Files
    <3>3. QED
      BY <3>1, <3>2
  <2>2. NFiles \in Nat /\ Cardinality(Files) = NFiles
    BY PathsAssumption, FilesAreFinite
  <2>3. QED
    BY <1>1, <1>2, <2>1, <2>2 DEF TurnsSuffice
<1>8. QED
  BY <1>2, <1>4, <1>5, <1>6, <1>7 DEF SearchInv

LEMMA SearchTurns ==
  ASSUME NEW neighbors \in [Files -> SUBSET Files], NEW maxDepth \in Nat, NEW found \in SUBSET Files,
         NEW B, Balls(neighbors, found, B), NEW n \in Nat,
         NEW s, SearchInv(neighbors, found, maxDepth, B, s, n), NEW t, t = SearchTurn(neighbors, maxDepth, s)
  PROVE  SearchInv(neighbors, found, maxDepth, B, t, n + 1)
<1>1. s \in Searches
  BY DEF SearchInv
<1>2. CASE s.queue = <<>>
  <2>1. t = s
    BY <1>2 DEF SearchTurn
  <2>2. QED
    BY <1>2, <2>1 DEF SearchInv, TurnsSuffice
<1>3. CASE s.queue # <<>>
  <2>1. PICK q, new, at, r, seen :
          /\ q = s.queue /\ new = NewFiles(neighbors, maxDepth, s) /\ at = q[1] /\ r = t.queue /\ seen = t.visited
    OBVIOUS
  <2>2. /\ t \in Searches /\ new \in SUBSET Files
        /\ seen = s.visited \cup new
        /\ Len(q) >= 1 /\ Cardinality(new) \in Nat /\ Len(r) = Len(q) - 1 + Cardinality(new)
        /\ \A i \in 1..(Len(q) - 1) : r[i] = q[i + 1]
        /\ \A i \in Len(q)..Len(r) : r[i].file \in new /\ r[i].depth = at.depth + 1
        /\ \A x \in new : \E i \in Len(q)..Len(r) : r[i].file = x
    <3>1. t = SearchTurn(neighbors, maxDepth, s) /\ new = NewFiles(neighbors, maxDepth, s)
      BY <2>1
    <3>2. TurnTo(s, t, new)
      BY <1>1, <1>3, <3>1, TurnFacts
    <3>3. QED
      BY ONLY <2>1, <3>2 DEF TurnTo
  <2>3. /\ q \in Seq(Entries) /\ r \in Seq(Entries) /\ q # <<>>
        /\ s.visited \in SUBSET Files /\ seen \in SUBSET Files /\ Len(q) \in Nat /\ Len(r) \in Nat
    BY <1>1, <1>3, <2>1, <2>2 DEF Searches
  <2>4. /\ \A i \in 1..Len(q) : q[i].depth \in Nat /\ q[i].file \in Files
        /\ \A i \in 1..Len(r) : r[i].depth \in Nat /\ r[i].file \in Files
    <3>1. (\A i \in 1..Len(q) : q[i] \in Entries) /\ \A i \in 1..Len(r) : r[i] \in Entries
      BY <2>3
    <3>2. QED
      BY ONLY <3>1 DEF Entries
  <2>5. /\ Near(maxDepth, B, s) /\ QueuedAreNear(B, s) /\ ByDepth(s) /\ Followed(neighbors, maxDepth, B, s)
        /\ HeadIsNearest(B, s) /\ TurnsSuffice(s, n) /\ found \subseteq s.visited
    BY DEF SearchInv
  <2>6. /\ B \in [Nat -> SUBSET Files] /\ B[0] = found
        /\ \A k \in Nat : B[k + 1] = OneEdgeOn(neighbors, B[k])
        /\ \A k, m \in Nat : k <= m => B[k] \subseteq B[m]
    BY DEF Balls
  <2>7. /\ at.depth \in Nat /\ at.depth <= maxDepth /\ at.file \in B[at.depth] /\ at.file \in Files /\ Head(q) = at
        /\ B[at.depth] \subseteq s.visited
    BY <2>1, <2>2, <2>3, <2>4, <2>5 DEF Near, QueuedAreNear, HeadIsNearest
  (* What is new lies one edge on, and no file as near as the head is new.  *)
  <2>8. /\ new \cap s.visited = {} /\ new \cap B[at.depth] = {}
        /\ at.depth >= maxDepth => new = {}
        /\ at.depth < maxDepth => neighbors[at.file] \subseteq seen
        /\ new # {} => at.depth + 1 <= maxDepth
        /\ new \subseteq B[at.depth + 1]
    <3>1. new = IF at.depth >= maxDepth THEN {} ELSE neighbors[at.file] \ s.visited
      BY <2>1, <2>7 DEF NewFiles
    <3>2. neighbors[at.file] \subseteq B[at.depth + 1]
      BY <2>6, <2>7 DEF OneEdgeOn
    <3>3. at.depth >= maxDepth \/ (at.depth < maxDepth /\ at.depth + 1 <= maxDepth)
      BY <2>7
    <3>4. QED
      BY <2>2, <2>7, <3>1, <3>2, <3>3
  <2>9. \A i \in 1..Len(r) : (i \in 1..(Len(q) - 1) /\ i + 1 \in 1..Len(q)) \/ i \in Len(q)..Len(r)
    BY <2>2, <2>3
  <2>10. \A i \in 1..Len(q) : at.depth <= q[i].depth /\ q[i].depth <= at.depth + 1
    BY <2>1, <2>2, <2>3, <2>5 DEF ByDepth
  <2>11. Near(maxDepth, B, t)
    <3>1. seen \subseteq B[maxDepth]
      <4>1. s.visited \subseteq B[maxDepth]
        BY <2>5 DEF Near
      <4>2. new \subseteq B[maxDepth]
        <5>1. CASE new = {}
          BY <5>1
        <5>2. CASE new # {}
          BY <2>6, <2>7, <2>8, <5>2
        <5>3. QED
          BY <5>1, <5>2
      <4>3. QED
        BY <2>2, <4>1, <4>2
    <3>2. ASSUME NEW i \in 1..Len(r) PROVE r[i].depth <= maxDepth
      <4>1. CASE i \in 1..(Len(q) - 1) /\ i + 1 \in 1..Len(q)
        BY <2>1, <2>2, <2>5, <4>1 DEF Near
      <4>2. CASE i \in Len(q)..Len(r)
        BY <2>2, <2>8, <4>2
      <4>3. QED
        BY <2>9, <4>1, <4>2
    <3>3. QED
      BY <2>1, <3>1, <3>2 DEF Near
  <2>12. QueuedAreNear(B, t)
    <3>1. ASSUME NEW i \in 1..Len(r) PROVE r[i].file \in B[r[i].depth]
      <4>1. CASE i \in 1..(Len(q) - 1) /\ i + 1 \in 1..Len(q)
        BY <2>1, <2>2, <2>5, <4>1 DEF QueuedAreNear
      <4>2. CASE i \in Len(q)..Len(r)
        BY <2>2, <2>8, <4>2
      <4>3. QED
        BY <2>9, <4>1, <4>2
    <3>2. QED
      BY <2>1, <3>1 DEF QueuedAreNear
  <2>13. ByDepth(t)
    <3>1. ASSUME NEW i \in 1..Len(r), NEW j \in 1..Len(r), i <= j
          PROVE  r[i].depth <= r[j].depth /\ r[j].depth <= r[i].depth + 1
      <4>1. CASE j \in 1..(Len(q) - 1)
        <5>1. i \in 1..(Len(q) - 1) /\ i + 1 \in 1..Len(q) /\ j + 1 \in 1..Len(q) /\ i + 1 <= j + 1
          BY <2>3, <3>1, <4>1
        <5>2. r[i] = q[i + 1] /\ r[j] = q[j + 1]
          BY <2>2, <4>1, <5>1
        <5>3. QED
          BY <2>1, <2>5, <5>1, <5>2 DEF ByDepth
      <4>2. CASE j \in Len(q)..Len(r) /\ i \in 1..(Len(q) - 1)
        <5>1. i + 1 \in 1..Len(q) /\ r[i] = q[i + 1] /\ r[j].depth = at.depth + 1
          BY <2>2, <2>3, <4>2
        <5>2. QED
          BY <2>4, <2>7, <2>10, <5>1
      <4>3. CASE j \in Len(q)..Len(r) /\ i \in Len(q)..Len(r)
        BY <2>2, <2>7, <4>3
      <4>4. QED
        BY <2>9, <4>1, <4>2, <4>3
    <3>2. QED
      BY <2>1, <3>1 DEF ByDepth
  <2>14. Followed(neighbors, maxDepth, B, t)
    <3>1. ASSUME NEW k \in 0..(maxDepth - 1), NEW f \in seen \cap B[k]
          PROVE  WasOrWillBeFollowed(neighbors, f, k, t)
      <4>1. k \in Nat /\ k < maxDepth
        OBVIOUS
      <4>2. CASE f \in new
        <5>1. at.depth < k
          <6>1. SUFFICES ASSUME k <= at.depth PROVE FALSE
            BY <2>7, <4>1
          <6>2. f \in B[at.depth]
            BY <2>6, <2>7, <4>1, <6>1
          <6>3. QED
            BY <2>8, <4>2, <6>2
        <5>2. PICK i \in Len(q)..Len(r) : r[i].file = f
          BY <2>2, <4>2
        <5>3. i \in 1..Len(r) /\ r[i].depth <= k
          BY <2>2, <2>3, <2>7, <4>1, <5>1
        <5>4. QED
          BY <2>1, <5>2, <5>3 DEF WasOrWillBeFollowed
      <4>3. CASE f \notin new
        <5>1. WasOrWillBeFollowed(neighbors, f, k, s)
          BY <2>2, <2>5, <4>3 DEF Followed
        <5>2. CASE neighbors[f] \subseteq s.visited
          BY <2>1, <2>2, <5>2 DEF WasOrWillBeFollowed
        <5>3. CASE \E i \in 1..Len(q) : q[i].file = f /\ q[i].depth <= k
          <6>1. PICK i \in 1..Len(q) : q[i].file = f /\ q[i].depth <= k
            BY <5>3
          <6>2. CASE i = 1
            <7>1. at.depth < maxDepth
              BY <2>1, <2>7, <4>1, <6>1, <6>2
            <7>2. QED
              BY <2>1, <2>8, <6>1, <6>2, <7>1 DEF WasOrWillBeFollowed
          <6>3. CASE i # 1
            <7>1. i - 1 \in 1..(Len(q) - 1) /\ i - 1 \in 1..Len(r) /\ (i - 1) + 1 = i
              BY <2>2, <2>3, <6>3
            <7>2. r[i - 1] = q[i]
              BY <2>2, <7>1
            <7>3. QED
              BY <2>1, <6>1, <7>1, <7>2 DEF WasOrWillBeFollowed
          <6>4. QED
            BY <6>2, <6>3
        <5>4. QED
          BY <2>1, <5>1, <5>2, <5>3 DEF WasOrWillBeFollowed
      <4>4. QED
        BY <4>2, <4>3
    <3>2. QED
      BY <2>1, <3>1 DEF Followed
  <2>15. HeadIsNearest(B, t)
    <3>1. SUFFICES ASSUME r # <<>> PROVE B[r[1].depth] \subseteq seen
      BY <2>1 DEF HeadIsNearest
    <3>2. 1 \in 1..Len(r)
      BY <2>3, <3>1
    <3>3. r[1].depth = at.depth \/ r[1].depth = at.depth + 1
      <4>1. CASE 1 \in 1..(Len(q) - 1) /\ 1 + 1 \in 1..Len(q)
        <5>1. r[1] = q[2] /\ 2 \in 1..Len(q)
          BY <2>2, <2>3, <4>1
        <5>2. QED
          BY <2>4, <2>7, <2>10, <5>1
      <4>2. CASE 1 \in Len(q)..Len(r)
        BY <2>2, <4>2
      <4>3. QED
        BY <2>9, <3>2, <4>1, <4>2
    <3>4. CASE r[1].depth = at.depth
      BY <2>2, <2>7, <3>4
    <3>5. CASE r[1].depth = at.depth + 1
      <4>1. ASSUME NEW f \in B[at.depth] PROVE neighbors[f] \subseteq seen
        <5>1. at.depth \in 0..(maxDepth - 1)
          BY <2>1, <2>7, <2>11, <3>2, <3>5 DEF Near
        <5>2. f \in seen \cap B[at.depth]
          BY <2>2, <2>7
        <5>3. WasOrWillBeFollowed(neighbors, f, at.depth, t)
          BY <2>1, <2>14, <5>1, <5>2 DEF Followed
        <5>4. ASSUME NEW i \in 1..Len(r) PROVE ~(r[i].depth <= at.depth)
          <6>1. r[1].depth <= r[i].depth
            BY <2>1, <2>13, <3>2 DEF ByDepth
          <6>2. QED
            BY <2>4, <2>7, <3>5, <6>1
        <5>5. QED
          BY <2>1, <5>3, <5>4 DEF WasOrWillBeFollowed
      <4>2. B[at.depth] \subseteq seen
        BY <2>2, <2>7
      <4>3. B[at.depth + 1] = B[at.depth] \cup UNION {neighbors[f] : f \in B[at.depth]}
        BY <2>6, <2>7 DEF OneEdgeOn
      <4>4. QED
        BY <3>5, <4>1, <4>2, <4>3
    <3>6. QED
      BY <3>3, <3>4, <3>5
  <2>16. TurnsSuffice(t, n + 1)
    <3>1. /\ Cardinality(Files \ s.visited) \in Nat /\ Cardinality(new) \in Nat
          /\ Cardinality(Files \ seen) = Cardinality(Files \ s.visited) - Cardinality(new)
      BY <2>2, <2>3, <2>8, FewerLeft
    <3>2. Len(q) + Cardinality(Files \ s.visited) + n <= NFiles
      BY <2>1, <2>3, <2>5 DEF TurnsSuffice
    <3>3. NFiles \in Nat
      BY PathsAssumption
    <3>4. Len(r) + Cardinality(Files \ seen) + (n + 1) <= NFiles
      BY <2>2, <2>3, <3>1, <3>2, <3>3
    <3>5. QED
      BY <2>1, <3>4 DEF TurnsSuffice
  <2>17. found \subseteq t.visited
    BY <2>1, <2>2, <2>5
  <2>18. QED
    BY <2>2, <2>11, <2>12, <2>13, <2>14, <2>15, <2>16, <2>17 DEF SearchInv
<1>4. QED
  BY <1>2, <1>3

LEMMA SearchingSteps ==
  ASSUME NEW neighbors \in [Files -> SUBSET Files], NEW maxDepth \in Nat, NEW found \in SUBSET Files,
         NEW p, p = [i \in DOMAIN Sorted(found) |-> [file |-> Sorted(found)[i], depth |-> 0]],
         NEW search, search = Searching(neighbors, found, maxDepth)
  PROVE  /\ search[0] = [queue |-> p, visited |-> found]
         /\ \A n \in Nat : search[n + 1] = SearchTurn(neighbors, maxDepth, search[n])
<1> DEFINE start == [queue |-> p, visited |-> found]
           At(g, n) == IF n = 0 THEN start ELSE SearchTurn(neighbors, maxDepth, g[n - 1])
           Body(g) == [n \in Nat |-> At(g, n)]
           step == [s \in Searches |-> SearchTurn(neighbors, maxDepth, s)]
<1>1. found \in SUBSET Files
  OBVIOUS
<1>2. start \in Searches
  <2>1. PICK d \in Nat : d = 0
    OBVIOUS
  <2>2. p = [i \in DOMAIN Sorted(found) |-> [file |-> Sorted(found)[i], depth |-> d]]
    BY <2>1
  <2>3. p \in Seq(Entries)
    BY ONLY <1>1, <2>2, d \in Nat, EntriesOf
  <2>4. QED
    BY <1>1, <2>3 DEF Searches
<1>3. step \in [Searches -> Searches]
  <2>1. ASSUME NEW s \in Searches PROVE SearchTurn(neighbors, maxDepth, s) \in Searches
    <3>1. CASE s.queue = <<>>
      BY <3>1 DEF SearchTurn
    <3>2. CASE s.queue # <<>>
      <4>1. TurnTo(s, SearchTurn(neighbors, maxDepth, s), NewFiles(neighbors, maxDepth, s))
        BY <3>2, TurnFacts
      <4>2. QED
        BY <4>1 DEF TurnTo
    <3>3. QED
      BY <3>1, <3>2
  <2>2. QED
    BY <2>1
<1>4. PICK g : Iteration(g, Searches, start, step)
  <2> HIDE DEF step, start
  <2>1. QED
    BY ONLY <1>2, <1>3, Iterated, Zenon
<1>5. g = Body(g)
  <2>1. g \in [Nat -> Searches] /\ g[0] = start /\ \A n \in Nat : g[n + 1] = step[g[n]]
    BY <1>4 DEF Iteration
  <2>2. ASSUME NEW n \in Nat PROVE g[n] = At(g, n)
    <3>1. CASE n = 0
      BY <2>1, <3>1
    <3>2. CASE n # 0
      <4>1. n - 1 \in Nat /\ (n - 1) + 1 = n
        BY <3>2
      <4>2. g[n] = step[g[n - 1]] /\ g[n - 1] \in Searches
        BY <2>1, <4>1
      <4>3. QED
        BY <3>2, <4>2
    <3>3. QED
      BY <3>1, <3>2
  <2> HIDE DEF At
  <2>3. g = [n \in Nat |-> g[n]]
    BY <2>1
  <2>4. QED
    BY <2>2, <2>3
<1>6. search = CHOOSE h : h = Body(h)
  BY DEF Searching
<1>7. search = Body(search)
  <2> HIDE DEF Body
  <2>1. QED
    BY <1>5, <1>6
<1> HIDE DEF step
<1>8. search[0] = start
  <2> HIDE DEF start
  <2>1. search[0] = At(search, 0)
    <3> HIDE DEF At
    <3>1. QED
      BY <1>7
  <2>2. QED
    BY <2>1
<1>9. ASSUME NEW n \in Nat PROVE search[n + 1] = SearchTurn(neighbors, maxDepth, search[n])
  <2>1. n + 1 \in Nat /\ n + 1 # 0 /\ (n + 1) - 1 = n
    OBVIOUS
  <2>2. search[n + 1] = At(search, n + 1)
    <3> HIDE DEF At
    <3>1. QED
      BY <1>7, <2>1
  <2>3. QED
    BY <2>1, <2>2
<1>10. QED
  BY <1>8, <1>9

LEMMA SearchEnds ==
  ASSUME NEW neighbors \in [Files -> SUBSET Files], NEW maxDepth \in Nat, NEW found \in SUBSET Files,
         NEW B, Balls(neighbors, found, B), NEW s, SearchInv(neighbors, found, maxDepth, B, s, NFiles)
  PROVE  s.visited = B[maxDepth]
<1>1. s \in Searches /\ TurnsSuffice(s, NFiles) /\ Followed(neighbors, maxDepth, B, s) /\ found \subseteq s.visited
  BY DEF SearchInv
<1>2. s.queue \in Seq(Entries) /\ s.visited \in SUBSET Files
  BY <1>1 DEF Searches
<1>3. s.queue = <<>>
  <2>1. Cardinality(Files \ s.visited) \in Nat
    BY <1>2, FilesAreFinite, FS_Subset, FS_CardinalityType
  <2>2. NFiles \in Nat /\ Len(s.queue) \in Nat
    BY <1>2, PathsAssumption
  <2>3. SUFFICES ASSUME s.queue # <<>> PROVE FALSE
    OBVIOUS
  <2>4. Len(s.queue) # 0
    BY <1>2, <2>3
  <2>5. Len(s.queue) + Cardinality(Files \ s.visited) + NFiles <= NFiles
    BY <1>1, <2>3 DEF TurnsSuffice
  <2>6. QED
    BY <2>1, <2>2, <2>4, <2>5
<1>4. /\ B \in [Nat -> SUBSET Files] /\ B[0] = found
      /\ \A n \in Nat : B[n + 1] = B[n] \cup UNION {neighbors[f] : f \in B[n]}
  BY DEF Balls, OneEdgeOn
<1>5. \A k \in 0..(maxDepth - 1) : \A f \in s.visited \cap B[k] : neighbors[f] \subseteq s.visited
  BY <1>1, <1>3 DEF Followed, WasOrWillBeFollowed
<1> DEFINE T == {k \in Nat : k <= maxDepth => B[k] \subseteq s.visited}
<1>6. 0 \in T
  BY <1>1, <1>4
<1>7. ASSUME NEW k \in T PROVE k + 1 \in T
  <2>1. SUFFICES ASSUME k + 1 <= maxDepth PROVE B[k + 1] \subseteq s.visited
    OBVIOUS
  <2>2. k \in 0..(maxDepth - 1) /\ B[k] \subseteq s.visited
    BY <2>1
  <2>3. QED
    BY <1>4, <1>5, <2>2
<1>8. maxDepth \in T
  <2>1. T \subseteq Nat
    OBVIOUS
  <2> HIDE DEF T
  <2>2. QED
    BY <1>6, <1>7, <2>1, AllNumbers
<1>9. s.visited \subseteq B[maxDepth]
  BY DEF SearchInv, Near
<1>10. B[maxDepth] \subseteq s.visited
  BY <1>8
<1>11. QED
  BY <1>9, <1>10

(* A search visits exactly the ball of its depth.                          *)
LEMMA SearchVisitsBall ==
  ASSUME NEW neighbors \in [Files -> SUBSET Files], NEW maxDepth \in Nat, NEW found \in SUBSET Files
  PROVE  SearchFrom(neighbors, found, maxDepth) = Ball(neighbors, found, maxDepth)
<1>2. found \in SUBSET Files
  OBVIOUS
<1>3. PICK B : B = [n \in Nat |-> Ball(neighbors, found, n)]
  OBVIOUS
<1>4. Balls(neighbors, found, B) /\ B[maxDepth] = Ball(neighbors, found, maxDepth)
  BY <1>2, <1>3, BallsExist
<1>5. PICK p, search :
        /\ p = [i \in DOMAIN Sorted(found) |-> [file |-> Sorted(found)[i], depth |-> 0]]
        /\ search = Searching(neighbors, found, maxDepth)
  OBVIOUS
<1>6. /\ search[0] = [queue |-> p, visited |-> found]
      /\ \A n \in Nat : search[n + 1] = SearchTurn(neighbors, maxDepth, search[n])
  BY <1>5, SearchingSteps
<1> DEFINE T == {n \in Nat : SearchInv(neighbors, found, maxDepth, B, search[n], n)}
<1>7. 0 \in T
  <2>1. PICK s : s = search[0]
    OBVIOUS
  <2>2. SearchInv(neighbors, found, maxDepth, B, s, 0)
    BY <1>2, <1>4, <1>5, <1>6, <2>1, SearchStarts
  <2>3. QED
    BY <2>1, <2>2
<1>8. ASSUME NEW n \in T PROVE n + 1 \in T
  <2>1. PICK s, t : s = search[n] /\ t = search[n + 1]
    OBVIOUS
  <2>2. n \in Nat /\ SearchInv(neighbors, found, maxDepth, B, s, n) /\ t = SearchTurn(neighbors, maxDepth, s)
    BY <1>6, <2>1
  <2>3. SearchInv(neighbors, found, maxDepth, B, t, n + 1)
    BY <1>2, <1>4, <2>2, SearchTurns
  <2>4. n + 1 \in Nat /\ SearchInv(neighbors, found, maxDepth, B, search[n + 1], n + 1)
    BY ONLY <2>1, <2>2, <2>3
  <2>5. QED
    BY <2>4
<1>9. NFiles \in T
  <2>1. T \subseteq Nat
    OBVIOUS
  <2> HIDE DEF T
  <2>2. T = Nat
    BY <1>7, <1>8, <2>1, AllNumbers
  <2>3. QED
    BY <2>2, PathsAssumption
<1>10. search[NFiles].visited = B[maxDepth]
  BY <1>2, <1>4, <1>9, SearchEnds
<1>11. QED
  BY <1>4, <1>5, <1>10 DEF SearchFrom

(***************************************************************************)
(* The tables.                                                             *)
(***************************************************************************)
DocsInv == TypeOK /\ DOMAIN docs = Files

LEMMA InitDocs == Init => DocsInv
  BY DEF Init, GraphInit, DocsInv, TypeOK

LEMMA StoredKeepsDocs ==
  ASSUME DocsInv, NEW f \in Files, NEW d \in Projects[project][f] \cup {NoDoc},
         docs' = [docs EXCEPT ![f] = d], UNCHANGED <<project, baseline>>
  PROVE  DocsInv'
<1>1. DOMAIN docs' = Files
  BY DEF DocsInv
<1>2. \A g \in Files : docs'[g] = IF g = f THEN d ELSE docs[g]
  BY DEF DocsInv
<1>3. TypeOK'
  BY <1>2 DEF DocsInv, TypeOK
<1>4. QED
  BY <1>1, <1>3 DEF DocsInv

LEMMA NextDocs == ASSUME DocsInv, [Next]_vars PROVE DocsInv'
<1>1. CASE UNCHANGED graphVars
  BY <1>1 DEF DocsInv, TypeOK, graphVars
<1>2. ASSUME NEW f \in Files, UpsertFile(f) PROVE DocsInv'
  BY <1>2, StoredKeepsDocs DEF UpsertFile
<1>3. ASSUME NEW f \in Files, RemoveFile(f) PROVE DocsInv'
  BY <1>3, StoredKeepsDocs DEF RemoveFile
<1>4. CASE EnsureApiBaseline
  <2>1. \A b \in baseline' : b.file \in Files
    BY <1>4 DEF EnsureApiBaseline, Exports, Indexed
  <2>2. QED
    BY <1>4, <2>1 DEF EnsureApiBaseline, DocsInv, TypeOK
<1>5. QED
  BY <1>1, <1>2, <1>3, <1>4 DEF Next, GraphNext, vars

LEMMA SpecDocs == Spec => []DocsInv
<1>1. DocsInv /\ [Next]_vars => DocsInv'
  BY NextDocs
<1>2. QED
  BY InitDocs, <1>1, PTL DEF Spec

(* The tables hold, for every path, a document it may be indexed with or    *)
(* nothing, and the baseline names paths only.                             *)
THEOREM TablesTypeCorrect == Spec => []TypeOK
<1>1. DocsInv => TypeOK
  BY DEF DocsInv
<1>2. QED
  BY SpecDocs, <1>1, PTL

LEMMA NeighborsAreFiles ==
  ASSUME DocsInv
  PROVE  /\ ForwardNeighbors \in [Files -> SUBSET Files] /\ ReverseNeighbors \in [Files -> SUBSET Files]
         /\ Neighbors \in [Files -> SUBSET Files]
         /\ Neighbors = [f \in Files |-> ForwardNeighbors[f] \cup ReverseNeighbors[f]]
<1>1. ASSUME NEW f \in Files, NEW i \in docs[f].imports PROVE i.to \in Files
  <2>1. docs[f] \in Projects[project][f] \/ docs[f] = NoDoc
    BY DEF DocsInv, TypeOK
  <2>2. CASE docs[f] \in Projects[project][f]
    BY <2>2, ProjectsAssumption DEF DocsInv, TypeOK
  <2>3. CASE docs[f] = NoDoc
    BY <2>3 DEF NoDoc
  <2>4. QED
    BY <2>1, <2>2, <2>3
<1>2. ForwardNeighbors \in [Files -> SUBSET Files]
  BY <1>1 DEF ForwardNeighbors, Targets, Imports
<1>3. ReverseNeighbors \in [Files -> SUBSET Files]
  BY DEF ReverseNeighbors
<1>4. QED
  BY <1>2, <1>3 DEF Neighbors

LEMMA ConesAreBalls ==
  ASSUME DocsInv, NEW seeds, NEW d \in Nat
  PROVE  DependencyCone(seeds, d) = Ball(Neighbors, seeds \cap Indexed, d)
<1>1. DependencyCone(seeds, d) = SearchFrom(Neighbors, seeds \cap Indexed, d)
  BY NeighborsAreFiles DEF DependencyCone, Neighbors
<1>2. seeds \cap Indexed \in SUBSET Files
  BY DEF Indexed
<1>3. QED
  BY <1>1, <1>2, NeighborsAreFiles, SearchVisitsBall

(* The cone of any set of seeds and any depth is the ball of that depth      *)
(* around the seeds that are indexed (dependency_cone, bfs_forward).        *)
THEOREM EveryConeIsBall ==
  Spec => [](\A seeds \in SUBSET Files : \A d \in Nat : DependencyCone(seeds, d) = Ball(Neighbors, seeds \cap Indexed, d))
<1>1. DocsInv => \A seeds \in SUBSET Files : \A d \in Nat : DependencyCone(seeds, d) = Ball(Neighbors, seeds \cap Indexed, d)
  BY ConesAreBalls
<1>2. QED
  BY SpecDocs, <1>1, PTL

LEMMA LesserOfTwo == ASSUME NEW a \in Int, NEW b \in Int PROVE Min({a, b}) = IF a <= b THEN a ELSE b
<1>1. \E x \in {a, b} : \A y \in {a, b} : x <= y
  OBVIOUS
<1>2. Min({a, b}) \in {a, b} /\ \A y \in {a, b} : Min({a, b}) <= y
  BY <1>1 DEF Min
<1>3. QED
  BY <1>2

LEMMA GreaterOfTwo == ASSUME NEW a \in Int, NEW b \in Int PROVE Max({a, b}) = IF a >= b THEN a ELSE b
<1>1. \E x \in {a, b} : \A y \in {a, b} : x >= y
  OBVIOUS
<1>2. Max({a, b}) \in {a, b} /\ \A y \in {a, b} : Max({a, b}) >= y
  BY <1>1 DEF Max
<1>3. QED
  BY <1>2

FirstOf(t, seq, n) ==
  /\ Len(t) = (IF n <= Len(seq) THEN n ELSE Len(seq)) /\ DOMAIN t = 1..Len(t)
  /\ \A i \in 1..Len(t) : t[i] = seq[i]

LEMMA Taken ==
  ASSUME NEW E, NEW seq \in Seq(E), NEW n \in Nat
  PROVE  FirstOf(Take(seq, n), seq, n)
<1> DEFINE t == Take(seq, n)
<1>1. PICK m : m = Min({n, Len(seq)})
  OBVIOUS
<1>2. m = (IF n <= Len(seq) THEN n ELSE Len(seq)) /\ m \in Nat /\ m <= Len(seq)
  BY <1>1, LesserOfTwo
<1>3. t = SubSeq(seq, 1, m)
  BY <1>1 DEF Take
<1> HIDE DEF t
<1>4. t \in Seq(E) /\ Len(t) = m /\ \A i \in 1..m : t[i] = seq[i]
  BY ONLY <1>2, <1>3, seq \in Seq(E)
<1>5. FirstOf(t, seq, n)
  BY <1>2, <1>4 DEF FirstOf
<1>6. QED
  BY <1>5 DEF t

(* Every cone is the ball of its depth; the answer of impactCone lies in it  *)
(* and counts what its cap leaves out.                                     *)
THEOREM ConeIsBallCorrect == Spec => []ConeIsBall
<1>1. ASSUME DocsInv, NEW f \in Files, NEW d \in Nat
      PROVE  DependencyCone({f}, d) = IF f \in Indexed THEN Ball(Neighbors, {f}, d) ELSE {}
  <2>1. DependencyCone({f}, d) = Ball(Neighbors, {f} \cap Indexed, d)
    BY <1>1, ConesAreBalls
  <2>2. CASE f \in Indexed
    <3>1. {f} \cap Indexed = {f}
      BY <2>2
    <3>2. QED
      BY <2>1, <2>2, <3>1
  <2>3. CASE f \notin Indexed
    <3>1. {f} \cap Indexed = {} /\ {} \in SUBSET Files /\ {} \subseteq {} /\ Closed(Neighbors, {})
      BY <2>3 DEF Closed
    <3>2. Ball(Neighbors, {}, d) \subseteq {}
      BY ONLY <3>1, BallIsLeast, d \in Nat, NeighborsAreFiles, DocsInv
    <3>3. QED
      BY <2>1, <2>3, <3>1, <3>2
  <2>4. QED
    BY <2>2, <2>3
<1>2. ASSUME DocsInv, NEW f \in Indexed
      PROVE  /\ ToSet(ImpactCone(f).files) \subseteq Ball(Neighbors, {f}, Depth)
             /\ Len(ImpactCone(f).files) + ImpactCone(f).omitted = Cardinality(Ball(Neighbors, {f}, Depth))
  <2>1. PICK ball, cone, files :
          ball = Ball(Neighbors, {f}, Depth) /\ cone = Sorted(DependencyCone({f}, Depth)) /\ files = Take(cone, MaxFiles)
    OBVIOUS
  <2>2. Depth \in Nat /\ MaxFiles \in Nat /\ f \in Files
    BY CapsAssumption DEF Indexed
  <2>3. cone = Sorted(ball) /\ ball \in SUBSET Files
    <3>1. DependencyCone({f}, Depth) = ball
      BY <1>1, <1>2, <2>1, <2>2
    <3>2. {f} \in SUBSET Files /\ Neighbors \in [Files -> SUBSET Files]
      BY <1>2, <2>2, NeighborsAreFiles
    <3>3. QED
      BY <2>1, <2>2, <3>1, <3>2, BallSteps
  <2>4. cone \in Seq(Files) /\ Len(cone) = Cardinality(ball) /\ \A i \in 1..Len(cone) : cone[i] \in ball
    BY <2>3, SortedFiles
  <2>5. /\ DOMAIN files = 1..Len(files) /\ Len(files) = (IF MaxFiles <= Len(cone) THEN MaxFiles ELSE Len(cone))
        /\ \A i \in 1..Len(files) : files[i] = cone[i]
    <3>1. FirstOf(files, cone, MaxFiles)
      BY <2>1, <2>2, <2>4, Taken
    <3>2. QED
      BY <3>1 DEF FirstOf
  <2>6. ImpactCone(f).files = files /\ ImpactCone(f).omitted = Max({Len(cone) - MaxFiles, 0})
    BY <2>1 DEF ImpactCone
  <2>7. Max({Len(cone) - MaxFiles, 0}) = IF Len(cone) - MaxFiles >= 0 THEN Len(cone) - MaxFiles ELSE 0
    BY <2>2, <2>4, GreaterOfTwo
  <2>8. Len(files) + Max({Len(cone) - MaxFiles, 0}) = Cardinality(ball)
    BY <2>2, <2>4, <2>5, <2>7
  <2>9. ToSet(files) \subseteq ball
    BY <2>4, <2>5 DEF ToSet
  <2>10. QED
    BY <2>1, <2>6, <2>8, <2>9
<1>3. ASSUME DocsInv PROVE ConeIsBall
  <2>1. \A f \in Files : \A d \in 0..2 : DependencyCone({f}, d) = IF f \in Indexed THEN Ball(Neighbors, {f}, d) ELSE {}
    BY <1>1, <1>3
  <2>2. QED
    BY <1>2, <1>3, <2>1 DEF ConeIsBall
<1>4. QED
  BY SpecDocs, <1>3, PTL

(***************************************************************************)
(* The search for dependents.                                              *)
(***************************************************************************)
Dependings == [queue : Seq(Files), visited : SUBSET Files]
DependentsOn(seed, all, s, n) ==
  /\ s \in Dependings
  /\ s.visited \subseteq all
  /\ \A i \in 1..Len(s.queue) : s.queue[i] \in {seed} \cup s.visited
  /\ n > 0 => ReverseNeighbors[seed] \subseteq s.visited
  /\ n = 0 => s = [queue |-> <<seed>>, visited |-> {}]
AllAsked(seed, limit, s) ==
  \/ Cardinality(s.visited) >= limit
  \/ \A x \in {seed} \cup s.visited : ReverseNeighbors[x] \subseteq s.visited \/ \E i \in 1..Len(s.queue) : s.queue[i] = x
AskingEnds(s, n) == s.queue = <<>> \/ Len(s.queue) + Cardinality(Files \ s.visited) + n <= NFiles + 1
DependingInv(seed, limit, all, s, n) == DependentsOn(seed, all, s, n) /\ AllAsked(seed, limit, s) /\ AskingEnds(s, n)

LEMMA DependingStarts ==
  ASSUME NEW seed \in Files, NEW limit, NEW all, NEW s, s = [queue |-> <<seed>>, visited |-> {}]
  PROVE  DependingInv(seed, limit, all, s, 0)
<1>1. s.queue = <<seed>> /\ s.visited = {} /\ s \in Dependings
  BY DEF Dependings
<1>2. DependentsOn(seed, all, s, 0)
  BY <1>1 DEF DependentsOn
<1>3. AllAsked(seed, limit, s)
  BY <1>1 DEF AllAsked
<1>4. AskingEnds(s, 0)
  <2>1. Files \ {} = Files /\ Cardinality(Files) = NFiles /\ NFiles \in Nat /\ Len(<<seed>>) = 1
    BY FilesAreFinite, PathsAssumption
  <2>2. QED
    BY <1>1, <2>1 DEF AskingEnds
<1>5. QED
  BY <1>2, <1>3, <1>4 DEF DependingInv

LEMMA DependingTurns ==
  ASSUME DocsInv, NEW seed \in Files, NEW limit \in Nat \ {0}, NEW all, ReverseNeighbors[seed] \subseteq all,
         Closed(ReverseNeighbors, all), NEW n \in Nat,
         NEW s, DependingInv(seed, limit, all, s, n), NEW t, t = DependentsTurn(limit, s)
  PROVE  DependingInv(seed, limit, all, t, n + 1)
<1>1. /\ s \in Dependings /\ s.visited \subseteq all
      /\ \A i \in 1..Len(s.queue) : s.queue[i] \in {seed} \cup s.visited
      /\ n > 0 => ReverseNeighbors[seed] \subseteq s.visited
      /\ n = 0 => s = [queue |-> <<seed>>, visited |-> {}]
      /\ AllAsked(seed, limit, s) /\ AskingEnds(s, n)
  BY DEF DependingInv, DependentsOn
<1>2. CASE s.queue = <<>>
  <2>1. t = s
    BY <1>2 DEF DependentsTurn
  <2>2. n # 0
    BY <1>1, <1>2
  <2>3. DependentsOn(seed, all, t, n + 1)
    BY <1>1, <2>1, <2>2 DEF DependentsOn
  <2>4. AskingEnds(t, n + 1)
    BY <1>2, <2>1 DEF AskingEnds
  <2>5. QED
    BY <1>1, <2>1, <2>3, <2>4 DEF DependingInv
<1>3. CASE s.queue # <<>>
  <2>1. PICK q, at, new, seen, p, r :
          /\ q = s.queue /\ at = Head(q) /\ new = ReverseNeighbors[at] \ s.visited /\ seen = s.visited \cup new
          /\ p = Sorted(new) /\ r = Tail(q) \o p
    OBVIOUS
  <2>2. t = [queue |-> IF Cardinality(seen) >= limit THEN <<>> ELSE r, visited |-> seen]
    BY <1>3, <2>1 DEF DependentsTurn
  <2>3. q \in Seq(Files) /\ q # <<>> /\ s.visited \in SUBSET Files /\ at = q[1] /\ at \in Files /\ Len(q) \in Nat /\ Len(q) >= 1
    BY <1>1, <1>3, <2>1 DEF Dependings
  <2>4. ReverseNeighbors[at] \in SUBSET Files /\ new \in SUBSET Files /\ seen \in SUBSET Files /\ new \cap s.visited = {}
    BY <2>1, <2>3, NeighborsAreFiles
  <2>5. /\ p \in Seq(Files) /\ Len(p) = Cardinality(new) /\ Cardinality(new) \in Nat
        /\ \A i \in 1..Len(p) : p[i] \in new
        /\ \A x \in new : \E i \in 1..Len(p) : p[i] = x
    <3>1. p = Sorted(new) /\ new \in SUBSET Files
      BY <2>1, <2>4
    <3>2. /\ Sorted(new) \in Seq(Files) /\ Len(Sorted(new)) = Cardinality(new) /\ Cardinality(new) \in Nat
          /\ \A i \in 1..Len(Sorted(new)) : Sorted(new)[i] \in new
          /\ \A x \in new : \E i \in 1..Len(Sorted(new)) : Sorted(new)[i] = x
      BY ONLY <3>1, SortedFiles
    <3>3. QED
      BY ONLY <3>1, <3>2
  <2>6. /\ r \in Seq(Files) /\ Len(r) = Len(q) - 1 + Len(p)
        /\ \A i \in 1..(Len(q) - 1) : r[i] = q[i + 1]
        /\ \A i \in Len(q)..Len(r) : r[i] = p[i - Len(q) + 1]
    <3>1. r = Tail(q) \o p /\ q \in Seq(Files) /\ q # <<>> /\ p \in Seq(Files)
      BY <2>1, <2>3, <2>5
    <3>2. QED
      BY ONLY <3>1, QueueAfter
  <2>7. at \in {seed} \cup s.visited
    BY <1>1, <2>1, <2>3
  <2>8. seen \subseteq all /\ ReverseNeighbors[at] \subseteq seen
    BY <1>1, <2>1, <2>7 DEF Closed
  <2>9. ASSUME NEW i \in 1..Len(r) PROVE r[i] \in {seed} \cup seen
    <3>1. CASE i \in 1..(Len(q) - 1)
      <4>1. i + 1 \in 1..Len(q) /\ r[i] = q[i + 1]
        BY <2>3, <2>6, <3>1
      <4>2. QED
        BY <1>1, <2>1, <4>1
    <3>2. CASE i \in Len(q)..Len(r)
      <4>1. i - Len(q) + 1 \in 1..Len(p)
        BY <2>3, <2>5, <2>6, <3>2
      <4>2. QED
        BY <2>1, <2>5, <2>6, <3>2, <4>1
    <3>3. QED
      BY <2>3, <2>5, <2>6, <3>1, <3>2
  <2>10. /\ t \in Dependings /\ t.visited = seen
         /\ t.queue = IF Cardinality(seen) >= limit THEN <<>> ELSE r
    BY <2>2, <2>4, <2>6 DEF Dependings
  <2>11. DependentsOn(seed, all, t, n + 1)
    <3>1. \A i \in 1..Len(t.queue) : t.queue[i] \in {seed} \cup seen
      BY <2>9, <2>10
    <3>2. ReverseNeighbors[seed] \subseteq seen
      <4>1. CASE n = 0
        <5>1. q = <<seed>>
          BY <1>1, <2>1, <4>1
        <5>2. at = seed
          BY <2>1, <5>1
        <5>3. QED
          BY <2>8, <5>2
      <4>2. CASE n # 0
        BY <1>1, <2>1, <4>2
      <4>3. QED
        BY <4>1, <4>2
    <3>3. QED
      BY <2>8, <2>10, <3>1, <3>2 DEF DependentsOn
  <2>12. AllAsked(seed, limit, t)
    <3>1. CASE Cardinality(seen) >= limit
      BY <2>10, <3>1 DEF AllAsked
    <3>2. CASE ~(Cardinality(seen) >= limit)
      <4>1. t.queue = r
        BY <2>10, <3>2
      <4>2. ~(Cardinality(s.visited) >= limit)
        <5>1. IsFiniteSet(seen) /\ IsFiniteSet(s.visited) /\ s.visited \subseteq seen
          BY <2>1, <2>3, <2>4, FilesAreFinite, FS_Subset
        <5>2. Cardinality(s.visited) <= Cardinality(seen) /\ Cardinality(s.visited) \in Nat /\ Cardinality(seen) \in Nat
          BY <5>1, FS_Subset, FS_CardinalityType
        <5>3. QED
          BY <3>2, <5>2
      <4>3. ASSUME NEW x \in {seed} \cup seen PROVE ReverseNeighbors[x] \subseteq seen \/ \E i \in 1..Len(r) : r[i] = x
        <5>1. CASE x \in new
          <6>1. PICK i \in 1..Len(p) : p[i] = x
            BY <2>5, <5>1
          <6>2. i + Len(q) - 1 \in Len(q)..Len(r) /\ (i + Len(q) - 1) - Len(q) + 1 = i /\ i + Len(q) - 1 \in 1..Len(r)
            BY <2>3, <2>5, <2>6
          <6>3. QED
            BY <2>6, <6>1, <6>2
        <5>2. CASE x \in {seed} \cup s.visited /\ ReverseNeighbors[x] \subseteq s.visited
          BY <2>1, <5>2
        <5>3. CASE \E i \in 1..Len(q) : q[i] = x
          <6>1. PICK i \in 1..Len(q) : q[i] = x
            BY <5>3
          <6>2. CASE i = 1
            BY <2>3, <2>8, <6>1, <6>2
          <6>3. CASE i # 1
            <7>1. i - 1 \in 1..(Len(q) - 1) /\ i - 1 \in 1..Len(r) /\ (i - 1) + 1 = i
              BY <2>3, <2>5, <2>6, <6>3
            <7>2. QED
              BY <2>6, <6>1, <7>1
          <6>4. QED
            BY <6>2, <6>3
        <5>4. QED
          BY <1>1, <2>1, <4>2, <5>1, <5>2, <5>3 DEF AllAsked
      <4>4. QED
        BY <2>10, <4>1, <4>3 DEF AllAsked
    <3>3. QED
      BY <3>1, <3>2
  <2>13. AskingEnds(t, n + 1)
    <3>1. /\ Cardinality(Files \ s.visited) \in Nat /\ Cardinality(new) \in Nat
          /\ Cardinality(Files \ seen) = Cardinality(Files \ s.visited) - Cardinality(new)
      BY <2>1, <2>3, <2>4, FewerLeft
    <3>2. Len(q) + Cardinality(Files \ s.visited) + n <= NFiles + 1
      BY <1>1, <2>1, <2>3 DEF AskingEnds
    <3>3. NFiles \in Nat
      BY PathsAssumption
    <3>4. Len(r) + Cardinality(Files \ seen) + (n + 1) <= NFiles + 1
      BY <2>3, <2>5, <2>6, <3>1, <3>2, <3>3
    <3>5. QED
      BY <2>10, <3>4 DEF AskingEnds
  <2>14. QED
    BY <2>11, <2>12, <2>13 DEF DependingInv
<1>4. QED
  BY <1>2, <1>3

LEMMA DependentsTurnStays ==
  ASSUME DocsInv, NEW limit, NEW s \in Dependings
  PROVE  DependentsTurn(limit, s) \in Dependings
<1>1. CASE s.queue = <<>>
  BY <1>1 DEF DependentsTurn
<1>2. CASE s.queue # <<>>
  <2>1. PICK q, new, p :
          q = s.queue /\ new = ReverseNeighbors[Head(q)] \ s.visited /\ p = Sorted(new)
    OBVIOUS
  <2>2. q \in Seq(Files) /\ q # <<>> /\ s.visited \in SUBSET Files /\ Head(q) \in Files
    BY <1>2, <2>1 DEF Dependings
  <2>3. new \in SUBSET Files
    BY <2>1, <2>2, NeighborsAreFiles
  <2>4. p \in Seq(Files)
    BY <2>1, <2>3, SortedFiles
  <2>5. Tail(q) \o p \in Seq(Files) /\ <<>> \in Seq(Files)
    BY ONLY <2>2, <2>4
  <2>6. DependentsTurn(limit, s)
        = [queue |-> IF Cardinality(s.visited \cup new) >= limit THEN <<>> ELSE Tail(q) \o p, visited |-> s.visited \cup new]
    BY <1>2, <2>1 DEF DependentsTurn
  <2>7. QED
    BY <2>2, <2>3, <2>5, <2>6 DEF Dependings
<1>3. QED
  BY <1>1, <1>2

LEMMA DependingSteps ==
  ASSUME DocsInv, NEW seed \in Files, NEW limit, NEW search, search = Depending(seed, limit)
  PROVE  /\ search[0] = [queue |-> <<seed>>, visited |-> {}]
         /\ \A n \in Nat : search[n + 1] = DependentsTurn(limit, search[n])
<1> DEFINE start == [queue |-> <<seed>>, visited |-> {}]
           At(g, n) == IF n = 0 THEN start ELSE DependentsTurn(limit, g[n - 1])
           Body(g) == [n \in Nat |-> At(g, n)]
           step == [s \in Dependings |-> DependentsTurn(limit, s)]
<1>1. start \in Dependings
  BY DEF Dependings
<1>2. step \in [Dependings -> Dependings]
  BY DependentsTurnStays
<1>3. PICK g : Iteration(g, Dependings, start, step)
  <2> HIDE DEF step, start
  <2>1. QED
    BY ONLY <1>1, <1>2, Iterated, Zenon
<1>4. g = Body(g)
  <2>1. g \in [Nat -> Dependings] /\ g[0] = start /\ \A n \in Nat : g[n + 1] = step[g[n]]
    BY <1>3 DEF Iteration
  <2>2. ASSUME NEW n \in Nat PROVE g[n] = At(g, n)
    <3>1. CASE n = 0
      BY <2>1, <3>1
    <3>2. CASE n # 0
      <4>1. n - 1 \in Nat /\ (n - 1) + 1 = n
        BY <3>2
      <4>2. g[n] = step[g[n - 1]] /\ g[n - 1] \in Dependings
        BY <2>1, <4>1
      <4>3. QED
        BY <3>2, <4>2
    <3>3. QED
      BY <3>1, <3>2
  <2> HIDE DEF At
  <2>3. g = [n \in Nat |-> g[n]]
    BY <2>1
  <2>4. QED
    BY <2>2, <2>3
<1>5. search = CHOOSE h : h = Body(h)
  BY DEF Depending
<1>6. search = Body(search)
  <2> HIDE DEF Body
  <2>1. QED
    BY <1>4, <1>5
<1> HIDE DEF step
<1>7. search[0] = start
  <2> HIDE DEF start
  <2>1. search[0] = At(search, 0)
    <3> HIDE DEF At
    <3>1. QED
      BY <1>6
  <2>2. QED
    BY <2>1
<1>8. ASSUME NEW n \in Nat PROVE search[n + 1] = DependentsTurn(limit, search[n])
  <2>1. n + 1 \in Nat /\ n + 1 # 0 /\ (n + 1) - 1 = n
    OBVIOUS
  <2>2. search[n + 1] = At(search, n + 1)
    <3> HIDE DEF At
    <3>1. QED
      BY <1>6, <2>1
  <2>3. QED
    BY <2>1, <2>2
<1>9. QED
  BY <1>7, <1>8

AllOrLimit(seed, limit, found, all) ==
  /\ found \subseteq all /\ ReverseNeighbors[seed] \subseteq found
  /\ Cardinality(found) < limit => found = all

LEMMA DependentsFound ==
  ASSUME DocsInv, NEW seed \in Files, NEW limit \in Nat \ {0}
  PROVE  AllOrLimit(seed, limit, ReverseDependentsOf(seed, limit), ImportersOf(seed))
<1>1. PICK all, search : all = ImportersOf(seed) /\ search = Depending(seed, limit)
  OBVIOUS
<1>2. ReverseNeighbors \in [Files -> SUBSET Files] /\ ReverseNeighbors[seed] \in SUBSET Files /\ NFiles \in Nat
  BY NeighborsAreFiles, PathsAssumption
<1>3. Closed(ReverseNeighbors, all)
  BY <1>1, <1>2, BallCloses DEF ImportersOf
<1>4. ReverseNeighbors[seed] \subseteq all
  <2>1. /\ Ball(ReverseNeighbors, ReverseNeighbors[seed], 0) = ReverseNeighbors[seed]
        /\ Ball(ReverseNeighbors, ReverseNeighbors[seed], 0) \subseteq Ball(ReverseNeighbors, ReverseNeighbors[seed], NFiles)
    BY <1>2, BallSteps, BallGrows
  <2>2. QED
    BY <1>1, <2>1 DEF ImportersOf
<1>5. /\ search[0] = [queue |-> <<seed>>, visited |-> {}]
      /\ \A n \in Nat : search[n + 1] = DependentsTurn(limit, search[n])
  BY <1>1, DependingSteps
<1> DEFINE T == {n \in Nat : DependingInv(seed, limit, all, search[n], n)}
<1>6. 0 \in T
  <2>1. PICK s : s = search[0]
    OBVIOUS
  <2>2. DependingInv(seed, limit, all, s, 0)
    BY <1>5, <2>1, DependingStarts
  <2>3. QED
    BY <2>1, <2>2
<1>7. ASSUME NEW n \in T PROVE n + 1 \in T
  <2>1. PICK s, t : s = search[n] /\ t = search[n + 1]
    OBVIOUS
  <2>2. n \in Nat /\ DependingInv(seed, limit, all, s, n) /\ t = DependentsTurn(limit, s)
    BY <1>5, <2>1
  <2>3. DependingInv(seed, limit, all, t, n + 1)
    BY <1>3, <1>4, <2>2, DependingTurns
  <2>4. n + 1 \in Nat /\ DependingInv(seed, limit, all, search[n + 1], n + 1)
    BY ONLY <2>1, <2>2, <2>3
  <2>5. QED
    BY <2>4
<1>8. NFiles + 1 \in T
  <2>1. T \subseteq Nat
    OBVIOUS
  <2> HIDE DEF T
  <2>2. T = Nat
    BY <1>6, <1>7, <2>1, AllNumbers
  <2>3. QED
    BY <1>2, <2>2
<1>9. PICK s : s = search[NFiles + 1]
  OBVIOUS
<1>10. DependingInv(seed, limit, all, s, NFiles + 1) /\ NFiles + 1 > 0
  BY <1>2, <1>8, <1>9
<1>11. /\ s \in Dependings /\ s.visited \subseteq all /\ ReverseNeighbors[seed] \subseteq s.visited
       /\ AllAsked(seed, limit, s) /\ AskingEnds(s, NFiles + 1)
  BY <1>10 DEF DependingInv, DependentsOn
<1>12. s.queue \in Seq(Files) /\ s.visited \in SUBSET Files
  BY <1>11 DEF Dependings
<1>13. s.queue = <<>>
  <2>1. Cardinality(Files \ s.visited) \in Nat
    BY <1>12, FilesAreFinite, FS_Subset, FS_CardinalityType
  <2>2. SUFFICES ASSUME s.queue # <<>> PROVE FALSE
    OBVIOUS
  <2>3. Len(s.queue) # 0 /\ Len(s.queue) \in Nat
    BY <1>12, <2>2
  <2>4. Len(s.queue) + Cardinality(Files \ s.visited) + (NFiles + 1) <= NFiles + 1
    BY <1>11, <2>2 DEF AskingEnds
  <2>5. QED
    BY <1>2, <2>1, <2>3, <2>4
<1>14. ASSUME Cardinality(s.visited) < limit PROVE s.visited = all
  <2>1. ~(Cardinality(s.visited) >= limit)
    <3>1. Cardinality(s.visited) \in Nat
      BY <1>12, FilesAreFinite, FS_Subset, FS_CardinalityType
    <3>2. QED
      BY <1>14, <3>1
  <2>2. \A x \in {seed} \cup s.visited : ReverseNeighbors[x] \subseteq s.visited
    BY <1>11, <1>13, <2>1 DEF AllAsked
  <2>3. Closed(ReverseNeighbors, s.visited)
    BY <2>2 DEF Closed
  <2>4. Ball(ReverseNeighbors, ReverseNeighbors[seed], NFiles) \subseteq s.visited
    BY <1>2, <1>11, <2>3, BallIsLeast
  <2>5. QED
    BY <1>1, <1>11, <2>4 DEF ImportersOf
<1>15. ReverseDependentsOf(seed, limit) = s.visited
  BY <1>1, <1>9 DEF ReverseDependentsOf
<1>16. QED
  BY <1>1, <1>11, <1>14, <1>15 DEF AllOrLimit

(* For every limit, not only those up to the number of files.              *)
THEOREM DependentsCompleteForAnyLimit ==
  Spec => [](\A f \in Files : \A limit \in Nat \ {0} :
               AllOrLimit(f, limit, ReverseDependentsOf(f, limit), ImportersOf(f)))
<1>1. DocsInv => \A f \in Files : \A limit \in Nat \ {0} :
                   AllOrLimit(f, limit, ReverseDependentsOf(f, limit), ImportersOf(f))
  BY DependentsFound
<1>2. QED
  BY SpecDocs, <1>1, PTL

(* A search for dependents finds all importers, near and far, when it stays  *)
(* below its limit, and all direct ones in any case.                       *)
THEOREM DependentsAreCompleteCorrect == Spec => []DependentsAreComplete
<1>1. ASSUME DocsInv, NEW f \in Files, NEW limit \in 1..NFiles
      PROVE  AllOrLimit(f, limit, ReverseDependentsOf(f, limit), ImportersOf(f))
  BY <1>1, DependentsFound
<1>2. DocsInv => DependentsAreComplete
  BY <1>1 DEF DependentsAreComplete, AllOrLimit
<1>3. QED
  BY SpecDocs, <1>2, PTL

(***************************************************************************)
(* Dead exports.                                                           *)
(***************************************************************************)
LEMMA PairLess ==
  ASSUME NEW a \in Nat, NEW b \in Nat, NEW c \in Nat, NEW d \in Nat
  PROVE  KeyLess(<<a, b>>, <<c, d>>) <=> a < c \/ (a = c /\ b < d)
<1>1. PICK p, q : p = <<a, b>> /\ q = <<c, d>>
  OBVIOUS
<1>2. p[1] = a /\ p[2] = b /\ q[1] = c /\ q[2] = d /\ DOMAIN p = 1..2 /\ DOMAIN q = 1..2 /\ Len(p) = 2 /\ Len(q) = 2
  BY <1>1
<1>3. KeyLess(p, q) <=> \E i \in 1..2 : p[i] < q[i] /\ \A j \in 1..(i - 1) : p[j] = q[j]
  BY <1>2 DEF KeyLess
<1>4. KeyLess(p, q) => a < c \/ (a = c /\ b < d)
  <2>1. SUFFICES ASSUME KeyLess(p, q) PROVE a < c \/ (a = c /\ b < d)
    OBVIOUS
  <2>2. PICK i \in 1..2 : p[i] < q[i] /\ \A j \in 1..(i - 1) : p[j] = q[j]
    BY <1>3, <2>1
  <2>3. CASE i = 1
    BY <1>2, <2>2, <2>3
  <2>4. CASE i = 2
    <3>1. 1 \in 1..(i - 1)
      BY <2>4
    <3>2. QED
      BY <1>2, <2>2, <2>4, <3>1
  <2>5. QED
    BY <2>2, <2>3, <2>4
<1>5. ASSUME a < c PROVE KeyLess(p, q)
  <2>1. p[1] < q[1] /\ \A j \in 1..(1 - 1) : p[j] = q[j]
    BY <1>2, <1>5
  <2>2. QED
    BY <1>3, <2>1
<1>6. ASSUME a = c, b < d PROVE KeyLess(p, q)
  <2>1. p[2] < q[2] /\ \A j \in 1..(2 - 1) : p[j] = q[j]
    BY <1>2, <1>6
  <2>2. QED
    BY <1>3, <2>1
<1>7. QED
  BY <1>1, <1>4, <1>5, <1>6

(* The rows load_public_exports returns.                                   *)
LEMMA ExportRows ==
  ASSUME DocsInv, NEW X \in SUBSET Files
  PROVE  /\ IsFiniteSet(Exports(X))
         /\ \A e \in Exports(X) : e.file \in Nat /\ e.name \in Nat
         /\ \A e1, e2 \in Exports(X) : e1.file = e2.file /\ e1.name = e2.name => e1 = e2
<1> DEFINE Row(f, e) == [file |-> f, name |-> e.name, signature |-> e.signature]
           Of(f) == {Row(f, e) : e \in docs[f].exports}
<1>1. ASSUME NEW f \in Files
      PROVE  /\ IsFiniteSet(docs[f].exports) /\ \A e \in docs[f].exports : e.name \in Nat
             /\ \A e1, e2 \in docs[f].exports : e1.name = e2.name => e1 = e2
  <2>1. docs[f] \in Projects[project][f] \/ docs[f] = NoDoc
    BY DEF DocsInv, TypeOK
  <2>2. CASE docs[f] \in Projects[project][f]
    BY <2>2, ProjectsAssumption DEF DocsInv, TypeOK
  <2>3. CASE docs[f] = NoDoc
    BY <2>3, FS_EmptySet DEF NoDoc
  <2>4. QED
    BY <2>1, <2>2, <2>3
<1>2. Exports(X) = UNION {Of(f) : f \in X}
  BY DEF Exports
<1>3. ASSUME NEW f \in X PROVE IsFiniteSet(Of(f))
  <2> DEFINE g == [e \in docs[f].exports |-> Row(f, e)]
  <2> HIDE DEF Row
  <2>1. g \in Surjection(docs[f].exports, Of(f))
    BY DEF Surjection
  <2>2. QED
    BY <1>1, <2>1, FS_Surjection
<1>4. IsFiniteSet({Of(f) : f \in X})
  <2> DEFINE g == [f \in X |-> Of(f)]
  <2> HIDE DEF Of
  <2>1. g \in Surjection(X, {Of(f) : f \in X})
    BY DEF Surjection
  <2>2. IsFiniteSet(X)
    BY FilesAreFinite, FS_Subset
  <2>3. QED
    BY <2>1, <2>2, FS_Surjection
<1>5. IsFiniteSet(Exports(X))
  <2> HIDE DEF Of
  <2>1. \A T \in {Of(f) : f \in X} : IsFiniteSet(T)
    BY <1>3
  <2>2. QED
    BY <1>2, <1>4, <2>1, FS_UNION
<1>6. ASSUME NEW x \in Exports(X)
      PROVE  \E f \in X : \E e \in docs[f].exports : x = Row(f, e)
  BY <1>2
<1>7. \A e \in Exports(X) : e.file \in Nat /\ e.name \in Nat
  <2>1. TAKE x \in Exports(X)
  <2>2. PICK f \in X : \E e \in docs[f].exports : x = Row(f, e)
    BY <1>6
  <2>3. PICK e \in docs[f].exports : x = Row(f, e)
    BY <2>2
  <2>4. f \in Nat /\ e.name \in Nat
    BY <1>1, PathsAssumption DEF Files
  <2>5. QED
    BY <2>3, <2>4
<1>8. \A e1, e2 \in Exports(X) : e1.file = e2.file /\ e1.name = e2.name => e1 = e2
  <2>1. SUFFICES ASSUME NEW x \in Exports(X), NEW y \in Exports(X), x.file = y.file, x.name = y.name PROVE x = y
    OBVIOUS
  <2>2. PICK f \in X : \E e \in docs[f].exports : x = Row(f, e)
    BY <1>6
  <2>3. PICK g \in X : \E e \in docs[g].exports : y = Row(g, e)
    BY <1>6
  <2>4. f = g
    BY <2>1, <2>2, <2>3
  <2>5. PICK d \in docs[f].exports : x = Row(f, d)
    BY <2>2
  <2>6. PICK e \in docs[f].exports : y = Row(f, e)
    BY <2>3, <2>4
  <2>7. d.name = e.name
    BY <2>1, <2>5, <2>6
  <2>8. d = e
    BY <1>1, <2>7
  <2>9. QED
    BY <2>5, <2>6, <2>8
<1>9. QED
  BY <1>5, <1>7, <1>8

(* Rows of public_exports: finitely many, one for a file and a name.       *)
KeyedRows(S) ==
  /\ IsFiniteSet(S)
  /\ \A e \in S : e.file \in Nat /\ e.name \in Nat
  /\ \A e1, e2 \in S : e1.file = e2.file /\ e1.name = e2.name => e1 = e2

LEMMA ExportsAreKeyed == ASSUME DocsInv, NEW X \in SUBSET Files PROVE KeyedRows(Exports(X))
  BY ExportRows DEF KeyedRows

LEMMA SomeAreKeyed == ASSUME NEW S, KeyedRows(S), NEW T, T \subseteq S PROVE KeyedRows(T)
  BY FS_Subset DEF KeyedRows

(* What ModuleGraph::load may have loaded: paths, and imports of paths.     *)
Loadable(g) ==
  /\ g = [files |-> g.files, imports |-> g.imports]
  /\ g.files \in SUBSET Files /\ Targets(g.imports) \in [Files -> SUBSET Files]

LEMMA EntrypointsAreFiles ==
  ASSUME NEW files \in SUBSET Files PROVE ExpandEntrypoints(files) \subseteq files
<1>1. CASE Entrypoints = {} /\ files # {}
  <2>1. files \in SUBSET Nat
    BY PathsAssumption DEF Files
  <2>2. \E m \in files : \A n \in files : m <= n
    BY <1>1, <2>1, SmallestOf
  <2>3. Min(files) \in files
    BY <2>2 DEF Min
  <2>4. QED
    BY <1>1, <2>3 DEF ExpandEntrypoints
<1>2. QED
  BY <1>1 DEF ExpandEntrypoints

(* The search of reachable_files finds what the imports it is given lead to. *)
LEMMA ReachableIsLedTo ==
  ASSUME NEW g, Loadable(g), NEW f
  PROVE  f \in ReachableFiles(g) <=> Leads(PairsOf(g.imports), ExpandEntrypoints(g.files), f)
<1>1. PICK N, from, R : N = Targets(g.imports) /\ from = ExpandEntrypoints(g.files) /\ R = ReachableFiles(g)
  OBVIOUS
<1>2. N \in [Files -> SUBSET Files] /\ from \subseteq g.files /\ from \in SUBSET Files /\ NFiles \in Nat
  BY <1>1, EntrypointsAreFiles, PathsAssumption DEF Loadable
<1>3. R = Ball(N, from, NFiles)
  <2>1. R = SearchFrom(N, from \cap g.files, NFiles)
    BY <1>1 DEF ReachableFiles, ForwardClosure
  <2>2. from \cap g.files = from
    BY <1>2
  <2>3. QED
    BY <1>2, <2>1, <2>2, SearchVisitsBall
<1>4. PICK P : P = PairsOf(g.imports)
  OBVIOUS
<1>5. P = {e \in Files \X Files : e[2] \in N[e[1]]}
  BY <1>1, <1>4 DEF PairsOf
<1>6. ASSUME NEW S \in SUBSET Files PROVE (\A p \in P : p[1] \in S => p[2] \in S) <=> Closed(N, S)
  <2>1. ASSUME \A p \in P : p[1] \in S => p[2] \in S, NEW x \in S, NEW y \in N[x] PROVE y \in S
    <3>1. <<x, y>> \in P
      BY <1>2, <1>5, <2>1
    <3>2. QED
      BY <2>1, <3>1
  <2>2. ASSUME Closed(N, S), NEW p \in P, p[1] \in S PROVE p[2] \in S
    BY <1>5, <2>2 DEF Closed
  <2>3. QED
    BY <2>1, <2>2 DEF Closed
<1>7. Leads(P, from, f) <=> \A S \in SUBSET Files : from \subseteq S /\ Closed(N, S) => f \in S
  BY <1>6 DEF Leads
<1>8. ASSUME f \in R PROVE \A S \in SUBSET Files : from \subseteq S /\ Closed(N, S) => f \in S
  BY <1>2, <1>3, <1>8, BallIsLeast
<1>9. R \in SUBSET Files /\ from \subseteq R /\ Closed(N, R)
  <2>1. Ball(N, from, 0) = from /\ R \in SUBSET Files
    BY <1>2, <1>3, BallSteps
  <2>2. from \subseteq R
    <3>1. 0 \in Nat /\ 0 <= NFiles
      BY <1>2
    <3>2. Ball(N, from, 0) \subseteq Ball(N, from, NFiles)
      BY <1>2, <3>1, BallGrows
    <3>3. QED
      BY <1>3, <2>1, <3>2
  <2>3. QED
    BY <1>2, <1>3, <2>1, <2>2, BallCloses
<1>10. f \in R <=> Leads(P, from, f)
  BY <1>7, <1>8, <1>9
<1>11. QED
  BY <1>1, <1>4, <1>10

(* More imports lead to more.                                              *)
LEMMA MoreLeads ==
  ASSUME NEW P, NEW Q, P \subseteq Q, NEW from, NEW f, Leads(P, from, f) PROVE Leads(Q, from, f)
  BY DEF Leads

Enumerates(e, S) ==
  /\ DOMAIN e = 1..Cardinality(S) /\ Cardinality(S) \in Nat
  /\ \A i \in 1..Cardinality(S) : e[i] \in S
  /\ \A x \in S : \E i \in 1..Cardinality(S) : e[i] = x

LEMMA RowsByFileThenName ==
  ASSUME NEW S, KeyedRows(S)
  PROVE  Enumerates(ByFileThenName(S), S)
<1> DEFINE Less(a, b) == KeyLess(<<a.file, a.name>>, <<b.file, b.name>>)
           R == {p \in S \X S : Less(p[1], p[2])}
           e == [i \in 1..Cardinality(S) |-> CHOOSE x \in S : Cardinality({y \in S : <<y, x>> \in R}) = i - 1]
<1>1. /\ IsFiniteSet(S)
      /\ \A x \in S : x.file \in Nat /\ x.name \in Nat
      /\ \A x, y \in S : x.file = y.file /\ x.name = y.name => x = y
  BY DEF KeyedRows
<1>2. \A x, y \in S : Less(x, y) <=> x.file < y.file \/ (x.file = y.file /\ x.name < y.name)
  BY <1>1, PairLess
<1>3. ByFileThenName(S) = [i \in 1..Cardinality(S) |-> CHOOSE x \in S : Cardinality({y \in S : Less(y, x)}) = i - 1]
  BY DEF ByFileThenName, SortedBy
<1> HIDE DEF Less
<1>4. \A x, y \in S : <<x, y>> \in R <=> Less(x, y)
  OBVIOUS
<1>5. \A x \in S : {y \in S : Less(y, x)} = {y \in S : <<y, x>> \in R}
  BY <1>4
<1> HIDE DEF R
<1>6. ByFileThenName(S) = e
  BY <1>3, <1>5, Zenon
<1>7. /\ \A x \in S : <<x, x>> \notin R
      /\ \A x, y, z \in S : <<x, y>> \in R /\ <<y, z>> \in R => <<x, z>> \in R
      /\ \A x, y \in S : x = y \/ <<x, y>> \in R \/ <<y, x>> \in R
  <2>1. ASSUME NEW x \in S PROVE <<x, x>> \notin R
    BY <1>1, <1>2, <1>4
  <2>2. ASSUME NEW x \in S, NEW y \in S, NEW z \in S, <<x, y>> \in R, <<y, z>> \in R PROVE <<x, z>> \in R
    <3>1. Less(x, y) /\ Less(y, z)
      BY <1>4, <2>2
    <3>2. Less(x, z)
      BY <1>1, <1>2, <3>1
    <3>3. QED
      BY <1>4, <3>2
  <2>3. ASSUME NEW x \in S, NEW y \in S, x # y PROVE <<x, y>> \in R \/ <<y, x>> \in R
    <3>1. x.file # y.file \/ x.name # y.name
      BY <1>1, <2>3
    <3>2. Less(x, y) \/ Less(y, x)
      BY <1>1, <1>2, <3>1
    <3>3. QED
      BY <1>4, <3>2
  <2>4. QED
    BY <2>1, <2>2, <2>3
<1>8. /\ Cardinality(S) \in Nat
      /\ e \in Bijection(1..Cardinality(S), S)
  <2>1. StrictOrder(R, S) /\ e = InOrder(S, R)
    BY <1>7 DEF StrictOrder, InOrder
  <2> HIDE DEF e
  <2>2. EnumeratesBy(e, S, R)
    BY <1>1, <2>1, Enumeration
  <2>3. QED
    BY <2>2 DEF EnumeratesBy
<1> HIDE DEF e
<1>9. Enumerates(e, S)
  BY <1>8 DEF Enumerates, Bijection, Injection, Surjection
<1>10. QED
  BY <1>6, <1>9

(* The reports made of an enumeration and cut at a cap: what they are about  *)
(* is in the set, and all of it when the cap is not reached.               *)
CutOf(t, S, key, max) ==
  /\ \A i \in DOMAIN t : \E x \in S : t[i].key = key[x]
  /\ Len(t) < max => \A x \in S : \E i \in DOMAIN t : t[i].key = key[x]

LEMMA CutOfEnumeration ==
  ASSUME NEW S, NEW e, Enumerates(e, S), NEW E, NEW r \in [DOMAIN e -> E], NEW key,
         \A i \in DOMAIN e : r[i].key = key[e[i]], NEW max \in Nat
  PROVE  CutOf(Take(r, max), S, key, max)
<1>1. PICK n, t : n = Cardinality(S) /\ t = Take(r, max)
  OBVIOUS
<1>2. /\ n \in Nat /\ DOMAIN e = 1..n /\ DOMAIN r = 1..n
      /\ \A i \in 1..n : e[i] \in S /\ r[i].key = key[e[i]]
      /\ \A x \in S : \E i \in 1..n : e[i] = x
  BY <1>1 DEF Enumerates
<1>3. r \in [1..n -> E]
  BY <1>2
<1>4. r \in Seq(E) /\ Len(r) = n
  BY ONLY <1>2, <1>3
<1>5. FirstOf(t, r, max)
  BY <1>1, <1>4, Taken
<1>6. PICK m : m = Len(t)
  OBVIOUS
<1>7. m = (IF max <= n THEN max ELSE n) /\ DOMAIN t = 1..m /\ \A i \in 1..m : t[i] = r[i]
  BY <1>4, <1>5, <1>6 DEF FirstOf
<1>8. m \in Nat /\ m <= n /\ (m < max => m = n)
  BY <1>2, <1>7
<1>9. DOMAIN t = 1..m /\ Len(t) = m /\ \A i \in 1..m : t[i] = r[i] /\ i \in 1..n
  BY <1>2, <1>6, <1>7, <1>8
<1>10. \A i \in DOMAIN t : \E x \in S : t[i].key = key[x]
  BY <1>2, <1>9
<1>11. ASSUME Len(t) < max, NEW x \in S PROVE \E i \in DOMAIN t : t[i].key = key[x]
  <2>1. m = n
    BY <1>8, <1>9, <1>11
  <2>2. PICK i \in 1..n : e[i] = x
    BY <1>2
  <2>3. QED
    BY <1>2, <1>9, <2>1, <2>2
<1>12. QED
  BY <1>1, <1>10, <1>11 DEF CutOf

(* Cutting the reports of dead_code_findings at a cap: what they name is not *)
(* reachable, and is all of that when the cap is not reached.               *)
LEMMA DeadRowsReported ==
  ASSUME NEW g, NEW exports, KeyedRows(exports), NEW max \in Nat, NEW S,
         S = {e \in exports : e.file \notin ReachableFiles(g)}, NEW t, t = DeadCode(g, exports, max)
  PROVE  /\ {t[i].key : i \in DOMAIN t} \subseteq Keys(S)
         /\ Len(t) < max => {t[i].key : i \in DOMAIN t} = Keys(S)
<1> DEFINE Report(x) == LET risk == DynamicRiskIn(g.imports, x.file)
                        IN Finding("dead_code", IF risk THEN Info ELSE Warn, IF risk THEN 55 ELSE 86,
                                   <<x.file>>, {}, <<3, x.file, x.name>>)
           key == [x \in S |-> <<3, x.file, x.name>>]
<1>1. PICK e, r : e = ByFileThenName(S) /\ r = [i \in DOMAIN e |-> Report(e[i])]
  OBVIOUS
<1>2. t = Take(r, max)
  BY <1>1 DEF DeadCode, Each
<1>3. \A x : Report(x).key = <<3, x.file, x.name>>
  BY DEF Finding
<1> HIDE DEF Report
<1>4. Enumerates(e, S)
  <2>1. KeyedRows(S)
    BY SomeAreKeyed
  <2>2. QED
    BY <1>1, <2>1, RowsByFileThenName
<1>5. \A i \in DOMAIN e : e[i] \in S
  BY <1>4 DEF Enumerates
<1>6. r \in [DOMAIN e -> {Report(e[i]) : i \in DOMAIN e}] /\ \A i \in DOMAIN e : r[i].key = key[e[i]]
  <2>1. \A i \in DOMAIN e : r[i] = Report(e[i])
    BY <1>1
  <2>2. QED
    BY <1>1, <1>3, <1>5, <2>1
<1>7. \A x \in S : key[x] = <<3, x.file, x.name>>
  OBVIOUS
<1> HIDE DEF key
<1>8. CutOf(t, S, key, max)
  <2>1. PICK E : r \in [DOMAIN e -> E]
    BY <1>6
  <2>2. CutOf(Take(r, max), S, key, max)
    BY ONLY <1>4, <1>6, <2>1, max \in Nat, CutOfEnumeration
  <2>3. QED
    BY <1>2, <2>2
<1> DEFINE keys == {t[i].key : i \in DOMAIN t}
<1>9. ASSUME NEW i \in DOMAIN t PROVE t[i].key \in Keys(S)
  <2>1. PICK x \in S : t[i].key = key[x]
    BY <1>8 DEF CutOf
  <2>2. QED
    BY <1>7, <2>1 DEF Keys
<1>10. ASSUME Len(t) < max, NEW x \in S PROVE <<3, x.file, x.name>> \in keys
  <2>1. PICK i \in DOMAIN t : t[i].key = key[x]
    BY <1>8, <1>10 DEF CutOf
  <2>2. t[i].key = <<3, x.file, x.name>>
    BY <1>7, <2>1
  <2>3. QED
    BY <2>2
<1>11. QED
  BY <1>9, <1>10 DEF Keys

(* The reads and the worker's writes between them.  While reads are still    *)
(* to come, the tables hold what stayed and hold no more than occurred; what *)
(* was read is between the two for ever.                                   *)
Between(pairs) == stayed.pairs \subseteq pairs /\ pairs \subseteq occurred.pairs
KeysBetween(keys) == stayed.keys \subseteq keys /\ keys \subseteq occurred.keys
ReadsInv ==
  /\ DocsInv
  /\ readPhase \in {"none", "files", "imports", "exports"}
  /\ Loadable(loadedGraph) /\ KeyedRows(listedExports)
  /\ readPhase \in {"files", "imports"} => Between(Stored.pairs) /\ KeysBetween(Stored.keys)
  /\ readPhase \in {"imports", "exports"} => Between(PairsOf(loadedGraph.imports))
  /\ readPhase = "exports" => KeysBetween(Keys(listedExports))

LEMMA NothingLoaded == Loadable([files |-> {}, imports |-> [f \in Files |-> {}]]) /\ KeyedRows({})
<1>1. Targets([f \in Files |-> {}]) \in [Files -> SUBSET Files]
  BY DEF Targets
<1>2. KeyedRows({})
  BY FS_EmptySet DEF KeyedRows
<1>3. QED
  BY <1>1, <1>2 DEF Loadable

LEMMA TablesAreLoadable ==
  ASSUME DocsInv PROVE Indexed \in SUBSET Files /\ Targets(Imports) \in [Files -> SUBSET Files]
  BY NeighborsAreFiles DEF Indexed, ForwardNeighbors

LEMMA ReadsNextInv == ASSUME ReadsInv, [ReadsNext]_deadVars PROVE ReadsInv'
<1>1. DocsInv'
  <2>1. ReadsNext => [Next]_vars
    BY DEF ReadsNext, ReadFiles, ReadImports, ReadExports, Write, Next, GraphNext
  <2>2. [Next]_vars
    BY <2>1 DEF deadVars, vars
  <2>3. QED
    BY <2>2, NextDocs DEF ReadsInv
<1>2. UNCHANGED vars => Stored' = Stored
  BY DEF Stored, PairsOf, Targets, Imports, Keys, Exports, Indexed, vars, graphVars
<1>3. PICK s, t : s = Stored /\ t = Stored'
  OBVIOUS
<1>4. CASE ReadFiles
  <2>1. /\ UNCHANGED vars /\ readPhase' = "files" /\ stayed' = Stored /\ occurred' = Stored /\ listedExports' = {}
        /\ loadedGraph' = [files |-> Indexed, imports |-> [f \in Files |-> {}]]
    BY <1>4 DEF ReadFiles
  <2>2. Loadable(loadedGraph') /\ KeyedRows(listedExports')
    BY <2>1, NothingLoaded, TablesAreLoadable DEF ReadsInv, Loadable
  <2>3. Between(Stored.pairs)' /\ KeysBetween(Stored.keys)'
    <3>1. stayed' = t /\ occurred' = t
      BY <1>2, <1>3, <2>1
    <3>2. QED
      BY <1>3, <3>1 DEF Between, KeysBetween
  <2>4. QED
    BY <1>1, <2>1, <2>2, <2>3 DEF ReadsInv, Loadable, KeyedRows
<1>5. CASE ReadImports
  <2>1. /\ readPhase = "files" /\ readPhase' = "imports" /\ UNCHANGED <<vars, listedExports, stayed, occurred>>
        /\ loadedGraph' = [loadedGraph EXCEPT !.imports = Imports]
    BY <1>5 DEF ReadImports, historyVars
  <2>2. loadedGraph' = [files |-> loadedGraph.files, imports |-> Imports]
    BY <2>1 DEF ReadsInv, Loadable
  <2>3. Loadable(loadedGraph')
    BY <2>2, TablesAreLoadable DEF ReadsInv, Loadable
  <2>4. Between(Stored.pairs) /\ KeysBetween(Stored.keys) /\ PairsOf(loadedGraph'.imports) = Stored.pairs
    BY <2>1, <2>2 DEF ReadsInv, Stored
  <2>5. Stored' = Stored
    BY <1>2, <2>1
  <2>6. Between(Stored.pairs)' /\ KeysBetween(Stored.keys)' /\ Between(PairsOf(loadedGraph.imports))'
    <3>1. Stored'.pairs = Stored.pairs /\ Stored'.keys = Stored.keys
      BY <2>5
    <3>2. PairsOf(loadedGraph.imports)' = PairsOf(loadedGraph'.imports)
      BY DEF PairsOf, Targets
    <3>3. QED
      BY <2>1, <2>4, <3>1, <3>2 DEF Between, KeysBetween
  <2>7. QED
    BY <1>1, <2>1, <2>3, <2>6 DEF ReadsInv, Loadable, KeyedRows
<1>6. CASE ReadExports
  <2>1. /\ readPhase = "imports" /\ readPhase' = "exports" /\ UNCHANGED <<vars, loadedGraph, stayed, occurred>>
        /\ listedExports' = Exports(Indexed)
    BY <1>6 DEF ReadExports, historyVars
  <2>2. KeyedRows(listedExports')
    BY <2>1, TablesAreLoadable, ExportsAreKeyed DEF ReadsInv
  <2>3. KeysBetween(Stored.keys) /\ Keys(listedExports') = Stored.keys
    BY <2>1 DEF ReadsInv, Stored
  <2>4. KeysBetween(Keys(listedExports))' /\ Between(PairsOf(loadedGraph.imports))'
    <3>1. KeysBetween(Keys(listedExports))'
      <4>1. Keys(listedExports)' = Keys(listedExports')
        BY DEF Keys
      <4>2. QED
        BY <2>1, <2>3, <4>1 DEF KeysBetween
    <3>2. Between(PairsOf(loadedGraph.imports))'
      <4>1. PairsOf(loadedGraph.imports)' = PairsOf(loadedGraph.imports)
        BY <2>1 DEF PairsOf, Targets
      <4>2. QED
        BY <2>1, <4>1 DEF ReadsInv, Between
    <3>3. QED
      BY <3>1, <3>2
  <2>5. QED
    BY <1>1, <2>1, <2>2, <2>4 DEF ReadsInv, Loadable, KeyedRows
<1>7. CASE Write
  <2>1. UNCHANGED <<readPhase, loadedGraph, listedExports>>
    BY <1>7 DEF Write, readVars
  <2>2. PairsOf(loadedGraph.imports)' = PairsOf(loadedGraph.imports) /\ Keys(listedExports)' = Keys(listedExports)
    BY <2>1 DEF PairsOf, Targets, Keys
  <2>3. CASE readPhase \in {"files", "imports"}
    <3>1. /\ stayed' = [pairs |-> stayed.pairs \cap t.pairs, keys |-> stayed.keys \cap t.keys]
          /\ occurred' = [pairs |-> occurred.pairs \cup t.pairs, keys |-> occurred.keys \cup t.keys]
      BY <1>3, <1>7, <2>3 DEF Write
    <3>2. Between(t.pairs)' /\ KeysBetween(t.keys)'
      BY <3>1 DEF Between, KeysBetween
    <3>3. Between(Stored.pairs)' /\ KeysBetween(Stored.keys)'
      BY <1>3, <3>1 DEF Between, KeysBetween
    <3>4. readPhase = "imports" => Between(PairsOf(loadedGraph.imports))'
      BY <2>2, <3>1 DEF Between, ReadsInv
    <3>5. QED
      BY <1>1, <2>1, <2>3, <3>3, <3>4 DEF ReadsInv, Loadable, KeyedRows
  <2>4. CASE readPhase \notin {"files", "imports"}
    <3>1. UNCHANGED <<stayed, occurred>>
      BY <1>7, <2>4 DEF Write, historyVars
    <3>2. Between(PairsOf(loadedGraph.imports))' = Between(PairsOf(loadedGraph.imports))
      BY <2>2, <3>1 DEF Between
    <3>3. KeysBetween(Keys(listedExports))' = KeysBetween(Keys(listedExports))
      BY <2>2, <3>1 DEF KeysBetween
    <3>4. QED
      BY <1>1, <2>1, <2>4, <3>2, <3>3 DEF ReadsInv, Loadable, KeyedRows
  <2>5. QED
    BY <2>3, <2>4
<1>8. CASE UNCHANGED deadVars
  <2>1. UNCHANGED <<vars, readPhase, loadedGraph, listedExports, stayed, occurred>>
    BY <1>8 DEF deadVars, readVars, historyVars
  <2>2. Stored' = Stored /\ PairsOf(loadedGraph.imports)' = PairsOf(loadedGraph.imports) /\ Keys(listedExports)' = Keys(listedExports)
    BY <1>2, <2>1 DEF PairsOf, Targets, Keys
  <2>3. QED
    BY <1>1, <2>1, <2>2 DEF ReadsInv, Loadable, KeyedRows, Between, KeysBetween
<1>9. QED
  BY <1>4, <1>5, <1>6, <1>7, <1>8 DEF ReadsNext

LEMMA ReadsInitInv == ASSUME ReadsInit PROVE ReadsInv
<1>1. DocsInv
  BY InitDocs DEF ReadsInit
<1>2. Loadable(loadedGraph) /\ KeyedRows(listedExports)
  BY NothingLoaded DEF ReadsInit
<1>3. QED
  BY <1>1, <1>2 DEF ReadsInit, ReadsInv

LEMMA ReportsAreBetween ==
  ASSUME ReadsInv, readPhase = "exports", NEW max \in Nat, NEW from, from = ExpandEntrypoints(loadedGraph.files)
  PROVE  /\ ReportedKeys(max) \subseteq {k \in occurred.keys : ~Leads(stayed.pairs, from, k[2])}
         /\ Len(DeadReport(max)) < max => {k \in stayed.keys : ~Leads(occurred.pairs, from, k[2])} \subseteq ReportedKeys(max)
<1>1. PICK g, exports : g = loadedGraph /\ exports = listedExports
  OBVIOUS
<1>2. Loadable(g) /\ KeyedRows(exports) /\ Between(PairsOf(g.imports)) /\ KeysBetween(Keys(exports))
  BY <1>1 DEF ReadsInv
<1>3. PICK S, t : S = {e \in exports : e.file \notin ReachableFiles(g)} /\ t = DeadCode(g, exports, max)
  OBVIOUS
<1>4. DeadReport(max) = t /\ ReportedKeys(max) = {t[i].key : i \in DOMAIN t}
  BY <1>1, <1>3 DEF DeadReport, ReportedKeys
<1>5. /\ ReportedKeys(max) \subseteq Keys(S)
      /\ Len(t) < max => ReportedKeys(max) = Keys(S)
  BY <1>2, <1>3, <1>4, DeadRowsReported
<1>6. \A f : f \in ReachableFiles(g) <=> Leads(PairsOf(g.imports), from, f)
  BY <1>1, <1>2, ReachableIsLedTo
<1>7. \A x : <<3, x.file, x.name>>[2] = x.file
  OBVIOUS
<1>8. ASSUME NEW k \in Keys(S) PROVE k \in occurred.keys /\ ~Leads(stayed.pairs, from, k[2])
  <2>1. PICK e \in S : k = <<3, e.file, e.name>>
    BY <1>8 DEF Keys
  <2>2. e \in exports /\ ~Leads(PairsOf(g.imports), from, e.file) /\ k[2] = e.file
    BY <1>3, <1>6, <1>7, <2>1
  <2>3. k \in Keys(exports)
    BY <2>1, <2>2 DEF Keys
  <2>4. ~Leads(stayed.pairs, from, e.file)
    BY <1>2, <2>2, MoreLeads DEF Between
  <2>5. QED
    BY <1>2, <2>2, <2>3, <2>4 DEF KeysBetween
<1>9. ASSUME NEW k \in stayed.keys, ~Leads(occurred.pairs, from, k[2]) PROVE k \in Keys(S)
  <2>1. k \in Keys(exports)
    BY <1>2, <1>9 DEF KeysBetween
  <2>2. PICK e \in exports : k = <<3, e.file, e.name>>
    BY <2>1 DEF Keys
  <2>3. ~Leads(PairsOf(g.imports), from, e.file)
    <3>1. k[2] = e.file
      BY <1>7, <2>2
    <3>2. QED
      BY <1>2, <1>9, <3>1, MoreLeads DEF Between
  <2>4. e \in S
    BY <1>3, <1>6, <2>3
  <2>5. QED
    BY <2>2, <2>4 DEF Keys
<1>10. QED
  BY <1>4, <1>5, <1>8, <1>9

(* For any tables, any entrypoints and any cap, and with any number of       *)
(* writes between the reads of the paths, the imports and the exports: only  *)
(* exports the imports that stayed do not lead to are reported dead, and     *)
(* below the cap all that stayed and that no import of any moment led to.    *)
THEOREM DeadIsUnreachableCorrect == ReadsSpec => []DeadIsUnreachable
<1>1. ReadsInit => ReadsInv
  BY ReadsInitInv
<1>2. ReadsInv /\ [ReadsNext]_deadVars => ReadsInv'
  BY ReadsNextInv
<1>3. ASSUME ReadsInv PROVE DeadIsUnreachable
  <2>1. ASSUME readPhase = "exports", NEW max \in 1..(Cardinality(listedExports) + 1) PROVE max \in Nat
    <3>1. Cardinality(listedExports) \in Nat
      BY <1>3, FS_CardinalityType DEF ReadsInv, KeyedRows
    <3>2. QED
      BY <2>1, <3>1
  <2>2. QED
    BY <1>3, <2>1, ReportsAreBetween DEF DeadIsUnreachable
<1>4. QED
  BY <1>1, <1>2, <1>3, PTL DEF ReadsSpec

(***************************************************************************)
(* Tarjan's algorithm, on any finite graph of numbers.                     *)
(***************************************************************************)
IsGraph(G) == IsFiniteSet(DOMAIN G) /\ DOMAIN G \in SUBSET Nat /\ G \in [DOMAIN G -> SUBSET DOMAIN G]

(* One node leads to another if it lies in every closed set the first lies  *)
(* in; the nodes that lead to each other.                                  *)
Reaches(G, u, v) == \A X \in SUBSET DOMAIN G : u \in X /\ Closed(G, X) => v \in X
Mutual(G, u) == {v \in DOMAIN G : Reaches(G, u, v) /\ Reaches(G, v, u)}
IsComponent(G, K) == K # {} /\ \A u \in K : K = Mutual(G, u)

LEMMA ReachesItself == ASSUME NEW G, NEW u PROVE Reaches(G, u, u)
BY DEF Reaches

LEMMA ReachesOn ==
  ASSUME NEW G, NEW u, NEW v, NEW w, Reaches(G, u, v), Reaches(G, v, w) PROVE Reaches(G, u, w)
BY DEF Reaches

LEMMA ReachesNext ==
  ASSUME NEW G, IsGraph(G), NEW u \in DOMAIN G, NEW v \in G[u] PROVE Reaches(G, u, v)
BY DEF Reaches, Closed, IsGraph

(***************************************************************************)
(* What the algorithm knows, with sets for its stacks: the nodes on the     *)
(* stack, those whose call is under way, and those of finished components.  *)
(***************************************************************************)
Views(G) ==
  LET N == DOMAIN G
  IN [count : Nat, index : [N -> Nat], low : [N -> Nat], left : [N -> SUBSET N],
      on : SUBSET N, in : SUBSET N, done : SUBSET N]

Parted(G, a) ==
  /\ a.in \subseteq a.on /\ a.on \cap a.done = {}
  /\ \A n \in DOMAIN G : n \in a.on \cup a.done <=> a.index[n] # 0
Numbered(G, a) ==
  /\ \A n \in DOMAIN G : a.index[n] <= a.count
  /\ \A m, n \in DOMAIN G : a.index[m] = a.index[n] /\ a.index[m] # 0 => m = n
Looked(G, a) ==
  \A n \in DOMAIN G :
    /\ a.left[n] \subseteq G[n]
    /\ a.index[n] = 0 => a.left[n] = G[n]
    /\ n \in a.on \ a.in => a.left[n] = {}
    /\ a.index[n] # 0 => \A m \in G[n] \ a.left[n] : a.index[m] # 0
(* A call leads to all that came after it, and all leads back to a call.    *)
LeadsOn(G, a) == \A g \in a.in, v \in a.on : a.index[g] <= a.index[v] => Reaches(G, g, v)
LeadsBack(G, a) == \A v \in a.on : \E g \in a.in : a.index[g] <= a.index[v] /\ Reaches(G, v, g)
(* A link is the number of a node it leads to, and the least one that edges *)
(* of the nodes between this call and the next lead to.                    *)
LowIsSeen(G, a) ==
  \A g \in a.in : \E w \in a.on : a.low[g] = a.index[w] /\ a.index[w] <= a.index[g] /\ Reaches(G, g, w)
Heads(a, g, u) ==
  g \in a.in /\ a.index[g] <= a.index[u] /\ \A h \in a.in : a.index[h] <= a.index[u] => a.index[h] <= a.index[g]
LowIsLeast(G, a) ==
  \A u, w \in a.on, g \in a.in : w \in G[u] \ a.left[u] /\ Heads(a, g, u) => a.low[g] <= a.index[w]

ViewInv(G, a) ==
  /\ a \in Views(G)
  /\ Parted(G, a) /\ Numbered(G, a) /\ Closed(G, a.done) /\ Looked(G, a)
  /\ LeadsOn(G, a) /\ LeadsBack(G, a) /\ LowIsSeen(G, a) /\ LowIsLeast(G, a)

Innermost(a, g) == g \in a.in /\ \A h \in a.in : a.index[h] <= a.index[g]

(* The three kinds of turn.                                                *)
Visits(a, b, v) ==
  /\ a.index[v] = 0
  /\ b.count = a.count + 1
  /\ b.index = [a.index EXCEPT ![v] = a.count + 1] /\ b.low = [a.low EXCEPT ![v] = a.count + 1]
  /\ b.on = a.on \cup {v} /\ b.in = a.in \cup {v} /\ b.done = a.done
  /\ \/ a.in = {} /\ b.left = a.left
     \/ \E p : Innermost(a, p) /\ v \in a.left[p] /\ b.left = [a.left EXCEPT ![p] = a.left[p] \ {v}]
Looks(a, b, p, w) ==
  /\ Innermost(a, p) /\ w \in a.left[p] /\ a.index[w] # 0
  /\ b.left = [a.left EXCEPT ![p] = a.left[p] \ {w}]
  /\ b.low = IF w \in a.on THEN [a.low EXCEPT ![p] = Min({a.low[p], a.index[w]})] ELSE a.low
  /\ b.count = a.count /\ b.index = a.index /\ b.on = a.on /\ b.in = a.in /\ b.done = a.done
From(a, g) == {u \in a.on : a.index[g] <= a.index[u]}
Returns(a, b, g) ==
  /\ Innermost(a, g) /\ a.left[g] = {}
  /\ b.in = a.in \ {g} /\ b.count = a.count /\ b.index = a.index /\ b.left = a.left
  /\ \/ a.low[g] # a.index[g] /\ b.on = a.on /\ b.done = a.done
     \/ a.low[g] = a.index[g] /\ b.on = a.on \ From(a, g) /\ b.done = a.done \cup From(a, g)
  /\ \/ b.in = {} /\ b.low = a.low
     \/ \E p : Innermost(b, p) /\ b.low = [a.low EXCEPT ![p] = Min({a.low[p], a.low[g]})]

LEMMA VisitKeeps ==
  ASSUME NEW G, IsGraph(G), NEW a, NEW b \in Views(G), NEW v \in DOMAIN G, ViewInv(G, a), Visits(a, b, v)
  PROVE  ViewInv(G, b)
<1> DEFINE N == DOMAIN G
<1>1. /\ a \in Views(G)
      /\ Parted(G, a) /\ Numbered(G, a) /\ Closed(G, a.done) /\ Looked(G, a)
      /\ LeadsOn(G, a) /\ LeadsBack(G, a) /\ LowIsSeen(G, a) /\ LowIsLeast(G, a)
  BY DEF ViewInv
<1>2. /\ a.count \in Nat /\ a.index \in [N -> Nat] /\ a.low \in [N -> Nat] /\ a.left \in [N -> SUBSET N]
      /\ a.on \in SUBSET N /\ a.in \in SUBSET N /\ a.done \in SUBSET N
  BY <1>1 DEF Views
<1>3. /\ b.count = a.count + 1 /\ a.index[v] = 0
      /\ b.index[v] = a.count + 1 /\ b.low[v] = a.count + 1
      /\ \A n \in N \ {v} : b.index[n] = a.index[n] /\ b.low[n] = a.low[n]
      /\ b.on = a.on \cup {v} /\ b.in = a.in \cup {v} /\ b.done = a.done
  BY <1>2 DEF Visits
<1>5. \/ a.in = {} /\ b.left = a.left
      \/ \E p \in a.in : /\ \A h \in a.in : a.index[h] <= a.index[p]
                        /\ v \in a.left[p] /\ b.left[p] = a.left[p] \ {v}
                        /\ \A n \in N \ {p} : b.left[n] = a.left[n]
  BY <1>2 DEF Visits, Innermost
<1>4. \A n \in N : b.left[n] \subseteq a.left[n]
  BY <1>2, <1>5
<1>6. v \notin a.on /\ v \notin a.done /\ v \notin a.in /\ a.in \subseteq a.on
  BY <1>1, <1>2, <1>3 DEF Parted
<1>7. \A n \in N : a.index[n] \in Nat /\ a.index[n] <= a.count
  BY <1>1, <1>2 DEF Numbered
<1>8. G \in [N -> SUBSET N]
  BY DEF IsGraph
<1>9. Parted(G, b)
  BY <1>1, <1>2, <1>3, <1>6 DEF Parted
<1>10. Numbered(G, b)
  BY <1>1, <1>2, <1>3, <1>7 DEF Numbered
<1>11. Closed(G, b.done)
  BY <1>1, <1>3
<1>12. Looked(G, b)
  <2> SUFFICES ASSUME NEW n \in N
               PROVE  /\ b.left[n] \subseteq G[n]
                      /\ b.index[n] = 0 => b.left[n] = G[n]
                      /\ n \in b.on \ b.in => b.left[n] = {}
                      /\ b.index[n] # 0 => \A m \in G[n] \ b.left[n] : b.index[m] # 0
    BY DEF Looked
  <2>1. /\ a.left[n] \subseteq G[n]
        /\ a.index[n] = 0 => a.left[n] = G[n]
        /\ n \in a.on \ a.in => a.left[n] = {}
        /\ a.index[n] # 0 => \A m \in G[n] \ a.left[n] : a.index[m] # 0
    BY <1>1 DEF Looked
  <2>2. \A m \in N : a.index[m] # 0 => b.index[m] # 0
    BY <1>2, <1>3
  <2>3. b.left[n] = a.left[n] \/ (n \in a.in /\ a.left[n] \subseteq b.left[n] \cup {v} /\ n # v)
    BY <1>5, <1>6
  <2>4. b.index[v] # 0
    BY <1>2, <1>3
  <2>5. n \in a.in => a.index[n] # 0
    BY <1>1, <1>2, <1>6 DEF Parted
  <2>6. CASE n = v
    <3>1. b.left[v] = a.left[v] /\ a.left[v] = G[v]
      BY <2>1, <2>3, <2>6, <1>3
    <3>2. v \in b.in
      BY <1>3
    <3>3. QED
      BY <3>1, <3>2, <2>4, <2>6
  <2>7. CASE n # v
    <3>1. b.index[n] = a.index[n] /\ (n \in b.on \ b.in => n \in a.on \ a.in)
      BY <2>7, <1>3
    <3>2. b.left[n] \subseteq G[n]
      BY <2>1, <1>4
    <3>3. b.index[n] = 0 => b.left[n] = G[n]
      BY <2>1, <2>3, <2>5, <3>1
    <3>4. n \in b.on \ b.in => b.left[n] = {}
      BY <3>1, <2>1, <1>4
    <3>5. ASSUME b.index[n] # 0, NEW m \in G[n] \ b.left[n] PROVE b.index[m] # 0
      <4>1. m \in N
        BY <1>8
      <4>2. m = v \/ m \notin a.left[n]
        BY <2>3
      <4>3. QED
        BY <4>1, <4>2, <2>1, <2>2, <2>4, <3>1, <3>5
    <3>6. QED
      BY <3>2, <3>3, <3>4, <3>5
  <2>8. QED
    BY <2>6, <2>7
<1>13. LeadsOn(G, b)
  <2> SUFFICES ASSUME NEW g \in b.in, NEW u \in b.on, b.index[g] <= b.index[u] PROVE Reaches(G, g, u)
    BY DEF LeadsOn
  <2>1. CASE g = v
    <3>1. u = v
      <4>1. u \in N
        BY <1>2, <1>3
      <4>2. u # v => b.index[u] <= a.count
        BY <4>1, <1>3, <1>7
      <4>3. QED
        BY <4>1, <4>2, <2>1, <1>3, <1>2, <1>7
    <3>2. QED
      BY <2>1, <3>1, ReachesItself
  <2>2. CASE g # v /\ u # v
    <3>1. g \in a.in /\ u \in a.on /\ a.index[g] <= a.index[u]
      BY <2>2, <1>2, <1>3
    <3>2. QED
      BY <3>1, <1>1 DEF LeadsOn
  <2>3. CASE g # v /\ u = v
    <3>1. g \in a.in
      BY <2>3, <1>3
    <3>2. PICK p \in a.in : a.index[g] <= a.index[p] /\ v \in a.left[p]
      BY <3>1, <1>5
    <3>3. Reaches(G, g, p)
      BY <3>1, <3>2, <1>1, <1>6 DEF LeadsOn
    <3>4. v \in G[p] /\ p \in N
      BY <3>2, <1>1, <1>2 DEF Looked
    <3>5. Reaches(G, p, v)
      BY <3>4, ReachesNext
    <3>6. QED
      BY <3>3, <3>5, <2>3, ReachesOn
  <2>4. QED
    BY <2>1, <2>2, <2>3
<1>14. LeadsBack(G, b)
  <2> SUFFICES ASSUME NEW u \in b.on PROVE \E g \in b.in : b.index[g] <= b.index[u] /\ Reaches(G, u, g)
    BY DEF LeadsBack
  <2>1. CASE u = v
    <3>1. v \in b.in /\ b.index[v] <= b.index[v] /\ Reaches(G, v, v)
      BY <1>2, <1>3, ReachesItself
    <3>2. QED
      BY <2>1, <3>1
  <2>2. CASE u # v
    <3>1. u \in a.on
      BY <2>2, <1>3
    <3>2. PICK g \in a.in : a.index[g] <= a.index[u] /\ Reaches(G, u, g)
      BY <3>1, <1>1 DEF LeadsBack
    <3>3. g \in b.in /\ g # v /\ g \in N /\ u \in N
      BY <3>1, <1>2, <1>3, <1>6
    <3>4. QED
      BY <3>2, <3>3, <2>2, <1>3
  <2>3. QED
    BY <2>1, <2>2
<1>15. LowIsSeen(G, b)
  <2> SUFFICES ASSUME NEW g \in b.in
               PROVE  \E w \in b.on : b.low[g] = b.index[w] /\ b.index[w] <= b.index[g] /\ Reaches(G, g, w)
    BY DEF LowIsSeen
  <2>1. CASE g = v
    <3>1. v \in b.on /\ b.low[v] = b.index[v] /\ b.index[v] <= b.index[v] /\ Reaches(G, v, v)
      BY <1>2, <1>3, ReachesItself
    <3>2. QED
      BY <2>1, <3>1
  <2>2. CASE g # v
    <3>1. g \in a.in
      BY <2>2, <1>3
    <3>2. PICK w \in a.on : a.low[g] = a.index[w] /\ a.index[w] <= a.index[g] /\ Reaches(G, g, w)
      BY <3>1, <1>1 DEF LowIsSeen
    <3>3. w \in b.on /\ w # v /\ w \in N /\ g \in N
      BY <3>1, <1>2, <1>3, <1>6
    <3>4. QED
      BY <3>2, <3>3, <2>2, <1>3
  <2>3. QED
    BY <2>1, <2>2
<1>16. LowIsLeast(G, b)
  <2> SUFFICES ASSUME NEW u \in b.on, NEW w \in b.on, NEW g \in b.in, w \in G[u] \ b.left[u], Heads(b, g, u)
               PROVE  b.low[g] <= b.index[w]
    BY DEF LowIsLeast
  <2>1. u \in N /\ w \in N /\ g \in N
    BY <1>2, <1>3
  <2>2. CASE g = v
    <3>1. u = v
      <4>1. b.index[v] <= b.index[u]
        BY <2>2 DEF Heads
      <4>2. u # v => b.index[u] <= a.count
        BY <2>1, <1>3, <1>7
      <4>3. QED
        BY <4>1, <4>2, <2>1, <1>3, <1>2, <1>7
    <3>2. b.left[v] = a.left[v] /\ a.left[v] = G[v]
      BY <1>5, <1>6, <1>1, <1>3 DEF Looked
    <3>3. QED
      BY <3>1, <3>2
  <2>3. CASE g # v
    <3>1. u # v
      <4>1. SUFFICES ASSUME u = v PROVE FALSE
        OBVIOUS
      <4>2. b.index[v] <= b.index[g]
        BY <4>1, <1>2, <1>3 DEF Heads
      <4>3. b.index[g] <= a.count
        BY <2>3, <2>1, <1>3, <1>7
      <4>4. QED
        BY <4>2, <4>3, <1>2, <1>3, <2>1, <1>7, <2>3
    <3>2. g \in a.in /\ u \in a.on /\ b.low[g] = a.low[g]
      BY <2>3, <3>1, <2>1, <1>3
    <3>3. Heads(a, g, u)
      <4>1. \A h \in a.in : h \in b.in /\ b.index[h] = a.index[h]
        BY <1>2, <1>3, <1>6
      <4>2. b.index[g] = a.index[g] /\ b.index[u] = a.index[u]
        BY <2>1, <2>3, <3>1, <1>3
      <4>3. QED
        BY <4>1, <4>2, <3>2 DEF Heads
    <3>4. CASE w # v
      <4>1. w \notin a.left[u]
        BY <1>2, <1>5, <2>1, <3>4
      <4>2. w \in a.on
        BY <3>4, <1>3
      <4>3. a.low[g] <= a.index[w]
        BY <4>1, <4>2, <3>2, <3>3, <1>1 DEF LowIsLeast
      <4>4. QED
        BY <4>3, <3>2, <3>4, <2>1, <1>3
    <3>5. CASE w = v
      <4>1. PICK x \in a.on : a.low[g] = a.index[x]
        BY <3>2, <1>1 DEF LowIsSeen
      <4>2. a.low[g] <= a.count
        BY <4>1, <1>7, <1>2
      <4>3. QED
        BY <4>2, <3>5, <3>2, <1>2, <1>3, <2>1
    <3>6. QED
      BY <3>4, <3>5
  <2>4. QED
    BY <2>2, <2>3
<1>17. QED
  BY <1>9, <1>10, <1>11, <1>12, <1>13, <1>14, <1>15, <1>16 DEF ViewInv

LEMMA LookKeeps ==
  ASSUME NEW G, IsGraph(G), NEW a, NEW b \in Views(G), NEW p, NEW w, ViewInv(G, a), Looks(a, b, p, w)
  PROVE  ViewInv(G, b)
<1> DEFINE N == DOMAIN G
<1>1. /\ a \in Views(G)
      /\ Parted(G, a) /\ Numbered(G, a) /\ Closed(G, a.done) /\ Looked(G, a)
      /\ LeadsOn(G, a) /\ LeadsBack(G, a) /\ LowIsSeen(G, a) /\ LowIsLeast(G, a)
  BY DEF ViewInv
<1>2. /\ a.count \in Nat /\ a.index \in [N -> Nat] /\ a.low \in [N -> Nat] /\ a.left \in [N -> SUBSET N]
      /\ a.on \in SUBSET N /\ a.in \in SUBSET N /\ a.done \in SUBSET N
  BY <1>1 DEF Views
<1>3. /\ p \in a.in /\ w \in a.left[p] /\ a.index[w] # 0
      /\ \A h \in a.in : a.index[h] <= a.index[p]
      /\ b.count = a.count /\ b.index = a.index /\ b.on = a.on /\ b.in = a.in /\ b.done = a.done
  BY DEF Looks, Innermost
<1>4. p \in a.on /\ p \in N /\ w \in N /\ w \in G[p]
  BY <1>1, <1>2, <1>3 DEF Parted, Looked
<1>5. b.left[p] = a.left[p] \ {w} /\ \A n \in N \ {p} : b.left[n] = a.left[n]
  BY <1>2, <1>4 DEF Looks
<1>6. /\ \A n \in N \ {p} : b.low[n] = a.low[n]
      /\ b.low[p] \in Nat /\ b.low[p] <= a.low[p]
      /\ b.low[p] = a.low[p] \/ (w \in a.on /\ b.low[p] = a.index[w])
      /\ w \in a.on => b.low[p] <= a.index[w]
  <2>1. Min({a.low[p], a.index[w]}) = IF a.low[p] <= a.index[w] THEN a.low[p] ELSE a.index[w]
    BY <1>2, <1>4, LesserOfTwo
  <2>2. b.low = IF w \in a.on THEN [a.low EXCEPT ![p] = Min({a.low[p], a.index[w]})] ELSE a.low
    BY DEF Looks
  <2>3. a.low[p] \in Nat /\ a.index[w] \in Nat
    BY <1>2, <1>4
  <2>4. CASE w \in a.on
    BY <2>1, <2>2, <2>3, <2>4, <1>2, <1>4
  <2>5. CASE w \notin a.on
    BY <2>2, <2>3, <2>5, <1>2, <1>4
  <2>6. QED
    BY <2>4, <2>5
<1>7. Parted(G, b) /\ Numbered(G, b) /\ Closed(G, b.done)
  BY <1>1, <1>3 DEF Parted, Numbered
<1>8. LeadsOn(G, b) /\ LeadsBack(G, b)
  BY <1>1, <1>3 DEF LeadsOn, LeadsBack
<1>9. Looked(G, b)
  <2> SUFFICES ASSUME NEW n \in N
               PROVE  /\ b.left[n] \subseteq G[n]
                      /\ b.index[n] = 0 => b.left[n] = G[n]
                      /\ n \in b.on \ b.in => b.left[n] = {}
                      /\ b.index[n] # 0 => \A m \in G[n] \ b.left[n] : b.index[m] # 0
    BY DEF Looked
  <2>1. /\ a.left[n] \subseteq G[n]
        /\ a.index[n] = 0 => a.left[n] = G[n]
        /\ n \in a.on \ a.in => a.left[n] = {}
        /\ a.index[n] # 0 => \A m \in G[n] \ a.left[n] : a.index[m] # 0
    BY <1>1 DEF Looked
  <2>2. CASE n # p
    BY <2>1, <2>2, <1>3, <1>5
  <2>3. CASE n = p
    <3>1. a.index[p] # 0
      BY <1>1, <1>4 DEF Parted
    <3>2. QED
      BY <3>1, <2>1, <2>3, <1>3, <1>5
  <2>4. QED
    BY <2>2, <2>3
<1>10. LowIsSeen(G, b)
  <2> SUFFICES ASSUME NEW g \in b.in
               PROVE  \E x \in b.on : b.low[g] = b.index[x] /\ b.index[x] <= b.index[g] /\ Reaches(G, g, x)
    BY DEF LowIsSeen
  <2>1. PICK x \in a.on : a.low[g] = a.index[x] /\ a.index[x] <= a.index[g] /\ Reaches(G, g, x)
    BY <1>1, <1>3 DEF LowIsSeen
  <2>2. CASE b.low[g] = a.low[g]
    BY <2>1, <2>2, <1>3
  <2>3. CASE b.low[g] # a.low[g]
    <3>1. g = p /\ w \in a.on /\ b.low[g] = a.index[w] /\ b.low[g] <= a.low[g]
      BY <2>3, <1>2, <1>3, <1>6
    <3>2. Reaches(G, p, w)
      BY <1>4, ReachesNext
    <3>3. b.index[w] <= b.index[g]
      BY <2>1, <3>1, <1>2, <1>3, <1>4
    <3>4. QED
      BY <3>1, <3>2, <3>3, <1>3
  <2>4. QED
    BY <2>2, <2>3
<1>11. LowIsLeast(G, b)
  <2> SUFFICES ASSUME NEW u \in b.on, NEW x \in b.on, NEW g \in b.in, x \in G[u] \ b.left[u], Heads(b, g, u)
               PROVE  b.low[g] <= b.index[x]
    BY DEF LowIsLeast
  <2>1. u \in N /\ x \in N /\ g \in N /\ u \in a.on /\ x \in a.on /\ g \in a.in
    BY <1>2, <1>3
  <2>2. b.low[g] <= a.low[g] /\ b.low[g] \in Nat /\ a.low[g] \in Nat /\ a.index[x] \in Nat
    BY <2>1, <1>2, <1>6
  <2>3. Heads(a, g, u)
    BY <1>3 DEF Heads
  <2>4. CASE x \notin a.left[u]
    <3>1. a.low[g] <= a.index[x]
      BY <2>1, <2>3, <2>4, <1>1 DEF LowIsLeast
    <3>2. QED
      BY <3>1, <2>2, <1>3
  <2>5. CASE x \in a.left[u]
    <3>1. u = p /\ x = w
      BY <2>5, <2>1, <1>5
    <3>2. g = p
      <4>1. a.index[p] <= a.index[g] /\ a.index[g] <= a.index[p]
        BY <3>1, <2>1, <2>3, <1>2, <1>3, <1>4 DEF Heads
      <4>2. a.index[p] # 0
        BY <1>1, <1>4 DEF Parted
      <4>3. QED
        BY <4>1, <4>2, <2>1, <1>1, <1>2, <1>4 DEF Numbered
    <3>3. QED
      BY <3>1, <3>2, <2>1, <1>3, <1>6
  <2>6. QED
    BY <2>4, <2>5
<1>12. QED
  BY <1>7, <1>8, <1>9, <1>10, <1>11 DEF ViewInv

(* What a node that starts its component takes off the stack is one: it     *)
(* leads back to the node, and no edge leaves it but to finished components. *)
LEMMA TakenIsComponent ==
  ASSUME NEW G, IsGraph(G), NEW a, NEW g, ViewInv(G, a), Innermost(a, g), a.left[g] = {}, a.low[g] = a.index[g]
  PROVE  /\ g \in From(a, g) /\ IsComponent(G, From(a, g))
         /\ Closed(G, a.done \cup From(a, g))
<1> DEFINE N == DOMAIN G
           K == From(a, g)
<1>1. /\ a \in Views(G)
      /\ Parted(G, a) /\ Numbered(G, a) /\ Closed(G, a.done) /\ Looked(G, a)
      /\ LeadsOn(G, a) /\ LeadsBack(G, a) /\ LowIsSeen(G, a) /\ LowIsLeast(G, a)
  BY DEF ViewInv
<1>2. /\ a.count \in Nat /\ a.index \in [N -> Nat] /\ a.low \in [N -> Nat] /\ a.left \in [N -> SUBSET N]
      /\ a.on \in SUBSET N /\ a.in \in SUBSET N /\ a.done \in SUBSET N
  BY <1>1 DEF Views
<1>3. G \in [N -> SUBSET N]
  BY DEF IsGraph
<1>4. g \in a.in /\ g \in a.on /\ g \in N /\ \A h \in a.in : a.index[h] <= a.index[g]
  BY <1>1, <1>2 DEF Innermost, Parted
<1>5. g \in K /\ K \subseteq a.on /\ K \subseteq N
  BY <1>2, <1>4 DEF From
<1>6. ASSUME NEW u \in K PROVE Reaches(G, g, u) /\ Reaches(G, u, g)
  <2>1. u \in a.on /\ a.index[g] <= a.index[u]
    BY DEF From
  <2>2. Reaches(G, g, u)
    BY <2>1, <1>1, <1>4 DEF LeadsOn
  <2>3. PICK h \in a.in : Reaches(G, u, h)
    BY <2>1, <1>1 DEF LeadsBack
  <2>4. Reaches(G, h, g)
    BY <2>3, <1>1, <1>4 DEF LeadsOn
  <2>5. QED
    BY <2>2, <2>3, <2>4, ReachesOn
<1>7. ASSUME NEW u \in K, NEW w \in G[u] PROVE w \in a.done \cup K
  <2>1. u \in a.on /\ u \in N /\ a.index[g] <= a.index[u] /\ w \in N
    BY <1>2, <1>3, <1>5 DEF From
  <2>2. u \in a.in => u = g
    <3>1. SUFFICES ASSUME u \in a.in PROVE u = g
      OBVIOUS
    <3>2. a.index[u] = a.index[g]
      BY <3>1, <2>1, <1>2, <1>4
    <3>3. a.index[g] # 0
      BY <1>1, <1>4 DEF Parted
    <3>4. QED
      BY <3>2, <3>3, <2>1, <1>1, <1>4 DEF Numbered
  <2>3. a.left[u] = {}
    BY <2>1, <2>2, <1>1 DEF Looked
  <2>4. a.index[w] # 0
    BY <2>1, <2>3, <1>1 DEF Looked, Parted
  <2>5. CASE w \in a.on
    <3>1. Heads(a, g, u)
      BY <2>1, <1>4 DEF Heads
    <3>2. a.low[g] <= a.index[w]
      BY <2>1, <2>3, <2>5, <3>1, <1>1, <1>4 DEF LowIsLeast
    <3>3. QED
      BY <3>2, <2>5 DEF From
  <2>6. CASE w \notin a.on
    BY <2>1, <2>4, <2>6, <1>1 DEF Parted
  <2>7. QED
    BY <2>5, <2>6
<1>8. Closed(G, a.done \cup K)
  <2>1. ASSUME NEW f \in a.done \cup K PROVE G[f] \subseteq a.done \cup K
    <3>1. CASE f \in K
      BY <3>1, <1>7
    <3>2. CASE f \in a.done
      BY <3>2, <1>1 DEF Closed
    <3>3. QED
      BY <3>1, <3>2
  <2>2. QED
    BY <2>1 DEF Closed
<1>9. ASSUME NEW u \in K PROVE K = Mutual(G, u)
  <2>1. ASSUME NEW v \in K PROVE v \in Mutual(G, u)
    <3>1. Reaches(G, u, g) /\ Reaches(G, g, v) /\ Reaches(G, v, g) /\ Reaches(G, g, u)
      BY <1>6
    <3>2. QED
      BY <3>1, <1>5, ReachesOn DEF Mutual
  <2>2. ASSUME NEW v \in Mutual(G, u) PROVE v \in K
    <3>1. v \in N /\ Reaches(G, u, v) /\ Reaches(G, v, u)
      BY DEF Mutual
    <3>2. v \in a.done \cup K
      <4>1. a.done \cup K \in SUBSET N /\ u \in a.done \cup K
        BY <1>2, <1>5
      <4>2. QED
        BY <4>1, <3>1, <1>8 DEF Reaches
    <3>3. v \notin a.done
      <4>1. SUFFICES ASSUME v \in a.done PROVE FALSE
        OBVIOUS
      <4>2. u \in a.done
        BY <4>1, <3>1, <1>1, <1>2 DEF Reaches
      <4>3. QED
        BY <4>2, <1>1, <1>5 DEF Parted
    <3>4. QED
      BY <3>2, <3>3
  <2>3. QED
    BY <2>1, <2>2
<1>10. QED
  BY <1>5, <1>8, <1>9 DEF IsComponent

LEMMA ReturnKeeps ==
  ASSUME NEW G, IsGraph(G), NEW a, NEW b \in Views(G), NEW g, ViewInv(G, a), Returns(a, b, g)
  PROVE  ViewInv(G, b)
<1> DEFINE N == DOMAIN G
<1>1. /\ a \in Views(G)
      /\ Parted(G, a) /\ Numbered(G, a) /\ Closed(G, a.done) /\ Looked(G, a)
      /\ LeadsOn(G, a) /\ LeadsBack(G, a) /\ LowIsSeen(G, a) /\ LowIsLeast(G, a)
  BY DEF ViewInv
<1>2. /\ a.count \in Nat /\ a.index \in [N -> Nat] /\ a.low \in [N -> Nat] /\ a.left \in [N -> SUBSET N]
      /\ a.on \in SUBSET N /\ a.in \in SUBSET N /\ a.done \in SUBSET N
  BY <1>1 DEF Views
<1>3. /\ b.in = a.in \ {g} /\ b.count = a.count /\ b.index = a.index /\ b.left = a.left
      /\ Innermost(a, g) /\ a.left[g] = {}
  BY DEF Returns
<1>4. g \in a.in /\ g \in a.on /\ g \in N /\ (\A h \in a.in : a.index[h] <= a.index[g]) /\ a.in \subseteq a.on
  BY <1>1, <1>2, <1>3 DEF Innermost, Parted
<1>5. \A h \in b.in : a.index[h] < a.index[g]
  <2>1. SUFFICES ASSUME NEW h \in b.in PROVE a.index[h] < a.index[g]
    OBVIOUS
  <2>2. h \in a.in /\ h # g /\ h \in N /\ a.index[h] # 0
    BY <1>1, <1>2, <1>3 DEF Parted
  <2>3. QED
    BY <2>2, <1>1, <1>2, <1>4 DEF Numbered
<1>6. \A u \in a.on \ b.on : a.index[g] <= a.index[u]
  BY DEF Returns, From
<1>7. b.on \subseteq a.on
  BY DEF Returns
<1>8. PICK w \in a.on : a.low[g] = a.index[w] /\ a.index[w] <= a.index[g] /\ Reaches(G, g, w)
  BY <1>1, <1>4 DEF LowIsSeen
(* The node that called g, and its link.                                   *)
<1>9. \A h \in b.in : (\A x \in b.in : a.index[x] <= a.index[h])
        => /\ b.low[h] \in Nat /\ b.low[h] <= a.low[h] /\ b.low[h] <= a.low[g]
           /\ b.low[h] = a.low[h] \/ b.low[h] = a.low[g]
  <2>1. SUFFICES ASSUME NEW h \in b.in, \A x \in b.in : a.index[x] <= a.index[h]
                 PROVE  /\ b.low[h] \in Nat /\ b.low[h] <= a.low[h] /\ b.low[h] <= a.low[g]
                        /\ b.low[h] = a.low[h] \/ b.low[h] = a.low[g]
    OBVIOUS
  <2>2. h \in N /\ a.index[h] # 0
    BY <1>1, <1>2, <1>3, <1>4 DEF Parted
  <2>3. PICK p : Innermost(b, p) /\ b.low = [a.low EXCEPT ![p] = Min({a.low[p], a.low[g]})]
    BY <2>1 DEF Returns
  <2>4. p \in b.in /\ p \in N /\ a.index[h] <= a.index[p]
    BY <2>3, <2>1, <1>2, <1>3 DEF Innermost
  <2>5. p = h
    BY <2>1, <2>2, <2>4, <1>1, <1>2 DEF Numbered
  <2>6. Min({a.low[h], a.low[g]}) = IF a.low[h] <= a.low[g] THEN a.low[h] ELSE a.low[g]
    BY <2>2, <1>2, <1>4, LesserOfTwo
  <2>7. a.low[h] \in Nat /\ a.low[g] \in Nat /\ b.low[h] = Min({a.low[h], a.low[g]})
    BY <2>2, <2>3, <2>5, <1>2, <1>4
  <2>8. QED
    BY <2>6, <2>7
<1>10. \A n \in N : n \notin b.in \/ (\E x \in b.in : a.index[n] < a.index[x]) => b.low[n] = a.low[n]
  <2>1. SUFFICES ASSUME NEW n \in N, n \notin b.in \/ \E x \in b.in : a.index[n] < a.index[x] PROVE b.low[n] = a.low[n]
    OBVIOUS
  <2>2. CASE b.low = a.low
    BY <2>2
  <2>3. CASE b.low # a.low
    <3>1. PICK p : Innermost(b, p) /\ b.low = [a.low EXCEPT ![p] = Min({a.low[p], a.low[g]})]
      BY <2>3 DEF Returns
    <3>2. p \in b.in /\ p \in N /\ \A x \in b.in : a.index[x] <= a.index[p]
      BY <3>1, <1>2, <1>3 DEF Innermost
    <3>3. p # n
      BY <2>1, <3>2, <1>2, <1>3
    <3>4. QED
      BY <3>1, <3>2, <3>3, <1>2
  <2>4. QED
    BY <2>2, <2>3
<1>11. Numbered(G, b)
  BY <1>1, <1>3 DEF Numbered
<1>12. CASE a.low[g] # a.index[g]
  <2>1. b.on = a.on /\ b.done = a.done
    BY <1>12 DEF Returns
  <2>2. a.index[w] < a.index[g]
    BY <1>8, <1>12, <1>2, <1>4
  <2>3. Parted(G, b) /\ Closed(G, b.done)
    BY <1>1, <1>3, <2>1 DEF Parted
  <2>4. Looked(G, b)
    BY <1>1, <1>3, <2>1 DEF Looked
  <2>5. LeadsOn(G, b)
    BY <1>1, <1>3, <2>1 DEF LeadsOn
  <2>6. LeadsBack(G, b)
    <3> SUFFICES ASSUME NEW u \in a.on PROVE \E h \in b.in : a.index[h] <= a.index[u] /\ Reaches(G, u, h)
      BY <1>3, <2>1 DEF LeadsBack
    <3>1. PICK h \in a.in : a.index[h] <= a.index[u] /\ Reaches(G, u, h)
      BY <1>1 DEF LeadsBack
    <3>2. CASE h # g
      BY <3>1, <3>2, <1>3
    <3>3. CASE h = g
      <4>1. PICK k \in a.in : a.index[k] <= a.index[w] /\ Reaches(G, w, k)
        BY <1>1, <1>8 DEF LeadsBack
      <4>2. k # g /\ a.index[k] <= a.index[u]
        BY <4>1, <3>1, <3>3, <2>2, <1>2, <1>4, <1>8
      <4>3. Reaches(G, u, k)
        BY <3>1, <3>3, <4>1, <1>8, ReachesOn
      <4>4. QED
        BY <4>1, <4>2, <4>3, <1>3
    <3>4. QED
      BY <3>2, <3>3
  <2>7. LowIsSeen(G, b)
    <3> SUFFICES ASSUME NEW h \in b.in
                 PROVE  \E x \in a.on : b.low[h] = a.index[x] /\ a.index[x] <= a.index[h] /\ Reaches(G, h, x)
      BY <1>3, <2>1 DEF LowIsSeen
    <3>1. h \in a.in /\ h \in N
      BY <1>2, <1>3
    <3>2. PICK x \in a.on : a.low[h] = a.index[x] /\ a.index[x] <= a.index[h] /\ Reaches(G, h, x)
      BY <3>1, <1>1 DEF LowIsSeen
    <3>3. CASE b.low[h] = a.low[h]
      BY <3>2, <3>3
    <3>4. CASE b.low[h] # a.low[h]
      <4>1. \A y \in b.in : a.index[y] <= a.index[h]
        BY <3>1, <3>4, <1>2, <1>3, <1>10
      <4>2. b.low[h] = a.low[g] /\ b.low[h] <= a.low[h]
        BY <4>1, <3>4, <1>9
      <4>3. Reaches(G, h, g)
        BY <3>1, <1>1, <1>4 DEF LeadsOn
      <4>4. Reaches(G, h, w)
        BY <4>3, <1>8, ReachesOn
      <4>5. a.index[w] <= a.index[h]
        BY <4>2, <3>1, <3>2, <1>2, <1>8
      <4>6. QED
        BY <4>2, <4>4, <4>5, <1>8
    <3>5. QED
      BY <3>3, <3>4
  <2>8. LowIsLeast(G, b)
    <3> SUFFICES ASSUME NEW u \in a.on, NEW x \in a.on, NEW h \in b.in, x \in G[u] \ a.left[u], Heads(b, h, u)
                 PROVE  b.low[h] <= a.index[x]
      BY <1>3, <2>1 DEF LowIsLeast
    <3>1. h \in a.in /\ h \in N /\ u \in N /\ x \in N /\ a.index[x] \in Nat /\ a.low[h] \in Nat /\ b.low[h] \in Nat
      BY <1>2, <1>3 DEF Views
    <3>2. a.index[h] <= a.index[u] /\ \A y \in b.in : a.index[y] <= a.index[u] => a.index[y] <= a.index[h]
      BY <1>3 DEF Heads
    <3>3. CASE a.index[g] <= a.index[u]
      <4>1. Heads(a, g, u)
        BY <3>3, <1>4 DEF Heads
      <4>2. a.low[g] <= a.index[x]
        BY <4>1, <1>1, <1>4 DEF LowIsLeast
      <4>3. \A y \in b.in : a.index[y] <= a.index[h]
        <5>1. \A y \in b.in : y \in N /\ a.index[y] < a.index[g]
          BY <1>2, <1>3, <1>5
        <5>2. QED
          BY <5>1, <3>1, <3>2, <3>3, <1>2, <1>4
      <4>4. b.low[h] <= a.low[g]
        BY <4>3, <1>9
      <4>5. QED
        BY <4>2, <4>4, <3>1, <1>2, <1>4
    <3>4. CASE ~(a.index[g] <= a.index[u])
      <4>1. Heads(a, h, u)
        BY <3>1, <3>2, <3>4, <1>3 DEF Heads
      <4>2. a.low[h] <= a.index[x]
        BY <4>1, <3>1, <1>1 DEF LowIsLeast
      <4>3. b.low[h] <= a.low[h]
        <5>1. CASE b.low[h] = a.low[h]
          BY <5>1, <3>1
        <5>2. CASE b.low[h] # a.low[h]
          <6>1. \A y \in b.in : a.index[y] <= a.index[h]
            BY <5>2, <3>1, <1>2, <1>3, <1>10
          <6>2. QED
            BY <6>1, <1>9
        <5>3. QED
          BY <5>1, <5>2
      <4>4. QED
        BY <4>2, <4>3, <3>1
    <3>5. QED
      BY <3>3, <3>4
  <2>9. QED
    BY <1>11, <2>3, <2>4, <2>5, <2>6, <2>7, <2>8 DEF ViewInv
<1>13. CASE a.low[g] = a.index[g]
  <2>1. b.on = a.on \ From(a, g) /\ b.done = a.done \cup From(a, g)
    BY <1>13 DEF Returns
  <2>2. From(a, g) \subseteq a.on /\ g \in From(a, g) /\ Closed(G, b.done)
    BY <2>1, <1>3, <1>13, TakenIsComponent DEF From
  <2>3. \A u \in a.on : u \in b.on <=> a.index[u] < a.index[g]
    BY <2>1, <1>2, <1>4 DEF From
  <2>4. b.in \subseteq b.on
    BY <2>3, <1>3, <1>4, <1>5
  <2>5. Parted(G, b)
    <3>1. b.on \cap b.done = {} /\ b.on \cup b.done = a.on \cup a.done
      BY <2>1, <2>2, <1>1 DEF Parted
    <3>2. QED
      BY <3>1, <2>4, <1>1, <1>3 DEF Parted
  <2>6. Looked(G, b)
    BY <1>1, <1>3, <1>7, <2>2, <2>1 DEF Looked
  <2>7. LeadsOn(G, b)
    BY <1>1, <1>3, <1>7 DEF LeadsOn
  <2>8. LeadsBack(G, b)
    <3> SUFFICES ASSUME NEW u \in b.on PROVE \E h \in b.in : a.index[h] <= a.index[u] /\ Reaches(G, u, h)
      BY <1>3 DEF LeadsBack
    <3>1. PICK h \in a.in : a.index[h] <= a.index[u] /\ Reaches(G, u, h)
      BY <1>1, <1>7 DEF LeadsBack
    <3>2. h # g
      <4>1. a.index[u] < a.index[g]
        BY <2>3, <1>7
      <4>2. QED
        BY <4>1, <3>1, <1>2, <1>4, <1>7
    <3>3. QED
      BY <3>1, <3>2, <1>3
  <2>9. \A h \in b.in : b.low[h] = a.low[h]
    <3>1. SUFFICES ASSUME NEW h \in b.in, b.low[h] # a.low[h] PROVE FALSE
      OBVIOUS
    <3>2. h \in a.in /\ h \in N /\ a.index[h] < a.index[g]
      BY <1>2, <1>3, <1>5
    <3>3. \A y \in b.in : a.index[y] <= a.index[h]
      BY <3>1, <3>2, <1>2, <1>3, <1>10
    <3>4. b.low[h] = a.low[g] /\ b.low[h] <= a.low[h]
      BY <3>1, <3>3, <1>9
    <3>5. PICK x \in a.on : a.low[h] = a.index[x] /\ a.index[x] <= a.index[h]
      BY <3>2, <1>1 DEF LowIsSeen
    <3>6. QED
      BY <3>2, <3>4, <3>5, <1>2, <1>4, <1>13
  <2>10. LowIsSeen(G, b)
    <3> SUFFICES ASSUME NEW h \in b.in
                 PROVE  \E x \in b.on : a.low[h] = a.index[x] /\ a.index[x] <= a.index[h] /\ Reaches(G, h, x)
      BY <1>3, <2>9 DEF LowIsSeen
    <3>1. h \in a.in /\ h \in N /\ a.index[h] < a.index[g]
      BY <1>2, <1>3, <1>5
    <3>2. PICK x \in a.on : a.low[h] = a.index[x] /\ a.index[x] <= a.index[h] /\ Reaches(G, h, x)
      BY <3>1, <1>1 DEF LowIsSeen
    <3>3. x \in b.on
      BY <3>1, <3>2, <2>3, <1>2, <1>4
    <3>4. QED
      BY <3>2, <3>3
  <2>11. LowIsLeast(G, b)
    <3> SUFFICES ASSUME NEW u \in b.on, NEW x \in b.on, NEW h \in b.in, x \in G[u] \ a.left[u], Heads(b, h, u)
                 PROVE  a.low[h] <= a.index[x]
      BY <1>3, <2>9 DEF LowIsLeast
    <3>1. u \in a.on /\ x \in a.on /\ h \in a.in /\ a.index[u] < a.index[g]
      BY <1>3, <1>7, <2>3
    <3>2. Heads(a, h, u)
      <4>1. u \in N /\ ~(a.index[g] <= a.index[u])
        BY <3>1, <1>2, <1>4
      <4>2. QED
        BY <4>1, <3>1, <1>3 DEF Heads
    <3>3. QED
      BY <3>1, <3>2, <1>1 DEF LowIsLeast
  <2>12. QED
    BY <1>11, <2>2, <2>5, <2>6, <2>7, <2>8, <2>10, <2>11 DEF ViewInv
<1>14. QED
  BY <1>12, <1>13

(***************************************************************************)
(* The same of the model's sequences.                                      *)
(***************************************************************************)
LEMMA Appended ==
  ASSUME NEW E, NEW s \in Seq(E), NEW v \in E
  PROVE  /\ Append(s, v) \in Seq(E) /\ Len(Append(s, v)) = Len(s) + 1 /\ Len(s) \in Nat
         /\ Append(s, v)[Len(s) + 1] = v /\ \A i \in 1..Len(s) : Append(s, v)[i] = s[i]
         /\ ToSet(Append(s, v)) = ToSet(s) \cup {v}
<1>1. /\ Append(s, v) \in Seq(E) /\ Len(Append(s, v)) = Len(s) + 1 /\ Len(s) \in Nat
      /\ Append(s, v)[Len(s) + 1] = v /\ \A i \in 1..Len(s) : Append(s, v)[i] = s[i]
      /\ DOMAIN s = 1..Len(s) /\ DOMAIN Append(s, v) = 1..(Len(s) + 1)
  OBVIOUS
<1>2. ASSUME NEW x \in ToSet(Append(s, v)) PROVE x \in ToSet(s) \cup {v}
  <2>1. PICK i \in 1..(Len(s) + 1) : x = Append(s, v)[i]
    BY <1>1 DEF ToSet
  <2>2. CASE i = Len(s) + 1
    BY <2>1, <2>2, <1>1
  <2>3. CASE i \in 1..Len(s)
    BY <2>1, <2>3, <1>1 DEF ToSet
  <2>4. QED
    BY <2>2, <2>3, <1>1
<1>3. ASSUME NEW x \in ToSet(s) \cup {v} PROVE x \in ToSet(Append(s, v))
  <2>1. CASE x = v
    <3>1. Len(s) + 1 \in DOMAIN Append(s, v)
      BY <1>1
    <3>2. QED
      BY <3>1, <2>1, <1>1 DEF ToSet
  <2>2. CASE x \in ToSet(s)
    <3>1. PICK i \in 1..Len(s) : x = s[i]
      BY <2>2, <1>1 DEF ToSet
    <3>2. i \in DOMAIN Append(s, v) /\ Append(s, v)[i] = x
      BY <3>1, <1>1
    <3>3. QED
      BY <3>2 DEF ToSet
  <2>3. QED
    BY <2>1, <2>2
<1>4. QED
  BY <1>1, <1>2, <1>3

Above(index, after, s, v) == \A x \in ToSet(s) : after[x] = index[x] /\ after[x] < after[v]
Rising(index, s) == \A i, j \in 1..Len(s) : i < j => index[s[i]] < index[s[j]]

LEMMA RisingOn ==
  ASSUME NEW E, NEW s \in Seq(E), NEW v \in E, NEW index, NEW after, Rising(index, s),
         Above(index, after, s, v)
  PROVE  Rising(after, Append(s, v))
<1>1. /\ Len(Append(s, v)) = Len(s) + 1 /\ Len(s) \in Nat
      /\ Append(s, v)[Len(s) + 1] = v /\ \A i \in 1..Len(s) : Append(s, v)[i] = s[i]
  BY Appended
<1>2. \A i \in 1..Len(s) : s[i] \in ToSet(s)
  BY DEF ToSet
<1>3. SUFFICES ASSUME NEW i \in 1..(Len(s) + 1), NEW j \in 1..(Len(s) + 1), i < j
               PROVE  after[Append(s, v)[i]] < after[Append(s, v)[j]]
  BY <1>1 DEF Rising
<1>4. i \in 1..Len(s) /\ (j \in 1..Len(s) \/ j = Len(s) + 1)
  BY <1>1, <1>3
<1>5. CASE j = Len(s) + 1
  BY <1>1, <1>2, <1>4, <1>5 DEF Above
<1>6. CASE j \in 1..Len(s)
  BY <1>1, <1>2, <1>3, <1>4, <1>6 DEF Rising, Above
<1>7. QED
  BY <1>4, <1>5, <1>6

(* The front of a rising sequence, cut before a place; and what is cut off. *)
LEMMA CutBefore ==
  ASSUME NEW E, NEW s \in Seq(E), NEW index \in [E -> Nat], Rising(index, s), NEW k \in 1..Len(s)
  PROVE  /\ SubSeq(s, 1, k - 1) \in Seq(E) /\ Rising(index, SubSeq(s, 1, k - 1))
         /\ SubSeq(s, k, Len(s)) \in Seq(E)
         /\ ToSet(SubSeq(s, 1, k - 1)) = {x \in ToSet(s) : index[x] < index[s[k]]}
         /\ ToSet(SubSeq(s, k, Len(s))) = {x \in ToSet(s) : index[s[k]] <= index[x]}
<1> DEFINE l == SubSeq(s, 1, k - 1)
           r == SubSeq(s, k, Len(s))
           n == Len(s)
<1>1. /\ n \in Nat /\ k \in Nat /\ 1 <= k /\ k <= n /\ \A i \in 1..n : s[i] \in E /\ index[s[i]] \in Nat
  OBVIOUS
<1>2. /\ l \in Seq(E) /\ Len(l) = k - 1 /\ \A i \in 1..(k - 1) : l[i] = s[i]
      /\ DOMAIN l = 1..(k - 1)
  BY <1>1
<1>3. /\ r \in Seq(E) /\ Len(r) = n - k + 1 /\ \A i \in 1..(n - k + 1) : r[i] = s[i + k - 1]
      /\ DOMAIN r = 1..(n - k + 1)
  BY <1>1
<1> HIDE DEF l, r
<1>4. ToSet(s) = {s[i] : i \in 1..n} /\ ToSet(l) = {l[i] : i \in 1..(k - 1)} /\ ToSet(r) = {r[i] : i \in 1..(n - k + 1)}
  <2>1. DOMAIN s = 1..n
    OBVIOUS
  <2>2. QED
    BY <2>1, <1>2, <1>3 DEF ToSet
<1>5. \A i \in 1..n : index[s[i]] < index[s[k]] <=> i < k
  BY <1>1 DEF Rising
<1>6. Rising(index, l)
  <2>1. SUFFICES ASSUME NEW i \in 1..(k - 1), NEW j \in 1..(k - 1), i < j PROVE index[l[i]] < index[l[j]]
    BY <1>2 DEF Rising
  <2>2. i \in 1..n /\ j \in 1..n
    BY <1>1
  <2>3. QED
    BY <2>1, <2>2, <1>2 DEF Rising
<1>7. ASSUME NEW x PROVE x \in ToSet(l) <=> x \in {y \in ToSet(s) : index[y] < index[s[k]]}
  <2>1. ASSUME x \in ToSet(l) PROVE x \in ToSet(s) /\ index[x] < index[s[k]]
    <3>1. PICK i \in 1..(k - 1) : x = s[i]
      BY <2>1, <1>2, <1>4
    <3>2. i \in 1..n /\ i < k
      BY <1>1
    <3>3. QED
      BY <3>1, <3>2, <1>4, <1>5
  <2>2. ASSUME x \in ToSet(s), index[x] < index[s[k]] PROVE x \in ToSet(l)
    <3>1. PICK i \in 1..n : x = s[i]
      BY <2>2, <1>4
    <3>2. i \in 1..(k - 1)
      BY <3>1, <2>2, <1>1, <1>5
    <3>3. QED
      BY <3>1, <3>2, <1>2, <1>4
  <2>3. QED
    BY <2>1, <2>2
<1>8. ASSUME NEW x PROVE x \in ToSet(r) <=> x \in {y \in ToSet(s) : index[s[k]] <= index[y]}
  <2>1. ASSUME x \in ToSet(r) PROVE x \in ToSet(s) /\ index[s[k]] <= index[x]
    <3>1. PICK i \in 1..(n - k + 1) : x = s[i + k - 1]
      BY <2>1, <1>3, <1>4
    <3>2. i + k - 1 \in 1..n /\ ~(i + k - 1 < k)
      BY <1>1
    <3>3. QED
      BY <3>1, <3>2, <1>1, <1>4, <1>5
  <2>2. ASSUME x \in ToSet(s), index[s[k]] <= index[x] PROVE x \in ToSet(r)
    <3>1. PICK i \in 1..n : x = s[i]
      BY <2>2, <1>4
    <3>2. ~(i < k)
      BY <3>1, <2>2, <1>1, <1>5
    <3>3. i - k + 1 \in 1..(n - k + 1) /\ (i - k + 1) + k - 1 = i
      BY <3>2, <1>1
    <3>4. QED
      BY <3>1, <3>3, <1>3, <1>4
  <2>3. QED
    BY <2>1, <2>2
<1>9. QED
  BY <1>2, <1>3, <1>6, <1>7, <1>8 DEF l, r

Numberings(G) ==
  LET N == DOMAIN G
  IN [count : Nat, index : [N -> Nat], low : [N -> Nat], left : [N -> SUBSET N],
      stack : Seq(N), calls : Seq(N), components : Seq(Seq(N))]

Finished(t) == UNION {ToSet(t.components[i]) : i \in 1..Len(t.components)}
View(t) == [count |-> t.count, index |-> t.index, low |-> t.low, left |-> t.left,
            on |-> ToSet(t.stack), in |-> ToSet(t.calls), done |-> Finished(t)]

Reported(G, c) == IsComponent(G, ToSet(c)) /\ Len(c) = Cardinality(ToSet(c))
AllReported(G, t) ==
  /\ \A i \in 1..Len(t.components) : Reported(G, t.components[i])
  /\ \A i, j \in 1..Len(t.components) : i # j => ToSet(t.components[i]) \cap ToSet(t.components[j]) = {}

TarjanInv(G, t) ==
  /\ t \in Numberings(G) /\ ViewInv(G, View(t))
  /\ Rising(t.index, t.stack) /\ Rising(t.index, t.calls)
  /\ AllReported(G, t)

LEMMA EntriesAreIn == ASSUME NEW E, NEW s \in Seq(E) PROVE ToSet(s) \subseteq E /\ \A i \in 1..Len(s) : s[i] \in ToSet(s)
BY DEF ToSet

LEMMA ViewType == ASSUME NEW G, NEW t \in Numberings(G) PROVE View(t) \in Views(G)
<1>1. /\ t.stack \in Seq(DOMAIN G) /\ t.calls \in Seq(DOMAIN G) /\ t.components \in Seq(Seq(DOMAIN G))
      /\ t.count \in Nat /\ t.index \in [DOMAIN G -> Nat] /\ t.low \in [DOMAIN G -> Nat] /\ t.left \in [DOMAIN G -> SUBSET DOMAIN G]
  BY DEF Numberings
<1>2. ToSet(t.stack) \subseteq DOMAIN G /\ ToSet(t.calls) \subseteq DOMAIN G
  BY <1>1, EntriesAreIn
<1>3. \A i \in 1..Len(t.components) : ToSet(t.components[i]) \subseteq DOMAIN G
  <2>1. \A i \in 1..Len(t.components) : t.components[i] \in Seq(DOMAIN G)
    BY <1>1
  <2>2. QED
    BY <2>1, EntriesAreIn
<1>4. Finished(t) \subseteq DOMAIN G
  BY <1>3 DEF Finished
<1>5. QED
  BY <1>1, <1>2, <1>4 DEF View, Views

(* The last call is the innermost: calls rise.                             *)
LEMMA LastIsInnermost ==
  ASSUME NEW G, NEW t, TarjanInv(G, t), t.calls # <<>>
  PROVE  Len(t.calls) \in 1..Len(t.calls) /\ Last(t.calls) \in DOMAIN G /\ Innermost(View(t), Last(t.calls))
<1>1. t.calls \in Seq(DOMAIN G) /\ t.index \in [DOMAIN G -> Nat] /\ Rising(t.index, t.calls)
  BY DEF TarjanInv, Numberings
<1>2. Len(t.calls) \in 1..Len(t.calls) /\ Last(t.calls) = t.calls[Len(t.calls)] /\ Last(t.calls) \in DOMAIN G
  BY <1>1 DEF Last
<1>3. ASSUME NEW h \in ToSet(t.calls) PROVE t.index[h] <= t.index[Last(t.calls)]
  <2>1. PICK i \in 1..Len(t.calls) : h = t.calls[i]
    BY <1>1 DEF ToSet
  <2>2. CASE i = Len(t.calls)
    BY <2>1, <2>2, <1>1, <1>2
  <2>3. CASE i < Len(t.calls)
    BY <2>1, <2>3, <1>1, <1>2 DEF Rising
  <2>4. QED
    BY <2>2, <2>3, <1>2
<1>4. Last(t.calls) \in ToSet(t.calls)
  BY <1>1, <1>2, EntriesAreIn
<1>5. QED
  BY <1>2, <1>3, <1>4 DEF Innermost, View

(* A node that has no number yet is entered, from outside or from the       *)
(* innermost call.                                                         *)
EnteredFrom(t, r, v) ==
  \/ t.calls = <<>> /\ r = t
  \/ t.calls # <<>> /\ v \in t.left[Last(t.calls)] /\ r = [t EXCEPT !.left[Last(t.calls)] = t.left[Last(t.calls)] \ {v}]

LEMMA EnterKeeps ==
  ASSUME NEW G, IsGraph(G), NEW t, TarjanInv(G, t), NEW v \in DOMAIN G, t.index[v] = 0, NEW r, EnteredFrom(t, r, v)
  PROVE  /\ TarjanInv(G, Enter(r, v)) /\ Enter(r, v).left = r.left
         /\ Enter(r, v).index = [t.index EXCEPT ![v] = t.count + 1]
         /\ ToSet(Enter(r, v).calls) = ToSet(t.calls) \cup {v}
<1> DEFINE N == DOMAIN G
           u == Enter(r, v)
<1>1. /\ t \in Numberings(G) /\ ViewInv(G, View(t))
      /\ Rising(t.index, t.stack) /\ Rising(t.index, t.calls) /\ AllReported(G, t)
  BY DEF TarjanInv
<1>2. /\ t.count \in Nat /\ t.index \in [N -> Nat] /\ t.low \in [N -> Nat] /\ t.left \in [N -> SUBSET N]
      /\ t.stack \in Seq(N) /\ t.calls \in Seq(N) /\ t.components \in Seq(Seq(N))
  BY <1>1 DEF Numberings
<1>3. t.calls # <<>> => Last(t.calls) \in N /\ Innermost(View(t), Last(t.calls))
  BY LastIsInnermost
<1>4. /\ r \in Numberings(G)
      /\ r.count = t.count /\ r.index = t.index /\ r.low = t.low
      /\ r.stack = t.stack /\ r.calls = t.calls /\ r.components = t.components
  <2>1. CASE t.calls = <<>>
    BY <2>1, <1>1 DEF EnteredFrom
  <2>2. CASE t.calls # <<>>
    <3> DEFINE p == Last(t.calls)
    <3>1. p \in N /\ r = [t EXCEPT !.left[p] = t.left[p] \ {v}]
      BY <2>2, <1>3 DEF EnteredFrom
    <3> HIDE DEF p
    <3>2. QED
      BY <3>1, <1>1, <1>2 DEF Numberings
  <2>3. QED
    BY <2>1, <2>2
<1>5. /\ u.count = t.count + 1 /\ u.index = [t.index EXCEPT ![v] = t.count + 1] /\ u.low = [t.low EXCEPT ![v] = t.count + 1]
      /\ u.left = r.left /\ u.stack = Append(t.stack, v) /\ u.calls = Append(t.calls, v) /\ u.components = t.components
  BY <1>4 DEF Enter, Numberings
<1>6. u \in Numberings(G)
  <2>1. Append(t.stack, v) \in Seq(N) /\ Append(t.calls, v) \in Seq(N) /\ r.left \in [N -> SUBSET N]
    BY <1>2, <1>4, Appended DEF Numberings
  <2>2. u = [count |-> t.count + 1, index |-> [t.index EXCEPT ![v] = t.count + 1], low |-> [t.low EXCEPT ![v] = t.count + 1],
             left |-> r.left, stack |-> Append(t.stack, v), calls |-> Append(t.calls, v), components |-> t.components]
    <3>1. r = [count |-> t.count, index |-> t.index, low |-> t.low, left |-> r.left,
               stack |-> t.stack, calls |-> t.calls, components |-> t.components]
      BY <1>4 DEF Numberings
    <3>2. PICK left : left = r.left
      OBVIOUS
    <3>3. r = [count |-> t.count, index |-> t.index, low |-> t.low, left |-> left,
               stack |-> t.stack, calls |-> t.calls, components |-> t.components]
      BY <3>1, <3>2
    <3>4. u = [[count |-> t.count, index |-> t.index, low |-> t.low, left |-> left,
               stack |-> t.stack, calls |-> t.calls, components |-> t.components]
         EXCEPT !.count = t.count + 1, !.index[v] = t.count + 1, !.low[v] = t.count + 1,
            !.stack = Append(t.stack, v), !.calls = Append(t.calls, v)]
      BY <3>3, <1>4 DEF Enter
    <3> HIDE DEF u
    <3>5. QED
      BY <3>2, <3>4
  <2>3. [t.index EXCEPT ![v] = t.count + 1] \in [N -> Nat] /\ [t.low EXCEPT ![v] = t.count + 1] \in [N -> Nat]
    BY <1>2
  <2> HIDE DEF u
  <2>4. QED
    BY <2>1, <2>2, <2>3, <1>2 DEF Numberings
<1> HIDE DEF u
<1>7. ToSet(u.stack) = ToSet(t.stack) \cup {v} /\ ToSet(u.calls) = ToSet(t.calls) \cup {v}
  BY <1>2, <1>5, Appended
<1>8. /\ t.calls = <<>> => ToSet(t.calls) = {} /\ u.left = t.left
      /\ t.calls # <<>> => v \in t.left[Last(t.calls)] /\ u.left = [t.left EXCEPT ![Last(t.calls)] = t.left[Last(t.calls)] \ {v}]
  <2>1. CASE t.calls = <<>>
    BY <2>1, <1>5 DEF EnteredFrom, ToSet
  <2>2. CASE t.calls # <<>>
    BY <2>2, <1>1, <1>5 DEF EnteredFrom, Numberings
  <2>3. QED
    BY <2>1, <2>2
<1>9. Visits(View(t), View(u), v)
  <2>1. View(u).on = View(t).on \cup {v} /\ View(u).in = View(t).in \cup {v} /\ View(u).done = View(t).done
    BY <1>5, <1>7 DEF View, Finished
  <2>2. /\ View(t).index[v] = 0 /\ View(u).count = View(t).count + 1
        /\ View(u).index = [View(t).index EXCEPT ![v] = View(t).count + 1]
        /\ View(u).low = [View(t).low EXCEPT ![v] = View(t).count + 1]
    BY <1>5 DEF View
  <2>3. \/ View(t).in = {} /\ View(u).left = View(t).left
        \/ \E p : Innermost(View(t), p) /\ v \in View(t).left[p] /\ View(u).left = [View(t).left EXCEPT ![p] = View(t).left[p] \ {v}]
    <3>1. View(t).in = ToSet(t.calls) /\ View(t).left = t.left /\ View(u).left = u.left
      BY DEF View
    <3>2. QED
      BY <3>1, <1>3, <1>8
  <2>4. QED
    BY <2>1, <2>2, <2>3 DEF Visits
<1>10. ViewInv(G, View(u))
  <2>1. View(u) \in Views(G)
    BY <1>6, ViewType
  <2>2. QED
    BY <2>1, <1>1, <1>9, VisitKeeps
<1>11. Rising(u.index, u.stack) /\ Rising(u.index, u.calls)
  <2>1. ASSUME NEW x \in ToSet(t.stack) \cup ToSet(t.calls) PROVE u.index[x] = t.index[x] /\ u.index[x] < u.index[v]
    <3>1. Parted(G, View(t)) /\ Numbered(G, View(t))
      BY <1>1 DEF ViewInv
    <3>2. x \in ToSet(t.stack)
      BY <3>1 DEF Parted, View
    <3>3. x \in N
      BY <3>2, <1>2, EntriesAreIn
    <3>4. t.index[x] # 0 /\ t.index[x] <= t.count
      BY <3>1, <3>2, <3>3 DEF Parted, Numbered, View
    <3>5. QED
      BY <3>3, <3>4, <1>2, <1>5
  <2>2. Rising(u.index, Append(t.stack, v))
    <3>1. Above(t.index, u.index, t.stack, v)
      BY <2>1 DEF Above
    <3>2. QED
      BY <3>1, <1>1, <1>2, RisingOn
  <2>3. Rising(u.index, Append(t.calls, v))
    <3>1. Above(t.index, u.index, t.calls, v)
      BY <2>1 DEF Above
    <3>2. QED
      BY <3>1, <1>1, <1>2, RisingOn
  <2>4. QED
    BY <2>2, <2>3, <1>5
<1>12. AllReported(G, u)
  BY <1>1, <1>5 DEF AllReported
<1>13. QED
  BY <1>5, <1>6, <1>7, <1>10, <1>11, <1>12 DEF TarjanInv, u

(* An edge of the innermost call to a node that has a number is looked at.  *)
LooksAt(t, r, p, w) ==
  /\ t.calls # <<>> /\ p = Last(t.calls) /\ w \in t.left[p] /\ t.index[w] # 0
  /\ r = [t EXCEPT !.left[p] = t.left[p] \ {w}]

LEMMA BackEdgeKeeps ==
  ASSUME NEW G, IsGraph(G), NEW t, TarjanInv(G, t), NEW p, NEW w, NEW r, LooksAt(t, r, p, w)
  PROVE  /\ TarjanInv(G, BackEdge(r, p, w)) /\ BackEdge(r, p, w).left = [t.left EXCEPT ![p] = t.left[p] \ {w}]
         /\ BackEdge(r, p, w).index = t.index /\ BackEdge(r, p, w).calls = t.calls
<1> DEFINE N == DOMAIN G
           u == BackEdge(r, p, w)
<1> USE DEF LooksAt
<1>1. /\ t \in Numberings(G) /\ ViewInv(G, View(t))
      /\ Rising(t.index, t.stack) /\ Rising(t.index, t.calls) /\ AllReported(G, t)
  BY DEF TarjanInv
<1>2. /\ t.count \in Nat /\ t.index \in [N -> Nat] /\ t.low \in [N -> Nat] /\ t.left \in [N -> SUBSET N]
      /\ t.stack \in Seq(N) /\ t.calls \in Seq(N) /\ t.components \in Seq(Seq(N))
  BY <1>1 DEF Numberings
<1>3. p \in N /\ Innermost(View(t), p) /\ w \in N
  <2>1. p \in N /\ Innermost(View(t), p)
    BY LastIsInnermost
  <2>2. QED
    BY <2>1, <1>2
<1> DEFINE left == [t.left EXCEPT ![p] = t.left[p] \ {w}]
           least == Min({t.low[p], t.index[w]})
           low == IF w \in ToSet(t.stack) THEN [t.low EXCEPT ![p] = least] ELSE t.low
<1>4. r = [count |-> t.count, index |-> t.index, low |-> t.low, left |-> left,
           stack |-> t.stack, calls |-> t.calls, components |-> t.components]
  BY <1>1, <1>2, <1>3 DEF Numberings
<1>5. left \in [N -> SUBSET N] /\ low \in [N -> Nat]
  <2>1. t.low[p] \in Nat /\ t.index[w] \in Nat
    BY <1>2, <1>3
  <2>2. least = IF t.low[p] <= t.index[w] THEN t.low[p] ELSE t.index[w]
    BY ONLY <2>1, LesserOfTwo
  <2>3. least \in Nat
    BY <2>1, <2>2
  <2> HIDE DEF least
  <2>4. QED
    BY <2>3, <1>2, <1>3
<1> HIDE DEF left
<1>6. Contains(t.stack, w) <=> w \in ToSet(t.stack)
  <2>1. DOMAIN t.stack = 1..Len(t.stack)
    BY <1>2
  <2>2. QED
    BY <2>1 DEF Contains, ToSet
<1>7. u = [count |-> t.count, index |-> t.index, low |-> low, left |-> left,
           stack |-> t.stack, calls |-> t.calls, components |-> t.components]
  <2>1. CASE w \in ToSet(t.stack)
    <3>1. u = [r EXCEPT !.low[p] = Min({r.low[p], r.index[w]})] 
      BY <2>1, <1>4, <1>6 DEF BackEdge, LowerTo
    <3>2. u = [r EXCEPT !.low[p] = least]
      BY <3>1, <1>4
    <3> HIDE DEF u, least
    <3>3. PICK v : v = least
      OBVIOUS
    <3>4. u = [[count |-> t.count, index |-> t.index, low |-> t.low, left |-> left,
                stack |-> t.stack, calls |-> t.calls, components |-> t.components] EXCEPT !.low[p] = v]
      BY ONLY <3>2, <3>3, <1>4
    <3>5. u = [count |-> t.count, index |-> t.index, low |-> [t.low EXCEPT ![p] = v], left |-> left,
               stack |-> t.stack, calls |-> t.calls, components |-> t.components]
      BY ONLY <3>4
    <3>6. low = [t.low EXCEPT ![p] = v]
      BY <3>3, <2>1
    <3> HIDE DEF low
    <3>7. QED
      BY ONLY <3>5, <3>6
  <2>2. CASE w \notin ToSet(t.stack)
    BY <2>2, <1>4, <1>6 DEF BackEdge
  <2>3. QED
    BY <2>1, <2>2
<1> HIDE DEF u, low
<1>8. u \in Numberings(G)
  BY <1>2, <1>5, <1>7 DEF Numberings
<1>9. Looks(View(t), View(u), p, w)
  <2>1. /\ View(u).count = View(t).count /\ View(u).index = View(t).index /\ View(u).on = View(t).on
        /\ View(u).in = View(t).in /\ View(u).done = View(t).done
    BY <1>7 DEF View, Finished
  <2>2. w \in View(t).left[p] /\ View(t).index[w] # 0 /\ View(u).left = [View(t).left EXCEPT ![p] = View(t).left[p] \ {w}]
    BY <1>7 DEF View, left
  <2>3. View(u).low = IF w \in View(t).on THEN [View(t).low EXCEPT ![p] = Min({View(t).low[p], View(t).index[w]})] ELSE View(t).low
    BY <1>7 DEF View, low
  <2>4. QED
    BY <2>1, <2>2, <2>3, <1>3 DEF Looks
<1>10. ViewInv(G, View(u))
  <2>1. View(u) \in Views(G)
    BY <1>8, ViewType
  <2>2. QED
    BY <2>1, <1>1, <1>9, LookKeeps
<1>11. Rising(u.index, u.stack) /\ Rising(u.index, u.calls) /\ AllReported(G, u)
  BY <1>1, <1>7 DEF AllReported
<1>12. u.left = left /\ u.index = t.index /\ u.calls = t.calls
  BY <1>7
<1>13. TarjanInv(G, u)
  BY <1>8, <1>10, <1>11 DEF TarjanInv
<1>14. QED
  BY <1>12, <1>13 DEF u, left

LEMMA ClosedTo ==
  ASSUME NEW G, IsGraph(G), NEW t, TarjanInv(G, t), t.calls # <<>>, NEW g, g = Last(t.calls), t.left[g] = {},
         t.low[g] = t.index[g], NEW u, u = CloseComponent(t, g)
  PROVE  /\ u \in Numberings(G) /\ Rising(u.index, u.stack) /\ AllReported(G, u)
         /\ u.count = t.count /\ u.index = t.index /\ u.low = t.low /\ u.left = t.left /\ u.calls = t.calls
         /\ ToSet(u.stack) = ToSet(t.stack) \ From(View(t), g)
         /\ Finished(u) = Finished(t) \cup From(View(t), g)
<1> DEFINE N == DOMAIN G
           at == CHOOSE i \in DOMAIN t.stack : t.stack[i] = g
           K == From(View(t), g)
           stack == SubSeq(t.stack, 1, at - 1)
           taken == SubSeq(t.stack, at, Len(t.stack))
           component == Sorted(K)
           n == Len(t.components)
<1>1. /\ t \in Numberings(G) /\ ViewInv(G, View(t))
      /\ Rising(t.index, t.stack) /\ Rising(t.index, t.calls) /\ AllReported(G, t)
  BY DEF TarjanInv
<1>2. /\ t.count \in Nat /\ t.index \in [N -> Nat] /\ t.low \in [N -> Nat] /\ t.left \in [N -> SUBSET N]
      /\ t.stack \in Seq(N) /\ t.calls \in Seq(N) /\ t.components \in Seq(Seq(N))
  BY <1>1 DEF Numberings
<1>3. g \in N /\ Innermost(View(t), g)
  BY LastIsInnermost
<1>4. g \in ToSet(t.stack)
  BY <1>1, <1>3 DEF ViewInv, Parted, Innermost, View
<1>5. at \in 1..Len(t.stack) /\ t.stack[at] = g
  <2>1. \E i \in DOMAIN t.stack : t.stack[i] = g
    BY <1>4 DEF ToSet
  <2>2. at \in DOMAIN t.stack /\ t.stack[at] = g
    BY <2>1
  <2>3. DOMAIN t.stack = 1..Len(t.stack)
    BY <1>2
  <2> HIDE DEF at
  <2>4. QED
    BY ONLY <2>2, <2>3
<1> HIDE DEF at
<1>6. /\ stack \in Seq(N) /\ Rising(t.index, stack)
      /\ ToSet(stack) = {x \in ToSet(t.stack) : t.index[x] < t.index[g]}
      /\ ToSet(taken) = {x \in ToSet(t.stack) : t.index[g] <= t.index[x]}
  <2>1. t.stack \in Seq(N) /\ t.index \in [N -> Nat] /\ Rising(t.index, t.stack)
    BY <1>1, <1>2
  <2> HIDE DEF N
  <2>2. /\ stack \in Seq(N) /\ Rising(t.index, stack)
        /\ ToSet(stack) = {x \in ToSet(t.stack) : t.index[x] < t.index[t.stack[at]]}
        /\ ToSet(taken) = {x \in ToSet(t.stack) : t.index[t.stack[at]] <= t.index[x]}
    BY ONLY <2>1, <1>5, CutBefore
  <2> HIDE DEF stack, taken
  <2>3. QED
    BY ONLY <2>2, <1>5
<1> HIDE DEF stack, taken
<1>7. ToSet(taken) = K /\ K \subseteq N
  <2>1. K = {x \in ToSet(t.stack) : t.index[g] <= t.index[x]}
    BY DEF From, View
  <2>2. ToSet(t.stack) \subseteq N
    BY <1>2, EntriesAreIn
  <2>3. QED
    BY <2>1, <2>2, <1>6
<1>8. ToSet(stack) = ToSet(t.stack) \ K
  <2>1. ASSUME NEW x \in ToSet(t.stack) PROVE t.index[x] < t.index[g] <=> ~(t.index[g] <= t.index[x])
    <3>1. x \in N
      BY <1>2, EntriesAreIn
    <3>2. QED
      BY <3>1, <1>2, <1>3
  <2>2. QED
    BY <2>1, <1>6, <1>7
<1>9. K \in SUBSET Int /\ IsFiniteSet(K)
  BY <1>7, FS_Subset DEF IsGraph
<1>10. component \in Seq(N) /\ ToSet(component) = K /\ Len(component) = Cardinality(K)
  <2>1. /\ component \in Seq(K) /\ Len(component) = Cardinality(K)
        /\ \A x \in K : \E i \in 1..Len(component) : component[i] = x
    BY <1>9, SortedFacts
  <2> HIDE DEF component
  <2>2. ToSet(component) \subseteq K /\ \A i \in 1..Len(component) : component[i] \in ToSet(component)
    BY <2>1, EntriesAreIn
  <2>3. component \in Seq(N)
    <3>1. \A i \in 1..Len(component) : component[i] \in K
      BY <2>1
    <3>2. QED
      BY <3>1, <2>1, <1>7
  <2>4. QED
    BY <2>1, <2>2, <2>3
<1>11. u = [t EXCEPT !.stack = stack, !.components = Append(t.components, Sorted(ToSet(taken)))]
  BY DEF CloseComponent, at, stack, taken
<1>12. u = [t EXCEPT !.stack = stack, !.components = Append(t.components, component)]
  BY <1>7, <1>11
<1> HIDE DEF K, component
<1>13. /\ u.count = t.count /\ u.index = t.index /\ u.low = t.low /\ u.left = t.left /\ u.calls = t.calls
       /\ u.stack = stack /\ u.components = Append(t.components, component)
  BY <1>1, <1>12 DEF Numberings
<1>14. /\ Append(t.components, component) \in Seq(Seq(N)) /\ n \in Nat /\ Len(u.components) = n + 1
       /\ u.components[n + 1] = component /\ \A i \in 1..n : u.components[i] = t.components[i]
  BY <1>2, <1>10, <1>13, Appended
<1>15. u \in Numberings(G)
  BY <1>1, <1>2, <1>6, <1>12, <1>14 DEF Numberings
<1>16. Finished(u) = Finished(t) \cup K
  <2>1. ASSUME NEW x \in Finished(u) PROVE x \in Finished(t) \cup K
    <3>1. PICK i \in 1..(n + 1) : x \in ToSet(u.components[i])
      BY <1>14 DEF Finished
    <3>2. CASE i = n + 1
      BY <3>1, <3>2, <1>10, <1>14
    <3>3. CASE i \in 1..n
      BY <3>1, <3>3, <1>14 DEF Finished
    <3>4. QED
      BY <3>2, <3>3, <1>14
  <2>2. ASSUME NEW x \in Finished(t) \cup K PROVE x \in Finished(u)
    <3>1. CASE x \in K
      <4>1. n + 1 \in 1..Len(u.components) /\ x \in ToSet(u.components[n + 1])
        BY <3>1, <1>10, <1>14
      <4>2. QED
        BY <4>1 DEF Finished
    <3>2. CASE x \in Finished(t)
      <4>1. PICK i \in 1..n : x \in ToSet(t.components[i])
        BY <3>2 DEF Finished
      <4>2. i \in 1..Len(u.components) /\ x \in ToSet(u.components[i])
        BY <4>1, <1>14
      <4>3. QED
        BY <4>2 DEF Finished
    <3>3. QED
      BY <2>2, <3>1, <3>2
  <2>3. QED
    BY <2>1, <2>2
<1>17. Reported(G, component)
  <2>1. IsComponent(G, K)
    <3>1. View(t).left[g] = {} /\ View(t).low[g] = View(t).index[g]
      BY DEF View
    <3>2. QED
      BY <3>1, <1>1, <1>3, TakenIsComponent DEF K
  <2>2. QED
    BY <2>1, <1>10 DEF Reported
<1>18. \A i \in 1..n : ToSet(t.components[i]) \cap K = {}
  <2>1. View(t).on \cap View(t).done = {}
    BY <1>1 DEF ViewInv, Parted
  <2>2. \A i \in 1..n : ToSet(t.components[i]) \subseteq View(t).done
    BY DEF View, Finished
  <2>3. K \subseteq View(t).on
    BY DEF From, K
  <2>4. QED
    BY <2>1, <2>2, <2>3
<1>19. AllReported(G, u)
  <2>1. ASSUME NEW i \in 1..(n + 1) PROVE Reported(G, u.components[i])
    <3>1. i = n + 1 \/ i \in 1..n
      BY <1>14
    <3>2. QED
      BY <3>1, <1>1, <1>14, <1>17 DEF AllReported
  <2>2. ASSUME NEW i \in 1..(n + 1), NEW j \in 1..(n + 1), i # j
        PROVE  ToSet(u.components[i]) \cap ToSet(u.components[j]) = {}
    <3>1. (i = n + 1 \/ i \in 1..n) /\ (j = n + 1 \/ j \in 1..n)
      BY <1>14
    <3>2. CASE i \in 1..n /\ j \in 1..n
      BY <3>2, <2>2, <1>1, <1>14 DEF AllReported
    <3>3. CASE i = n + 1 /\ j \in 1..n
      BY <3>3, <1>10, <1>14, <1>18
    <3>4. CASE i \in 1..n /\ j = n + 1
      BY <3>4, <1>10, <1>14, <1>18
    <3>5. QED
      BY <3>1, <3>2, <3>3, <3>4, <2>2
  <2>3. QED
    BY <2>1, <2>2, <1>14 DEF AllReported
<1>20. QED
  BY <1>6, <1>8, <1>13, <1>15, <1>16, <1>19 DEF K

LEMMA LastOfRising ==
  ASSUME NEW E, NEW s \in Seq(E), s # <<>>, NEW index \in [E -> Nat], Rising(index, s)
  PROVE  /\ Len(s) \in 1..Len(s) /\ Last(s) = s[Len(s)] /\ Last(s) \in E /\ Last(s) \in ToSet(s)
         /\ \A h \in ToSet(s) : index[h] <= index[Last(s)]
         /\ \A h \in ToSet(s) : h # Last(s) => index[h] < index[Last(s)]
<1>1. Len(s) \in 1..Len(s) /\ Last(s) = s[Len(s)] /\ Last(s) \in E /\ DOMAIN s = 1..Len(s)
  BY DEF Last
<1>2. Last(s) \in ToSet(s)
  BY <1>1, EntriesAreIn
<1>3. ASSUME NEW h \in ToSet(s) PROVE index[h] <= index[Last(s)] /\ (h # Last(s) => index[h] < index[Last(s)])
  <2>1. PICK i \in 1..Len(s) : h = s[i]
    BY <1>1 DEF ToSet
  <2>2. h \in E /\ index[h] \in Nat /\ index[Last(s)] \in Nat
    BY <2>1, <1>1
  <2>3. CASE i = Len(s)
    BY <2>1, <2>2, <2>3, <1>1
  <2>4. CASE i < Len(s)
    <3>1. index[h] < index[Last(s)]
      BY <2>1, <2>4, <1>1 DEF Rising
    <3>2. QED
      BY <3>1, <2>2
  <2>5. i \in Int /\ Len(s) \in Int /\ i <= Len(s)
    BY <1>1
  <2>6. QED
    BY <2>3, <2>4, <2>5
<1>4. QED
  BY <1>1, <1>2, <1>3

LEMMA FrontOfRising ==
  ASSUME NEW E, NEW s \in Seq(E), s # <<>>, NEW index \in [E -> Nat], Rising(index, s)
  PROVE  Front(s) \in Seq(E) /\ Rising(index, Front(s)) /\ ToSet(Front(s)) = ToSet(s) \ {Last(s)}
<1>1. /\ Len(s) \in 1..Len(s) /\ Last(s) = s[Len(s)] /\ Last(s) \in E
      /\ \A h \in ToSet(s) : h # Last(s) => index[h] < index[Last(s)]
  BY LastOfRising
<1>2. /\ Front(s) \in Seq(E) /\ Rising(index, Front(s))
      /\ ToSet(Front(s)) = {x \in ToSet(s) : index[x] < index[Last(s)]}
  <2>1. Front(s) = SubSeq(s, 1, Len(s) - 1)
    BY DEF Front
  <2>2. /\ SubSeq(s, 1, Len(s) - 1) \in Seq(E) /\ Rising(index, SubSeq(s, 1, Len(s) - 1))
        /\ ToSet(SubSeq(s, 1, Len(s) - 1)) = {x \in ToSet(s) : index[x] < index[s[Len(s)]]}
    BY <1>1, CutBefore
  <2>3. QED
    BY ONLY <2>1, <2>2, <1>1
<1>3. ~(index[Last(s)] < index[Last(s)])
  <2>1. index[Last(s)] \in Nat
    BY <1>1
  <2>2. QED
    BY <2>1
<1>4. QED
  BY <1>1, <1>2, <1>3

(* The innermost call returns: its node is the first of a component, which  *)
(* is taken off the stack, or not; its caller takes over the link.          *)
LEMMA LeaveKeeps ==
  ASSUME NEW G, IsGraph(G), NEW t, TarjanInv(G, t), t.calls # <<>>, NEW g, g = Last(t.calls), t.left[g] = {}
  PROVE  /\ TarjanInv(G, Leave(t, g)) /\ Leave(t, g).left = t.left /\ Leave(t, g).index = t.index
         /\ ToSet(Leave(t, g).calls) = ToSet(t.calls) \ {g} /\ g \in ToSet(t.calls)
<1> DEFINE N == DOMAIN G
           b == Leave(t, g)
           c == CloseComponent(t, g)
           K == From(View(t), g)
           calls == Front(t.calls)
           p == Last(calls)
           least == Min({t.low[p], t.low[g]})
           low == IF calls = <<>> THEN t.low ELSE [t.low EXCEPT ![p] = least]
<1>1. /\ t \in Numberings(G) /\ ViewInv(G, View(t))
      /\ Rising(t.index, t.stack) /\ Rising(t.index, t.calls) /\ AllReported(G, t)
  BY DEF TarjanInv
<1>2. /\ t.count \in Nat /\ t.index \in [N -> Nat] /\ t.low \in [N -> Nat] /\ t.left \in [N -> SUBSET N]
      /\ t.stack \in Seq(N) /\ t.calls \in Seq(N) /\ t.components \in Seq(Seq(N))
  BY <1>1 DEF Numberings
<1>3. g \in N /\ Innermost(View(t), g) /\ g \in ToSet(t.calls)
  <2>1. g \in N /\ Innermost(View(t), g)
    BY LastIsInnermost
  <2>2. QED
    BY <2>1 DEF Innermost, View
<1>4. /\ c \in Numberings(G) /\ Rising(c.index, c.stack) /\ AllReported(G, c)
      /\ c.count = t.count /\ c.index = t.index /\ c.low = t.low /\ c.left = t.left /\ c.calls = t.calls
      /\ \/ t.low[g] # t.index[g] /\ ToSet(c.stack) = ToSet(t.stack) /\ Finished(c) = Finished(t)
         \/ t.low[g] = t.index[g] /\ ToSet(c.stack) = ToSet(t.stack) \ K /\ Finished(c) = Finished(t) \cup K
  <2>1. CASE t.low[g] # t.index[g]
    <3>1. c = t
      BY <2>1 DEF CloseComponent
    <3> HIDE DEF c
    <3>2. QED
      BY ONLY <3>1, <2>1, <1>1
  <2>2. CASE t.low[g] = t.index[g]
    <3> HIDE DEF K
    <3>1. PICK d : d = c
      OBVIOUS
    <3>2. d = CloseComponent(t, g)
      BY <3>1
    <3> HIDE DEF c
    <3>3. /\ d \in Numberings(G) /\ Rising(d.index, d.stack) /\ AllReported(G, d)
          /\ d.count = t.count /\ d.index = t.index /\ d.low = t.low /\ d.left = t.left /\ d.calls = t.calls
          /\ ToSet(d.stack) = ToSet(t.stack) \ From(View(t), g)
          /\ Finished(d) = Finished(t) \cup From(View(t), g)
      BY <3>2, <2>2, ClosedTo
    <3>4. QED
      BY ONLY <3>1, <3>3, <2>2 DEF K
  <2>3. QED
    BY <2>1, <2>2
<1>5. calls \in Seq(N) /\ Rising(t.index, calls) /\ ToSet(calls) = ToSet(t.calls) \ {g}
  BY <1>1, <1>2, FrontOfRising
<1>6. calls # <<>> => p \in N /\ p \in ToSet(calls) /\ \A h \in ToSet(calls) : t.index[h] <= t.index[p]
  <2>1. t.index \in [N -> Nat]
    BY <1>2
  <2> HIDE DEF N, calls
  <2>2. QED
    BY ONLY <2>1, <1>5, LastOfRising DEF p
<1> HIDE DEF calls, c, K
<1>7. b = [count |-> t.count, index |-> t.index, low |-> low, left |-> t.left,
           stack |-> c.stack, calls |-> calls, components |-> c.components]
  <2>1. c = [count |-> t.count, index |-> t.index, low |-> t.low, left |-> t.left,
             stack |-> c.stack, calls |-> t.calls, components |-> c.components]
    BY <1>4 DEF Numberings
  <2>2. PICK stack, components : stack = c.stack /\ components = c.components
    OBVIOUS
  <2> DEFINE v == [count |-> t.count, index |-> t.index, low |-> t.low, left |-> t.left,
                   stack |-> stack, calls |-> calls, components |-> components]
  <2>3. [c EXCEPT !.calls = Front(@)] = v
    <3>1. [c EXCEPT !.calls = Front(@)] = [c EXCEPT !.calls = Front(c.calls)]
      OBVIOUS
    <3>2. [c EXCEPT !.calls = Front(@)] = [c EXCEPT !.calls = calls]
      BY <3>1, <1>4 DEF calls
    <3>3. c = [count |-> t.count, index |-> t.index, low |-> t.low, left |-> t.left,
             stack |-> stack, calls |-> t.calls, components |-> components]
      BY <2>1, <2>2
    <3>4. QED
      BY ONLY <3>2, <3>3
  <2>4. b = IF v.calls = <<>> THEN v ELSE LowerTo(v, Last(v.calls), v.low[g])
    BY ONLY <2>3 DEF b, Leave, c
  <2>5. CASE calls = <<>>
    <3>1. b = v
      BY <2>4, <2>5
    <3>2. low = t.low
      BY <2>5
    <3> HIDE DEF b, low
    <3>3. QED
      BY ONLY <3>1, <3>2, <2>2
  <2>6. CASE calls # <<>>
    <3>1. b = LowerTo(v, p, t.low[g])
      BY <2>4, <2>6
    <3> HIDE DEF p
    <3>2. PICK value : value = least
      OBVIOUS
    <3>3. b = [v EXCEPT !.low[p] = value]
      <4>1. b = [v EXCEPT !.low[p] = Min({v.low[p], t.low[g]})]
        BY ONLY <3>1 DEF LowerTo
      <4>2. v.low = t.low
        OBVIOUS
      <4> HIDE DEF v, b
      <4>3. QED
        BY ONLY <3>2, <4>1, <4>2 DEF least
    <3>4. low = [t.low EXCEPT ![p] = value]
      BY <3>2, <2>6
    <3> HIDE DEF low, b, least
    <3>5. b = [count |-> t.count, index |-> t.index, low |-> [t.low EXCEPT ![p] = value], left |-> t.left,
               stack |-> stack, calls |-> calls, components |-> components]
      BY ONLY <3>3
    <3>6. QED
      BY ONLY <3>4, <3>5, <2>2
  <2>7. QED
    BY <2>5, <2>6
<1> HIDE DEF b
<1>8. low \in [N -> Nat]
  <2>1. CASE calls = <<>>
    BY <2>1, <1>2
  <2>2. CASE calls # <<>>
    <3> HIDE DEF p
    <3>1. t.low[p] \in Nat /\ t.low[g] \in Nat
      BY <2>2, <1>2, <1>3, <1>6
    <3>2. least = IF t.low[p] <= t.low[g] THEN t.low[p] ELSE t.low[g]
      BY ONLY <3>1, LesserOfTwo
    <3>3. least \in Nat
      BY <3>1, <3>2
    <3> HIDE DEF least
    <3>4. QED
      BY <3>3, <2>2, <1>2
  <2>3. QED
    BY <2>1, <2>2
<1> HIDE DEF low
<1>9. b \in Numberings(G)
  <2>1. c.stack \in Seq(N) /\ c.components \in Seq(Seq(N))
    BY <1>4 DEF Numberings
  <2>2. QED
    BY <2>1, <1>2, <1>5, <1>7, <1>8 DEF Numberings
<1>10. Returns(View(t), View(b), g)
  <2>1. /\ b.count = t.count /\ b.index = t.index /\ b.left = t.left /\ b.low = low
        /\ b.calls = calls /\ b.stack = c.stack /\ b.components = c.components
    BY ONLY <1>7
  <2>2. /\ View(b).count = View(t).count /\ View(b).index = View(t).index /\ View(b).left = View(t).left
        /\ View(b).in = View(t).in \ {g} /\ View(t).left[g] = {}
    BY <2>1, <1>5 DEF View
  <2>3. \/ View(t).low[g] # View(t).index[g] /\ View(b).on = View(t).on /\ View(b).done = View(t).done
        \/ View(t).low[g] = View(t).index[g] /\ View(b).on = View(t).on \ K /\ View(b).done = View(t).done \cup K
    <3>1. Finished(b) = Finished(c)
      BY <2>1 DEF Finished
    <3>2. QED
      BY <2>1, <3>1, <1>4 DEF View
  <2>4. \/ View(b).in = {} /\ View(b).low = View(t).low
        \/ \E q : Innermost(View(b), q) /\ View(b).low = [View(t).low EXCEPT ![q] = Min({View(t).low[q], View(t).low[g]})]
    <3>1. View(b).in = ToSet(calls) /\ View(b).index = t.index /\ View(b).low = low /\ View(t).low = t.low
      BY <2>1 DEF View
    <3>2. CASE calls = <<>>
      <4>1. ToSet(calls) = {}
        BY <3>2 DEF ToSet
      <4>2. low = t.low
        BY <3>2 DEF low
      <4>3. QED
        BY <4>1, <4>2, <3>1
    <3>3. CASE calls # <<>>
      <4>1. Innermost(View(b), p)
        BY <3>1, <3>3, <1>6 DEF Innermost
      <4>2. View(b).low = [View(t).low EXCEPT ![p] = Min({View(t).low[p], View(t).low[g]})]
        BY <3>1, <3>3 DEF low
      <4>3. QED
        BY <4>1, <4>2
    <3>4. QED
      BY <3>2, <3>3
  <2>5. QED
    BY <2>2, <2>3, <2>4, <1>3 DEF Returns, K
<1>11. ViewInv(G, View(b))
  <2>1. View(b) \in Views(G)
    BY <1>9, ViewType
  <2>2. QED
    BY <2>1, <1>1, <1>10, ReturnKeeps
<1>12. Rising(b.index, b.stack) /\ Rising(b.index, b.calls) /\ AllReported(G, b)
  <2>1. b.index = c.index /\ b.stack = c.stack /\ b.calls = calls /\ b.components = c.components /\ b.index = t.index
    BY <1>4, <1>7
  <2>2. QED
    BY <2>1, <1>4, <1>5 DEF AllReported
<1>13. TarjanInv(G, b)
  BY <1>9, <1>11, <1>12 DEF TarjanInv
<1>14. b.left = t.left /\ b.index = t.index /\ ToSet(b.calls) = ToSet(t.calls) \ {g}
  BY <1>5, <1>7
<1>15. QED
  BY <1>3, <1>13, <1>14 DEF b

LEMMA LeastOf == ASSUME NEW S \in SUBSET Nat, S # {} PROVE Min(S) \in S
<1>1. PICK m \in S : \A n \in S : m <= n
  BY SmallestOf
<1>2. QED
  BY <1>1 DEF Min

LEMMA Fewer ==
  ASSUME NEW S, IsFiniteSet(S), NEW T \in SUBSET S
  PROVE  Cardinality(T) \in Nat /\ Cardinality(S) \in Nat /\ Cardinality(T) <= Cardinality(S)
         /\ (T # S => Cardinality(T) < Cardinality(S))
<1>1. IsFiniteSet(T) /\ Cardinality(T) <= Cardinality(S) /\ (Cardinality(T) = Cardinality(S) => T = S)
  BY FS_Subset
<1>2. QED
  BY <1>1, FS_CardinalityType

(***************************************************************************)
(* What is left to do: nodes to visit, edges to look at, calls to return.   *)
(***************************************************************************)
Unvisited(G, t) == {n \in DOMAIN G : t.index[n] = 0}
Unlooked(G, t) == {e \in (DOMAIN G) \X (DOMAIN G) : e[2] \in t.left[e[1]]}
Unreturned(G, t) == Unvisited(G, t) \cup ToSet(t.calls)
ToDo(G, t) == Cardinality(Unvisited(G, t)) + Cardinality(Unlooked(G, t)) + Cardinality(Unreturned(G, t))
Ended(G, t) == t.calls = <<>> /\ Unvisited(G, t) = {}
NoMore(G, u, t) ==
  /\ Unvisited(G, u) \subseteq Unvisited(G, t) /\ Unlooked(G, u) \subseteq Unlooked(G, t)
  /\ Unreturned(G, u) \subseteq Unreturned(G, t)
Less(G, u, t) ==
  Unvisited(G, u) # Unvisited(G, t) \/ Unlooked(G, u) # Unlooked(G, t) \/ Unreturned(G, u) # Unreturned(G, t)

LEMMA LessToDo ==
  ASSUME NEW G, IsGraph(G), NEW t \in Numberings(G), NEW u, NoMore(G, u, t)
  PROVE  ToDo(G, u) \in Nat /\ ToDo(G, t) \in Nat /\ (Less(G, u, t) => ToDo(G, u) < ToDo(G, t))
<1>1. IsFiniteSet(Unvisited(G, t)) /\ IsFiniteSet(Unlooked(G, t)) /\ IsFiniteSet(Unreturned(G, t))
  <2>1. IsFiniteSet(DOMAIN G) /\ IsFiniteSet((DOMAIN G) \X (DOMAIN G))
    <3>1. IsFiniteSet(DOMAIN G)
      BY DEF IsGraph
    <3>2. QED
      BY ONLY <3>1, FS_Product, Zenon
  <2>2. ToSet(t.calls) \subseteq DOMAIN G
    BY EntriesAreIn DEF Numberings
  <2>3. Unvisited(G, t) \subseteq DOMAIN G /\ Unlooked(G, t) \subseteq (DOMAIN G) \X (DOMAIN G) /\ Unreturned(G, t) \subseteq DOMAIN G
    BY <2>2 DEF Unvisited, Unlooked, Unreturned
  <2>4. QED
    BY <2>1, <2>3, FS_Subset
<1>2. /\ Cardinality(Unvisited(G, u)) \in Nat /\ Cardinality(Unvisited(G, t)) \in Nat
      /\ Cardinality(Unvisited(G, u)) <= Cardinality(Unvisited(G, t))
      /\ Unvisited(G, u) # Unvisited(G, t) => Cardinality(Unvisited(G, u)) < Cardinality(Unvisited(G, t))
  BY <1>1, Fewer DEF NoMore
<1>3. /\ Cardinality(Unlooked(G, u)) \in Nat /\ Cardinality(Unlooked(G, t)) \in Nat
      /\ Cardinality(Unlooked(G, u)) <= Cardinality(Unlooked(G, t))
      /\ Unlooked(G, u) # Unlooked(G, t) => Cardinality(Unlooked(G, u)) < Cardinality(Unlooked(G, t))
  BY <1>1, Fewer DEF NoMore
<1>4. /\ Cardinality(Unreturned(G, u)) \in Nat /\ Cardinality(Unreturned(G, t)) \in Nat
      /\ Cardinality(Unreturned(G, u)) <= Cardinality(Unreturned(G, t))
      /\ Unreturned(G, u) # Unreturned(G, t) => Cardinality(Unreturned(G, u)) < Cardinality(Unreturned(G, t))
  BY <1>1, Fewer DEF NoMore
<1>5. QED
  BY <1>2, <1>3, <1>4 DEF ToDo, Less

LEMMA TurnKeeps ==
  ASSUME NEW G, IsGraph(G), NEW t, TarjanInv(G, t)
  PROVE  /\ TarjanInv(G, ConnectTurn(t))
         /\ ToDo(G, t) \in Nat /\ ToDo(G, ConnectTurn(t)) \in Nat
         /\ Ended(G, t) \/ ToDo(G, ConnectTurn(t)) < ToDo(G, t)
         /\ Ended(G, t) => ConnectTurn(t) = t
<1> DEFINE N == DOMAIN G
           u == ConnectTurn(t)
           p == Last(t.calls)
<1>1. /\ t \in Numberings(G) /\ t.count \in Nat /\ t.index \in [N -> Nat] /\ t.low \in [N -> Nat] /\ t.left \in [N -> SUBSET N]
      /\ t.stack \in Seq(N) /\ t.calls \in Seq(N) /\ t.components \in Seq(Seq(N))
  BY DEF TarjanInv, Numberings
<1>2. N \in SUBSET Nat
  BY DEF IsGraph
<1>3. t.calls # <<>> => p \in N
  BY LastIsInnermost
<1>4. Parted(G, View(t))
  BY DEF TarjanInv, ViewInv
<1>5. \A g \in ToSet(t.calls) : g \in N /\ t.index[g] # 0
  <2>1. ToSet(t.calls) \subseteq N
    BY <1>1, EntriesAreIn
  <2>2. QED
    BY <2>1, <1>4 DEF Parted, View
<1>6. CASE t.calls = <<>> /\ Unvisited(G, t) = {}
  <2>1. {n \in DOMAIN t.index : t.index[n] = 0} = {}
    BY <1>1, <1>6 DEF Unvisited
  <2>2. u = t
    BY <2>1, <1>6 DEF ConnectTurn
  <2> HIDE DEF u
  <2>3. NoMore(G, t, t)
    BY DEF NoMore
  <2>4. QED
    BY <2>2, <2>3, <1>1, <1>6, LessToDo DEF Ended, u
<1>7. CASE t.calls = <<>> /\ Unvisited(G, t) # {}
  <2>1. PICK v : v = Min(Unvisited(G, t))
    OBVIOUS
  <2>2. v \in N /\ t.index[v] = 0
    <3>1. Unvisited(G, t) \in SUBSET Nat
      BY <1>2 DEF Unvisited
    <3>2. v \in Unvisited(G, t)
      BY <2>1, <3>1, <1>7, LeastOf
    <3>3. QED
      BY <3>2 DEF Unvisited
  <2>3. u = Enter(t, v)
    <3>1. {n \in DOMAIN t.index : t.index[n] = 0} = Unvisited(G, t)
      BY <1>1 DEF Unvisited
    <3>2. QED
      BY <2>1, <3>1, <1>7 DEF ConnectTurn
  <2> HIDE DEF u
  <2>4. EnteredFrom(t, t, v)
    BY <1>7 DEF EnteredFrom
  <2>5. /\ TarjanInv(G, u) /\ u.left = t.left /\ u.index = [t.index EXCEPT ![v] = t.count + 1]
        /\ ToSet(u.calls) = ToSet(t.calls) \cup {v}
    BY <2>2, <2>3, <2>4, EnterKeeps
  <2>6. Unvisited(G, u) = Unvisited(G, t) \ {v} /\ v \in Unvisited(G, t)
    BY <2>2, <2>5, <1>1 DEF Unvisited
  <2>7. Unlooked(G, u) = Unlooked(G, t)
    BY <2>5 DEF Unlooked
  <2>8. Unreturned(G, u) = Unreturned(G, t)
    BY <2>5, <2>6 DEF Unreturned
  <2>9. NoMore(G, u, t) /\ Less(G, u, t)
    BY <2>6, <2>7, <2>8 DEF NoMore, Less
  <2>10. QED
    BY <2>5, <2>9, <1>1, <1>7, LessToDo DEF Ended, u
<1>8. CASE t.calls # <<>> /\ t.left[p] # {}
  <2>1. PICK w : w = Min(t.left[p])
    OBVIOUS
  <2>2. w \in t.left[p] /\ w \in N
    <3>1. t.left[p] \subseteq N
      BY <1>1, <1>3, <1>8
    <3>2. w \in t.left[p]
      BY <2>1, <3>1, <1>2, <1>8, LeastOf
    <3>3. QED
      BY <3>1, <3>2
  <2>3. PICK r : r = [t EXCEPT !.left[p] = t.left[p] \ {w}]
    OBVIOUS
  <2>4. u = IF t.index[w] = 0 THEN Enter(r, w) ELSE BackEdge(r, p, w)
    <3>1. u = Look(t, p, w)
      BY <2>1, <1>8 DEF ConnectTurn
    <3> HIDE DEF u, p
    <3>2. QED
      BY <2>3, <3>1 DEF Look
  <2>5. PICK q : q = p
    OBVIOUS
  <2> HIDE DEF u, p
  <2>6. /\ TarjanInv(G, u) /\ u.left = [t.left EXCEPT ![p] = t.left[p] \ {w}]
        /\ \/ t.index[w] = 0 /\ u.index = [t.index EXCEPT ![w] = t.count + 1] /\ ToSet(u.calls) = ToSet(t.calls) \cup {w}
           \/ t.index[w] # 0 /\ u.index = t.index /\ u.calls = t.calls
    <3>1. CASE t.index[w] = 0
      <4>1. EnteredFrom(t, r, w)
        BY <2>2, <2>3, <1>8 DEF EnteredFrom, p
      <4>2. /\ TarjanInv(G, u) /\ u.left = r.left /\ u.index = [t.index EXCEPT ![w] = t.count + 1]
            /\ ToSet(u.calls) = ToSet(t.calls) \cup {w}
        <5>1. u = Enter(r, w)
          BY <2>4, <3>1
        <5>2. w \in DOMAIN G /\ IsGraph(G) /\ TarjanInv(G, t)
          BY <2>2
        <5>3. /\ TarjanInv(G, Enter(r, w)) /\ Enter(r, w).left = r.left
              /\ Enter(r, w).index = [t.index EXCEPT ![w] = t.count + 1]
              /\ ToSet(Enter(r, w).calls) = ToSet(t.calls) \cup {w}
          BY ONLY <5>2, <3>1, <4>1, EnterKeeps
        <5>4. QED
          BY ONLY <5>1, <5>3
      <4>3. r.left = [t.left EXCEPT ![p] = t.left[p] \ {w}]
        BY <2>3, <1>1 DEF Numberings
      <4>4. QED
        BY <3>1, <4>2, <4>3
    <3>2. CASE t.index[w] # 0
      <4>1. u = BackEdge(r, q, w)
        BY <2>4, <2>5, <3>2
      <4>2. LooksAt(t, r, q, w)
        BY <2>2, <2>3, <2>5, <3>2, <1>8 DEF LooksAt, p
      <4>3. /\ TarjanInv(G, BackEdge(r, q, w)) /\ BackEdge(r, q, w).left = [t.left EXCEPT ![q] = t.left[q] \ {w}]
            /\ BackEdge(r, q, w).index = t.index /\ BackEdge(r, q, w).calls = t.calls
        <5>1. IsGraph(G) /\ TarjanInv(G, t)
          OBVIOUS
        <5>2. QED
          BY ONLY <5>1, <4>2, BackEdgeKeeps
      <4>4. QED
        BY ONLY <4>1, <4>3, <2>5, <3>2
    <3>3. QED
      BY <3>1, <3>2
  <2>7. Unvisited(G, u) \subseteq Unvisited(G, t) /\ Unreturned(G, u) = Unreturned(G, t)
    <3>1. CASE t.index[w] = 0
      <4>1. Unvisited(G, u) = Unvisited(G, t) \ {w} /\ w \in Unvisited(G, t)
        BY <2>2, <2>6, <3>1, <1>1 DEF Unvisited
      <4>2. QED
        BY <2>6, <3>1, <4>1 DEF Unreturned
    <3>2. CASE t.index[w] # 0
      <4>1. Unvisited(G, u) = Unvisited(G, t)
        BY <2>6, <3>2 DEF Unvisited
      <4>2. QED
        BY <2>6, <3>2, <4>1 DEF Unreturned
    <3>3. QED
      BY <3>1, <3>2
  <2>8. Unlooked(G, u) \subseteq Unlooked(G, t) /\ <<p, w>> \in Unlooked(G, t) \ Unlooked(G, u)
    <3>1. p \in N /\ w \in N
      BY <2>2, <1>3, <1>8
    <3>2. u.left[p] = t.left[p] \ {w} /\ \A n \in N : u.left[n] \subseteq t.left[n]
      BY <2>6, <3>1, <1>1
    <3>3. QED
      <4>1. ASSUME NEW e \in Unlooked(G, u) PROVE e \in Unlooked(G, t)
        <5>1. e \in N \X N /\ e[2] \in u.left[e[1]]
          BY DEF Unlooked
        <5>2. e[1] \in N
          BY <5>1
        <5>3. e[2] \in t.left[e[1]]
          BY <5>1, <5>2, <3>2
        <5>4. QED
          BY <5>1, <5>3 DEF Unlooked
      <4>2. <<p, w>> \in N \X N /\ <<p, w>>[1] = p /\ <<p, w>>[2] = w
        BY <3>1
      <4>3. <<p, w>> \in Unlooked(G, t)
        <5>1. <<p, w>>[2] \in t.left[<<p, w>>[1]]
          BY ONLY <4>2, <2>2
        <5>2. QED
          BY ONLY <4>2, <5>1 DEF Unlooked
      <4>4. <<p, w>> \notin Unlooked(G, u)
        BY <4>2, <3>2 DEF Unlooked
      <4>5. QED
        BY <4>1, <4>3, <4>4
  <2>9. NoMore(G, u, t) /\ Less(G, u, t)
    BY <2>7, <2>8 DEF NoMore, Less
  <2>10. QED
    BY <2>6, <2>9, <1>1, <1>8, LessToDo DEF Ended, u
<1>9. CASE t.calls # <<>> /\ t.left[p] = {}
  <2>1. PICK g : g = p
    OBVIOUS
  <2>2. u = Leave(t, g)
    BY <2>1, <1>9 DEF ConnectTurn
  <2>3. g = Last(t.calls) /\ t.left[g] = {}
    BY <2>1, <1>9
  <2> HIDE DEF u, p
  <2>4. /\ TarjanInv(G, u) /\ u.left = t.left /\ u.index = t.index
        /\ ToSet(u.calls) = ToSet(t.calls) \ {g} /\ g \in ToSet(t.calls)
    BY <2>2, <2>3, <1>9, LeaveKeeps
  <2>5. Unvisited(G, u) = Unvisited(G, t) /\ Unlooked(G, u) = Unlooked(G, t)
    BY <2>4 DEF Unvisited, Unlooked
  <2>6. g \notin Unvisited(G, t)
    BY <2>4, <1>5 DEF Unvisited
  <2>7. Unreturned(G, u) \subseteq Unreturned(G, t) /\ g \in Unreturned(G, t) \ Unreturned(G, u)
    BY <2>4, <2>5, <2>6 DEF Unreturned
  <2>8. NoMore(G, u, t) /\ Less(G, u, t)
    BY <2>5, <2>7 DEF NoMore, Less
  <2>9. QED
    BY <2>4, <2>8, <1>1, <1>9, LessToDo DEF Ended, u
<1>10. QED
  BY <1>6, <1>7, <1>8, <1>9

(***************************************************************************)
(* All turns.                                                              *)
(***************************************************************************)
Unnumbered(G) ==
  [count |-> 0, index |-> [n \in DOMAIN G |-> 0], low |-> [n \in DOMAIN G |-> 0], left |-> G,
   stack |-> <<>>, calls |-> <<>>, components |-> <<>>]

LEMMA TurnsAreNumbers ==
  ASSUME NEW G, IsGraph(G)
  PROVE  Cardinality(DOMAIN G) \in Nat /\ Turns(G) \in Nat
         /\ Turns(G) = Cardinality(DOMAIN G) * Cardinality(DOMAIN G) + 2 * Cardinality(DOMAIN G)
<1>1. Cardinality(DOMAIN G) \in Nat
  BY FS_CardinalityType DEF IsGraph
<1>2. Cardinality(DOMAIN G) * Cardinality(DOMAIN G) \in Nat
  BY <1>1
<1>3. QED
  BY <1>1, <1>2 DEF Turns

LEMMA TarjanStarts ==
  ASSUME NEW G, IsGraph(G) PROVE TarjanInv(G, Unnumbered(G)) /\ ToDo(G, Unnumbered(G)) <= Turns(G)
<1> DEFINE N == DOMAIN G
           t == Unnumbered(G)
           a == View(t)
<1>1. G \in [N -> SUBSET N] /\ IsFiniteSet(N)
  BY DEF IsGraph
<1>2. /\ t.count = 0 /\ t.index = [n \in N |-> 0] /\ t.low = [n \in N |-> 0] /\ t.left = G
      /\ t.stack = <<>> /\ t.calls = <<>> /\ t.components = <<>>
  BY DEF Unnumbered
<1>3. t \in Numberings(G)
  <2>1. [n \in N |-> 0] \in [N -> Nat] /\ <<>> \in Seq(N) /\ <<>> \in Seq(Seq(N)) /\ 0 \in Nat
    OBVIOUS
  <2>2. QED
    BY <2>1, <1>1 DEF Numberings, Unnumbered
<1>4. ToSet(<<>>) = {}
  BY DEF ToSet
<1>5. Finished(t) = {}
  <2>1. Len(t.components) = 0
    BY <1>2
  <2>2. QED
    BY <2>1 DEF Finished
<1> HIDE DEF t
<1>6. /\ a.on = {} /\ a.in = {} /\ a.done = {} /\ a.left = G /\ a.count = 0
      /\ \A n \in N : a.index[n] = 0
  BY <1>2, <1>4, <1>5 DEF View
<1>7. a \in Views(G)
  BY <1>3, ViewType
<1> HIDE DEF a
<1>8. ViewInv(G, a)
  <2>1. Parted(G, a) /\ Numbered(G, a) /\ Closed(G, a.done)
    BY <1>6 DEF Parted, Numbered, Closed
  <2>2. Looked(G, a)
    BY <1>6 DEF Looked
  <2>3. LeadsOn(G, a) /\ LeadsBack(G, a) /\ LowIsSeen(G, a) /\ LowIsLeast(G, a)
    BY <1>6 DEF LeadsOn, LeadsBack, LowIsSeen, LowIsLeast
  <2>4. QED
    BY <2>1, <2>2, <2>3, <1>7 DEF ViewInv
<1>9. Rising(t.index, t.stack) /\ Rising(t.index, t.calls) /\ AllReported(G, t)
  <2>1. Len(t.stack) = 0 /\ Len(t.calls) = 0 /\ Len(t.components) = 0
    BY <1>2
  <2>2. QED
    BY <2>1 DEF Rising, AllReported
<1>10. ToDo(G, t) <= Turns(G)
  <2>1. Unvisited(G, t) \in SUBSET N /\ Unreturned(G, t) \in SUBSET N /\ Unlooked(G, t) \in SUBSET (N \X N)
    BY <1>2, <1>4 DEF Unvisited, Unreturned, Unlooked
  <2>2. IsFiniteSet(N \X N) /\ Cardinality(N \X N) = Cardinality(N) * Cardinality(N)
    BY <1>1, FS_Product
  <2>3. /\ Cardinality(Unvisited(G, t)) \in Nat /\ Cardinality(Unvisited(G, t)) <= Cardinality(N)
        /\ Cardinality(Unreturned(G, t)) \in Nat /\ Cardinality(Unreturned(G, t)) <= Cardinality(N)
    BY <2>1, <1>1, Fewer
  <2>4. PICK square : square = Cardinality(N) * Cardinality(N)
    OBVIOUS
  <2>5. Cardinality(Unlooked(G, t)) \in Nat /\ square \in Nat /\ Cardinality(Unlooked(G, t)) <= square
    BY <2>1, <2>2, <2>4, Fewer
  <2>6. Cardinality(N) \in Nat /\ Turns(G) = square + 2 * Cardinality(N)
    BY <2>4, TurnsAreNumbers
  <2>7. QED
    BY ONLY <2>3, <2>5, <2>6 DEF ToDo
<1>11. QED
  BY <1>3, <1>8, <1>9, <1>10 DEF TarjanInv, a, t

Connects(G, connect) ==
  /\ connect[0] = Unnumbered(G)
  /\ \A n \in Nat : TarjanInv(G, connect[n]) /\ connect[n + 1] = ConnectTurn(connect[n])

LEMMA ConnectingSteps ==
  ASSUME NEW G, IsGraph(G), NEW connect, connect = Connecting(G)
  PROVE  Connects(G, connect)
<1> DEFINE S == {t \in Numberings(G) : TarjanInv(G, t)}
           start == Unnumbered(G)
           At(g, n) == IF n = 0 THEN start ELSE ConnectTurn(g[n - 1])
           Body(g) == [n \in Nat |-> At(g, n)]
           step == [t \in S |-> ConnectTurn(t)]
<1>1. start \in S
  BY TarjanStarts DEF TarjanInv
<1>2. step \in [S -> S]
  <2>1. ASSUME NEW t \in S PROVE ConnectTurn(t) \in S
    BY TurnKeeps DEF TarjanInv
  <2>2. QED
    BY <2>1
<1>3. PICK g : Iteration(g, S, start, step)
  <2> HIDE DEF step, start, S
  <2>1. QED
    BY ONLY <1>1, <1>2, Iterated, Zenon
<1>4. g = Body(g)
  <2>1. g \in [Nat -> S] /\ g[0] = start /\ \A n \in Nat : g[n + 1] = step[g[n]]
    BY <1>3 DEF Iteration
  <2>2. ASSUME NEW n \in Nat PROVE g[n] = At(g, n)
    <3> HIDE DEF start, S
    <3>1. CASE n = 0
      BY <2>1, <3>1
    <3>2. CASE n # 0
      <4>1. n - 1 \in Nat /\ (n - 1) + 1 = n
        BY <3>2
      <4>2. g[n] = step[g[n - 1]] /\ g[n - 1] \in S
        BY <2>1, <4>1
      <4>3. QED
        BY <3>2, <4>2
    <3>3. QED
      BY <3>1, <3>2
  <2> HIDE DEF At
  <2>3. g = [n \in Nat |-> g[n]]
    BY <2>1
  <2>4. QED
    BY <2>2, <2>3
<1>5. connect = CHOOSE h : h = Body(h)
  BY DEF Connecting, Unnumbered
<1>6. connect = Body(connect)
  <2> HIDE DEF Body
  <2>1. QED
    BY <1>4, <1>5
<1> HIDE DEF step
<1>7. connect[0] = start
  <2> HIDE DEF start
  <2>1. connect[0] = At(connect, 0)
    <3> HIDE DEF At
    <3>1. QED
      BY <1>6
  <2>2. QED
    BY <2>1
<1>8. ASSUME NEW n \in Nat PROVE connect[n + 1] = ConnectTurn(connect[n])
  <2>1. n + 1 \in Nat /\ n + 1 # 0 /\ (n + 1) - 1 = n
    OBVIOUS
  <2>2. connect[n + 1] = At(connect, n + 1)
    <3> HIDE DEF At
    <3>1. QED
      BY <1>6, <2>1
  <2>3. QED
    BY <2>1, <2>2
<1> DEFINE T == {n \in Nat : TarjanInv(G, connect[n])}
<1>9. 0 \in T
  BY <1>7, TarjanStarts
<1>10. ASSUME NEW n \in T PROVE n + 1 \in T
  <2>1. TarjanInv(G, connect[n]) /\ connect[n + 1] = ConnectTurn(connect[n])
    BY <1>8
  <2>2. TarjanInv(G, connect[n + 1])
    BY ONLY IsGraph(G), <2>1, TurnKeeps
  <2>3. QED
    BY <2>2
<1>11. T = Nat
  <2>1. T \subseteq Nat
    OBVIOUS
  <2> HIDE DEF T
  <2>2. QED
    BY <1>9, <1>10, <2>1, AllNumbers
<1>12. QED
  BY <1>7, <1>8, <1>11 DEF Connects

(* When the turns are over, every node was visited and every call returned. *)
LEMMA TurnsAreEnough ==
  ASSUME NEW G, IsGraph(G), NEW connect, Connects(G, connect)
  PROVE  Ended(G, connect[Turns(G)])
<1> DEFINE T == {n \in Nat : Ended(G, connect[n]) \/ ToDo(G, connect[n]) + n <= Turns(G)}
<1>1. Turns(G) \in Nat
  BY TurnsAreNumbers
<1>2. 0 \in T
  <2>1. connect[0] = Unnumbered(G) /\ TarjanInv(G, connect[0])
    BY DEF Connects
  <2>2. ToDo(G, connect[0]) <= Turns(G) /\ ToDo(G, connect[0]) \in Nat
    BY <2>1, TarjanStarts, TurnKeeps
  <2>3. QED
    BY <2>2, <1>1
<1>3. ASSUME NEW n \in T PROVE n + 1 \in T
  <2>1. PICK t : t = connect[n]
    OBVIOUS
  <2>2. PICK u : u = connect[n + 1]
    OBVIOUS
  <2>3. TarjanInv(G, t) /\ u = ConnectTurn(t)
    BY <2>1, <2>2 DEF Connects
  <2>4. /\ ToDo(G, t) \in Nat /\ ToDo(G, u) \in Nat
        /\ Ended(G, t) \/ ToDo(G, u) < ToDo(G, t)
        /\ Ended(G, t) => u = t
    BY <2>3, TurnKeeps
  <2>5. n \in Nat /\ (Ended(G, t) \/ ToDo(G, t) + n <= Turns(G))
    BY <2>1
  <2>6. Ended(G, u) \/ ToDo(G, u) + (n + 1) <= Turns(G)
    BY <2>4, <2>5, <1>1
  <2>7. QED
    BY <2>2, <2>5, <2>6
<1>4. T = Nat
  <2>1. T \subseteq Nat
    OBVIOUS
  <2> HIDE DEF T
  <2>2. QED
    BY <1>2, <1>3, <2>1, AllNumbers
<1>5. PICK t : t = connect[Turns(G)]
  OBVIOUS
<1>6. Ended(G, t) \/ ToDo(G, t) + Turns(G) <= Turns(G)
  BY <1>1, <1>4, <1>5
<1>7. TarjanInv(G, t)
  BY <1>1, <1>5 DEF Connects
<1>8. CASE ToDo(G, t) + Turns(G) <= Turns(G)
  <2>1. t \in Numberings(G)
    BY <1>7 DEF TarjanInv
  <2>2. ToSet(t.calls) \subseteq DOMAIN G /\ t.calls \in Seq(DOMAIN G)
    BY <2>1, EntriesAreIn DEF Numberings
  <2>3. Unvisited(G, t) \in SUBSET DOMAIN G /\ Unreturned(G, t) \in SUBSET DOMAIN G /\ Unlooked(G, t) \in SUBSET ((DOMAIN G) \X (DOMAIN G))
    BY <2>2 DEF Unvisited, Unreturned, Unlooked
  <2>4. IsFiniteSet(DOMAIN G) /\ IsFiniteSet((DOMAIN G) \X (DOMAIN G))
    BY FS_Product DEF IsGraph
  <2>5. Cardinality(Unvisited(G, t)) \in Nat /\ Cardinality(Unreturned(G, t)) \in Nat /\ Cardinality(Unlooked(G, t)) \in Nat
    BY <2>3, <2>4, Fewer
  <2>6. Cardinality(Unvisited(G, t)) = 0 /\ Cardinality(Unreturned(G, t)) = 0
    BY ONLY <2>5, <1>1, <1>8 DEF ToDo
  <2>7. IsFiniteSet(Unvisited(G, t)) /\ IsFiniteSet(Unreturned(G, t))
    BY <2>3, <2>4, FS_Subset
  <2>8. Unvisited(G, t) = {} /\ Unreturned(G, t) = {}
    BY <2>6, <2>7, FS_EmptySet
  <2>9. t.calls = <<>>
    <3>1. SUFFICES ASSUME t.calls # <<>> PROVE FALSE
      OBVIOUS
    <3>2. 1 \in 1..Len(t.calls)
      BY <3>1, <2>2
    <3>3. t.calls[1] \in ToSet(t.calls)
      BY <3>2, <2>2, EntriesAreIn
    <3>4. QED
      BY <3>3, <2>8 DEF Unreturned
  <2>10. QED
    BY <2>8, <2>9, <1>5 DEF Ended
<1>9. QED
  BY <1>5, <1>6, <1>8

(* The components: each a class of nodes that lead to each other, no two    *)
(* with a node in common, all nodes in one.                                *)
AreTheComponents(G, cs) ==
  /\ cs \in Seq(Seq(DOMAIN G))
  /\ \A i \in 1..Len(cs) : Reported(G, cs[i])
  /\ \A i, j \in 1..Len(cs) : i # j => ToSet(cs[i]) \cap ToSet(cs[j]) = {}
  /\ \A n \in DOMAIN G : \E i \in 1..Len(cs) : n \in ToSet(cs[i])

THEOREM TarjanFindsComponents == ASSUME NEW G, IsGraph(G) PROVE AreTheComponents(G, TarjanScc(G))
<1> DEFINE N == DOMAIN G
<1>1. PICK connect : connect = Connecting(G)
  OBVIOUS
<1>2. Connects(G, connect)
  BY <1>1, ConnectingSteps
<1>3. PICK t : t = connect[Turns(G)]
  OBVIOUS
<1>4. TarjanScc(G) = t.components
  BY <1>1, <1>3 DEF TarjanScc
<1>5. TarjanInv(G, t) /\ Ended(G, t)
  BY <1>2, <1>3, TurnsAreNumbers, TurnsAreEnough DEF Connects
<1>6. ViewInv(G, View(t)) /\ AllReported(G, t) /\ t \in Numberings(G)
  BY <1>5 DEF TarjanInv
<1>7. View(t).in = {}
  BY <1>5 DEF Ended, View, ToSet
<1>8. View(t).on = {}
  BY <1>6, <1>7 DEF ViewInv, LeadsBack
<1>9. ASSUME NEW n \in N PROVE \E i \in 1..Len(t.components) : n \in ToSet(t.components[i])
  <2>1. t.index[n] # 0
    BY <1>5 DEF Ended, Unvisited
  <2>2. n \in View(t).done
    BY <2>1, <1>6, <1>8 DEF ViewInv, Parted, View
  <2>3. QED
    BY <2>2 DEF View, Finished
<1>10. QED
  BY <1>4, <1>6, <1>9 DEF AllReported, AreTheComponents, Numberings

(***************************************************************************)
(* Cycles of files.                                                        *)
(***************************************************************************)
LEMMA PickedFacts ==
  ASSUME NEW seq, NEW n \in Nat, NEW places \in SUBSET (1..n)
  PROVE  /\ IsFiniteSet(places) /\ DOMAIN Picked(seq, places) = 1..Cardinality(places)
         /\ Len(Picked(seq, places)) = Cardinality(places) /\ Cardinality(places) \in Nat
         /\ \E order \in Bijection(1..Cardinality(places), places) :
              \A i \in 1..Cardinality(places) : Picked(seq, places)[i] = seq[order[i]]
<1> DEFINE order == Sorted(places)
           c == Cardinality(places)
<1>1. IsFiniteSet(places) /\ places \in SUBSET Int
  <2>1. IsFiniteSet(1..n)
    <3>1. 1 \in Int /\ n \in Int
      OBVIOUS
    <3>2. QED
      BY <3>1, FS_Interval
  <2>2. places \subseteq 1..n
    OBVIOUS
  <2>3. IsFiniteSet(places)
    BY ONLY <2>1, <2>2, FS_Subset
  <2>4. QED
    BY <2>3
<1>2. /\ c \in Nat /\ order \in Seq(places) /\ Len(order) = c
      /\ \A x \in places : \E i \in 1..c : order[i] = x
      /\ \A i, j \in 1..c : i < j => order[i] < order[j]
  BY <1>1, SortedFacts
<1> HIDE DEF order, c
<1>3. DOMAIN order = 1..c /\ order \in [1..c -> places]
  BY <1>2
<1>4. order \in Bijection(1..c, places)
  <2>1. \A i, j \in 1..c : order[i] \in Int /\ order[j] \in Int
    BY <1>1, <1>3
  <2>2. ASSUME NEW i \in 1..c, NEW j \in 1..c, order[i] = order[j] PROVE i = j
    <3>1. ~(i < j) /\ ~(j < i)
      BY <2>1, <2>2, <1>2
    <3>2. QED
      BY <3>1
  <2>3. QED
    BY <2>2, <1>2, <1>3 DEF Bijection, Injection, Surjection, IsInjective
<1>5. Picked(seq, places) = [i \in 1..c |-> seq[order[i]]]
  BY <1>3 DEF Picked, Each, order
<1>6. Len(Picked(seq, places)) = c
  BY <1>2, <1>5
<1>7. QED
  BY <1>1, <1>2, <1>4, <1>5, <1>6 DEF c

LEMMA FilesAreGraph == ASSUME DocsInv PROVE IsGraph(ForwardNeighbors) /\ DOMAIN ForwardNeighbors = Files
<1>1. ForwardNeighbors \in [Files -> SUBSET Files] /\ IsFiniteSet(Files) /\ Files \in SUBSET Nat
  BY NeighborsAreFiles, FilesAreFinite DEF Files
<1>2. QED
  BY <1>1 DEF IsGraph

LEMMA ImportedIsReached ==
  ASSUME DocsInv, NEW f \in Files, NEW g \in Files
  PROVE  g \in Imported(f) <=> Reaches(ForwardNeighbors, f, g)
<1>1. /\ NFiles \in Nat /\ ForwardNeighbors \in [Files -> SUBSET Files] /\ DOMAIN ForwardNeighbors = Files
      /\ Imported(f) = Ball(ForwardNeighbors, {f}, NFiles) /\ {f} \in SUBSET Files
  BY PathsAssumption, NeighborsAreFiles, FilesAreGraph DEF Imported
<1>2. ASSUME g \in Imported(f) PROVE Reaches(ForwardNeighbors, f, g)
  <2>1. SUFFICES ASSUME NEW X \in SUBSET Files, f \in X, Closed(ForwardNeighbors, X) PROVE g \in X
    BY <1>1 DEF Reaches
  <2>2. {f} \subseteq X
    BY <2>1
  <2>3. Ball(ForwardNeighbors, {f}, NFiles) \subseteq X
    BY <1>1, <2>1, <2>2, BallIsLeast
  <2>4. QED
    BY <2>3, <1>1, <1>2
<1>3. ASSUME Reaches(ForwardNeighbors, f, g) PROVE g \in Imported(f)
  <2>1. Closed(ForwardNeighbors, Imported(f))
    BY <1>1, BallCloses
  <2>2. Imported(f) \in SUBSET Files /\ f \in Imported(f)
    <3>1. Ball(ForwardNeighbors, {f}, NFiles) \in SUBSET Files
      BY <1>1, BallSteps
    <3>2. {f} \subseteq Ball(ForwardNeighbors, {f}, NFiles)
      <4>1. Ball(ForwardNeighbors, {f}, 0) = {f} /\ 0 \in Nat /\ 0 <= NFiles
        BY <1>1, BallSteps
      <4>2. Ball(ForwardNeighbors, {f}, 0) \subseteq Ball(ForwardNeighbors, {f}, NFiles)
        BY <1>1, <4>1, BallGrows
      <4>3. QED
        BY <4>1, <4>2
    <3>3. QED
      BY <3>1, <3>2, <1>1
  <2>3. QED
    BY <2>1, <2>2, <1>1, <1>3 DEF Reaches
<1>4. QED
  BY <1>2, <1>3

LEMMA ComponentsAreImportClasses == ASSUME DocsInv PROVE ComponentsAreClasses
<1> DEFINE G == ForwardNeighbors
           class(f) == {g \in Files : f \in Imported(g) /\ g \in Imported(f)}
           cycles == {class(f) : f \in {g \in Files : Cardinality(class(g)) > 1}}
           cs == TarjanScc(G)
           n == Len(cs)
           places == {i \in 1..n : Len(cs[i]) >= 2}
           c == Cardinality(places)
           S(i) == ToSet(FileCycles[i])
<1>1. IsGraph(G) /\ DOMAIN G = Files
  BY FilesAreGraph
<1>2. AreTheComponents(G, cs)
  BY <1>1, TarjanFindsComponents
<1>3. ASSUME NEW f \in Files PROVE class(f) = Mutual(G, f)
  <2>1. ASSUME NEW g \in Files PROVE f \in Imported(g) /\ g \in Imported(f) <=> Reaches(G, f, g) /\ Reaches(G, g, f)
    BY ImportedIsReached
  <2>2. QED
    BY <2>1, <1>1 DEF Mutual
<1> HIDE DEF class, G, cs
<1>4. /\ cs \in Seq(Seq(Files)) /\ n \in Nat /\ DOMAIN cs = 1..n
      /\ \A i \in 1..n : cs[i] \in Seq(Files)
  BY <1>1, <1>2 DEF AreTheComponents
<1>5. ASSUME NEW i \in 1..n
      PROVE  /\ ToSet(cs[i]) \subseteq Files /\ ToSet(cs[i]) # {} /\ Len(cs[i]) = Cardinality(ToSet(cs[i])) /\ Len(cs[i]) \in Nat
             /\ \A f \in ToSet(cs[i]) : ToSet(cs[i]) = class(f)
  <2>1. Reported(G, cs[i])
    BY <1>2 DEF AreTheComponents
  <2>2. ToSet(cs[i]) \subseteq Files /\ Len(cs[i]) \in Nat
    BY <1>4, EntriesAreIn
  <2>3. QED
    BY <2>1, <2>2, <1>3 DEF Reported, IsComponent
<1>6. FileCycles = Picked(cs, places)
  <2>1. FileCycles = Picked(cs, {i \in DOMAIN cs : Len(cs[i]) >= 2})
    BY DEF FileCycles, Kept, cs, G
  <2>2. QED
    BY <2>1, <1>4
<1>7. PICK order \in Bijection(1..c, places) : \A i \in 1..c : FileCycles[i] = cs[order[i]]
  <2>1. \E o \in Bijection(1..c, places) : \A i \in 1..c : Picked(cs, places)[i] = cs[o[i]]
    <3>1. places \in SUBSET (1..n) /\ n \in Nat
      BY <1>4
    <3> HIDE DEF places, n
    <3>2. \E o \in Bijection(1..Cardinality(places), places) :
            \A i \in 1..Cardinality(places) : Picked(cs, places)[i] = cs[o[i]]
      BY ONLY <3>1, PickedFacts
    <3>3. QED
      BY ONLY <3>2 DEF c
  <2>2. QED
    BY <2>1, <1>6
<1>8. IsFiniteSet(places) /\ c \in Nat /\ DOMAIN FileCycles = 1..c /\ Len(FileCycles) = c
  BY <1>4, <1>6, PickedFacts
<1> HIDE DEF places, c
<1>9. /\ order \in [1..c -> places] /\ \A i, j \in 1..c : order[i] = order[j] => i = j
      /\ \A k \in places : \E i \in 1..c : order[i] = k
  BY <1>7 DEF Bijection, Injection, Surjection, IsInjective
<1>10. \A i \in 1..c : order[i] \in 1..n /\ Len(cs[order[i]]) >= 2 /\ S(i) = ToSet(cs[order[i]])
  BY <1>7, <1>9 DEF places
<1>11. ASSUME NEW i \in 1..c PROVE S(i) \in cycles
  <2>1. PICK f \in S(i) : f \in Files /\ S(i) = class(f)
    BY <1>5, <1>10
  <2>2. Cardinality(class(f)) > 1
    BY <2>1, <1>5, <1>10
  <2>3. QED
    BY <2>1, <2>2
<1>12. ASSUME NEW K \in cycles PROVE \E i \in 1..c : S(i) = K
  <2>1. PICK f \in Files : Cardinality(class(f)) > 1 /\ K = class(f)
    OBVIOUS
  <2>2. PICK k \in 1..n : f \in ToSet(cs[k])
    BY <1>1, <1>2 DEF AreTheComponents
  <2>3. ToSet(cs[k]) = K /\ Len(cs[k]) >= 2
    BY <2>1, <2>2, <1>5
  <2>4. k \in places
    BY <2>3 DEF places
  <2>5. PICK i \in 1..c : order[i] = k
    BY <2>4, <1>9
  <2>6. QED
    BY <2>3, <2>5, <1>10
<1>13. \A i, j \in 1..c : S(i) = S(j) => i = j
  <2>1. SUFFICES ASSUME NEW i \in 1..c, NEW j \in 1..c, S(i) = S(j) PROVE i = j
    OBVIOUS
  <2>2. ToSet(cs[order[i]]) = ToSet(cs[order[j]]) /\ ToSet(cs[order[i]]) # {} /\ order[i] \in 1..n /\ order[j] \in 1..n
    BY <2>1, <1>5, <1>10
  <2>3. order[i] = order[j]
    BY <2>2, <1>2 DEF AreTheComponents
  <2>4. QED
    BY <2>3, <1>9
<1> HIDE DEF S, cycles
<1>14. Cardinality(cycles) = c
  <2> DEFINE F == [i \in 1..c |-> S(i)]
  <2>1. F \in Bijection(1..c, cycles)
    BY <1>11, <1>12, <1>13 DEF Bijection, Injection, Surjection, IsInjective
  <2>2. ExistsBijection(1..c, cycles)
    BY <2>1 DEF ExistsBijection
  <2>3. IsFiniteSet(1..c) /\ Cardinality(1..c) = c
    <3>1. 1 \in Int /\ c \in Int /\ (IF 1 > c THEN 0 ELSE c - 1 + 1) = c
      BY <1>8
    <3>2. QED
      BY <3>1, FS_Interval
  <2>4. QED
    BY <2>2, <2>3, FS_Bijection
<1>15. {S(i) : i \in DOMAIN FileCycles} = cycles
  BY <1>8, <1>11, <1>12
<1>16. QED
  BY <1>8, <1>14, <1>15 DEF ComponentsAreClasses, S, cycles, class

(* The cycles reported are exactly the classes of at least two files that   *)
(* import each other, each reported once (tarjan_scc, circular imports).    *)
THEOREM ComponentsAreClassesCorrect == Spec => []ComponentsAreClasses
<1>1. DocsInv => ComponentsAreClasses
  BY ComponentsAreImportClasses
<1>2. QED
  BY SpecDocs, <1>1, PTL

(***************************************************************************)
(* Scanners.                                                               *)
(***************************************************************************)
(* A function whose value at x depends on its values at lower rank exists.  *)
Grounded(on, D, V, rank) ==
  /\ on \in [[D -> V] -> [D -> V]]
  /\ \A f, g \in [D -> V] : \A x \in D : (\A y \in D : rank[y] < rank[x] => f[y] = g[y]) => on[f][x] = on[g][x]

RanksBelow(rank, D, bound) == rank \in [D -> Nat] /\ \A x \in D : rank[x] < bound

LEMMA RankedRecursion ==
  ASSUME NEW D, NEW V, NEW v \in V, NEW rank, NEW bound \in Nat, RanksBelow(rank, D, bound),
         NEW on, Grounded(on, D, V, rank)
  PROVE  \E f \in [D -> V] : f = on[f]
<1>1. PICK start : start = [x \in D |-> v]
  OBVIOUS
<1>2. start \in [D -> V]
  BY <1>1
<1>3. PICK s : Iteration(s, [D -> V], start, on)
  <2>1. on \in [[D -> V] -> [D -> V]]
    BY DEF Grounded
  <2>2. QED
    BY ONLY <1>2, <2>1, Iterated
<1>4. (\A k \in Nat : s[k] \in [D -> V]) /\ \A k \in Nat : s[k + 1] = on[s[k]]
  BY <1>3 DEF Iteration
<1> DEFINE Settled(k) == \A x \in D : rank[x] < k => s[k + 1][x] = s[k][x]
           T == {k \in Nat : Settled(k)}
<1>5. T \subseteq Nat /\ 0 \in T
  BY DEF RanksBelow
<1>6. ASSUME NEW k \in T PROVE k + 1 \in T
  <2>1. SUFFICES ASSUME NEW x \in D, rank[x] < k + 1 PROVE s[(k + 1) + 1][x] = s[k + 1][x]
    OBVIOUS
  <2>0. rank \in [D -> Nat]
    BY DEF RanksBelow
  <2>2. k \in Nat /\ k + 1 \in Nat /\ Settled(k)
    OBVIOUS
  <2>3. PICK f \in [D -> V], g \in [D -> V] : f = s[k + 1] /\ g = s[k]
    BY <1>4, <2>2
  <2>4. s[(k + 1) + 1] = on[f] /\ s[k + 1] = on[g]
    BY <1>4, <2>2, <2>3
  <2>5. ASSUME NEW y \in D, rank[y] < rank[x] PROVE f[y] = g[y]
    <3>1. rank[y] < k
      BY <2>0, <2>1, <2>2, <2>5
    <3>2. QED
      BY <2>2, <2>3, <3>1
  <2>6. on[f][x] = on[g][x]
    BY <2>5 DEF Grounded
  <2>7. QED
    BY <2>4, <2>6
<1> HIDE DEF T
<1>7. T = Nat
  BY <1>5, <1>6, AllNumbers
<1>8. PICK f \in [D -> V] : f = s[bound]
  BY <1>4
<1>9. PICK g \in [D -> V] : g = on[f]
  BY DEF Grounded
<1>10. ASSUME NEW x \in D PROVE g[x] = f[x]
  <2>1. Settled(bound)
    BY <1>7 DEF T
  <2>2. g = s[bound + 1]
    BY <1>4, <1>8, <1>9
  <2>3. QED
    BY <1>8, <2>1, <2>2 DEF RanksBelow
<1>11. f = g
  BY <1>10
<1>12. QED
  BY <1>9, <1>11

(* What match_brace knows after each character.                            *)
ScanStates == [mode : Modes, escaping : BOOLEAN, depth : Nat, end : Nat]

LEMMA ScanStartIs == ScanStart \in ScanStates
BY DEF ScanStart, ScanStates, Modes

LEMMA ReadsOn ==
  ASSUME NEW t \in Seq(Characters), NEW s \in ScanStates, NEW i \in 1..Len(t)
  PROVE  ReadChar(s, t, i) \in ScanStates
<1>1. i \in Nat /\ s.depth \in Nat /\ s.mode \in Modes /\ s.escaping \in BOOLEAN /\ s.end \in Nat
  BY DEF ScanStates
<1>2. /\ \A m \in Modes : [s EXCEPT !.mode = m] \in ScanStates
      /\ \A b \in BOOLEAN : [s EXCEPT !.escaping = b] \in ScanStates
      /\ [s EXCEPT !.depth = @ + 1] \in ScanStates
      /\ \A e \in Nat : [s EXCEPT !.depth = IF @ = 0 THEN 0 ELSE @ - 1, !.end = e] \in ScanStates
  <2>1. \A m \in Modes : [s EXCEPT !.mode = m] \in ScanStates
    BY DEF ScanStates
  <2>2. \A b \in BOOLEAN : [s EXCEPT !.escaping = b] \in ScanStates
    BY DEF ScanStates
  <2>3. [s EXCEPT !.depth = @ + 1] \in ScanStates
    BY <1>1 DEF ScanStates
  <2>4. ASSUME NEW e \in Nat PROVE [s EXCEPT !.depth = IF @ = 0 THEN 0 ELSE @ - 1, !.end = e] \in ScanStates
    <3>1. PICK d \in Nat : d = IF s.depth = 0 THEN 0 ELSE s.depth - 1
      BY <1>1
    <3>2. [s EXCEPT !.depth = d, !.end = e] \in ScanStates
      BY DEF ScanStates
    <3>3. QED
      BY <3>1, <3>2
  <2>5. QED
    BY <2>1, <2>2, <2>3, <2>4
<1>3. "code" \in Modes /\ "line" \in Modes /\ "block" \in Modes /\ \A q \in Quotes : q \in Modes
  BY DEF Modes
<1>4. InLineComment(s, t, i) \in ScanStates
  BY <1>2, <1>3 DEF InLineComment
<1>5. InBlockComment(s, t, i) \in ScanStates
  BY <1>2, <1>3 DEF InBlockComment
<1>6. InString(s, t, i) \in ScanStates
  BY <1>2, <1>3 DEF InString
<1>7. InCode(s, t, i) \in ScanStates
  <2>1. (IF s.depth <= 1 THEN i ELSE 0) \in Nat
    BY <1>1
  <2>2. QED
    BY <1>2, <1>3, <2>1 DEF InCode
<1>8. QED
  BY <1>4, <1>5, <1>6, <1>7 DEF ReadChar

Runs(run, t) ==
  /\ run \in [0..Len(t) -> ScanStates] /\ run[0] = ScanStart
  /\ \A i \in 1..Len(t) : run[i] = ReadChar(run[i - 1], t, i)

LEMMA ScannerRuns ==
  ASSUME NEW t \in Seq(Characters)
  PROVE  \E run : Runs(run, t) /\ MatchBrace(t) = run[Len(t)].end
<1>1. PICK n \in Nat : n = Len(t) /\ DOMAIN t = 1..n
  OBVIOUS
<1>2. PICK D : D = SUBSET (1..n)
  OBVIOUS
<1> DEFINE at == [i \in DOMAIN t |-> i]
           At(g, s) == IF s = {} THEN ScanStart ELSE ReadChar(g[s \ {Max(s)}], t, at[Max(s)])
           Body(g) == [s \in SUBSET (DOMAIN at) |-> At(g, s)]
           iter == CHOOSE g : g = Body(g)
<1>3. MatchBrace(t) = iter[DOMAIN at].end
  BY DEF MatchBrace, FoldLeft, MapThenFoldSet
<1>4. at = [i \in 1..n |-> i] /\ DOMAIN at = 1..n
  BY <1>1
<1>5. ASSUME NEW s \in D, s # {} PROVE Max(s) \in s /\ Max(s) \in 1..n /\ at[Max(s)] = Max(s)
  <2>1. s \in SUBSET (0..n)
    BY <1>2
  <2>2. n \in Nat
    OBVIOUS
  <2>3. Max(s) \in s
    BY ONLY <1>5, <2>1, <2>2, MaxOf
  <2>4. QED
    BY <1>2, <1>4, <2>3
<1>6. PICK rank : rank = [s \in D |-> Cardinality(s)]
  OBVIOUS
<1>7. ASSUME NEW s \in D
      PROVE  /\ rank[s] \in Nat /\ rank[s] < n + 1
             /\ s # {} => s \ {Max(s)} \in D /\ rank[s \ {Max(s)}] < rank[s]
  <2>1. IsFiniteSet(1..n) /\ Cardinality(1..n) = n
    BY IntervalIsFinite
  <2>2. IsFiniteSet(s) /\ Cardinality(s) <= n /\ Cardinality(s) \in Nat
    BY <1>2, <2>1, FS_Subset, FS_CardinalityType
  <2>3. CASE s # {}
    <3>1. PICK m : m = Max(s) /\ m \in s
      BY <1>5, <2>3
    <3>2. s \ {m} \in D /\ Cardinality(s \ {m}) = Cardinality(s) - 1
      BY <1>2, <2>2, <3>1, FS_RemoveElement
    <3>3. QED
      BY <1>6, <2>2, <3>1, <3>2
  <2>4. QED
    BY <1>6, <2>2, <2>3
<1>8. PICK on : on = [g \in [D -> ScanStates] |-> Body(g)]
  OBVIOUS
<1>9. ASSUME NEW g \in [D -> ScanStates], NEW s \in D PROVE At(g, s) \in ScanStates
  <2>1. CASE s = {}
    BY <2>1, ScanStartIs
  <2>2. CASE s # {}
    <3>1. g[s \ {Max(s)}] \in ScanStates
      BY <1>7, <2>2
    <3>2. ReadChar(g[s \ {Max(s)}], t, Max(s)) \in ScanStates
      BY <1>1, <1>5, <2>2, <3>1, ReadsOn
    <3>3. QED
      BY <1>5, <2>2, <3>2
  <2>3. QED
    BY <2>1, <2>2
<1>10. ASSUME NEW f \in [D -> ScanStates], NEW g \in [D -> ScanStates], NEW s \in D,
              \A y \in D : rank[y] < rank[s] => f[y] = g[y]
       PROVE  At(f, s) = At(g, s)
  BY <1>7, <1>10
<1> HIDE DEF At, at
<1>11. on \in [[D -> ScanStates] -> [D -> ScanStates]] /\ \A g \in [D -> ScanStates] : \A s \in D : on[g][s] = At(g, s)
  BY <1>2, <1>4, <1>8, <1>9
<1>12. Grounded(on, D, ScanStates, rank)
  BY <1>10, <1>11 DEF Grounded
<1>13. \E g \in [D -> ScanStates] : g = on[g]
  <2>1. rank \in [D -> Nat] /\ \A x \in D : rank[x] < n + 1
    BY <1>6, <1>7
  <2>2. PICK bound \in Nat : bound = n + 1
    OBVIOUS
  <2>3. RanksBelow(rank, D, bound)
    BY <2>1, <2>2 DEF RanksBelow
  <2>5. QED
    BY ONLY <1>12, bound \in Nat, <2>3, ScanStartIs, RankedRecursion
<1>14. \E g : g = Body(g)
  <2>1. PICK g \in [D -> ScanStates] : g = on[g]
    BY <1>13
  <2>2. on[g] = Body(g)
    BY <1>8
  <2>3. QED
    BY <2>1, <2>2
<1>15. iter = Body(iter)
  <2> HIDE DEF Body
  <2>1. QED
    BY <1>14, Zenon
<1> HIDE DEF iter
<1>16. \A s \in D : iter[s] = At(iter, s)
  BY <1>2, <1>4, <1>15
<1>17. iter[{}] = ScanStart
  BY <1>2, <1>16 DEF At
<1>18. ASSUME NEW i \in 1..n PROVE iter[1..i] = ReadChar(iter[1..(i - 1)], t, i)
  <2>1. (1..i) \in D /\ i \in 1..i /\ i \in Nat
    <3>1. 1..i \subseteq 1..n
      OBVIOUS
    <3>2. QED
      BY <1>2, <3>1
  <2>2. Max(1..i) = i
    <3>1. PICK I : I = 1..i
      OBVIOUS
    <3>2. I \in SUBSET (0..i) /\ i \in I
      BY <2>1, <3>1
    <3>3. Max(I) \in I /\ \A x \in I : x <= Max(I)
      BY ONLY <2>1, <3>2, MaxOf
    <3>4. QED
      BY <2>1, <3>1, <3>3
  <2>3. (1..i) \ {i} = 1..(i - 1)
    OBVIOUS
  <2>4. at[i] = i
    BY <1>4
  <2>5. QED
    BY <1>16, <2>1, <2>2, <2>3, <2>4 DEF At
<1>19. PICK run : run = [i \in 0..n |-> iter[1..i]]
  OBVIOUS
<1>20. run[0] = ScanStart
  <2>1. 1..0 = {}
    OBVIOUS
  <2>2. QED
    BY <1>17, <1>19, <2>1
<1>21. \A i \in 1..n : run[i] = ReadChar(run[i - 1], t, i)
  BY <1>18, <1>19
<1>22. \A i \in 0..n : run[i] \in ScanStates
  <2> DEFINE T == {k \in Nat : k \in 0..n => run[k] \in ScanStates}
  <2>1. T \subseteq Nat /\ 0 \in T
    BY <1>20, ScanStartIs
  <2>2. ASSUME NEW k \in T PROVE k + 1 \in T
    <3>1. SUFFICES ASSUME k + 1 \in 0..n PROVE run[k + 1] \in ScanStates
      OBVIOUS
    <3>2. k \in 0..n /\ k + 1 \in 1..Len(t) /\ (k + 1) - 1 = k /\ run[k] \in ScanStates
      BY <1>1, <3>1
    <3>3. run[k + 1] = ReadChar(run[k], t, k + 1)
      BY <1>1, <1>21, <3>2
    <3>4. QED
      BY <3>2, <3>3, ReadsOn
  <2> HIDE DEF T
  <2>3. T = Nat
    BY <2>1, <2>2, AllNumbers
  <2>4. QED
    BY <2>3 DEF T
<1>23. run \in [0..n -> ScanStates]
  BY <1>19, <1>22
<1>24. MatchBrace(t) = run[n].end
  BY <1>3, <1>4, <1>19
<1>25. QED
  BY <1>1, <1>20, <1>21, <1>23, <1>24 DEF Runs

(* Where a lexeme may end: the places of its closer, before which the text  *)
(* may end.                                                                *)
LineAt(t, i)  == t[i] = "/" /\ CharAt(t, i + 1) = "/"
BlockAt(t, i) == t[i] = "/" /\ CharAt(t, i + 1) = "*"
QuoteAt(t, i) == t[i] \in Quotes
PlainAt(t, i) == ~LineAt(t, i) /\ ~BlockAt(t, i) /\ ~QuoteAt(t, i)
LineEnds(t, i)  == {j \in i..Len(t) : t[j] = Newline}
BlockEndings(t, i) == {j \in (i + 3)..Len(t) : t[j - 1] = "*" /\ t[j] = "/"}
QuoteEnds(t, i) == {j \in (i + 1)..Len(t) : t[j] = t[i] /\ ~Escaped(t, i, j)}

(* The characters are apart.                                               *)
LEMMA MarksApart ==
  /\ Letter \notin Marks /\ Letter \notin Quotes
  /\ \A q \in Quotes : q \notin Marks /\ q # Letter /\ q # "code" /\ q # "line" /\ q # "block"
BY CharactersAssumption

LEMMA OneKindEach ==
  ASSUME NEW t, NEW i
  PROVE  /\ LineAt(t, i) => ~BlockAt(t, i) /\ ~QuoteAt(t, i)
         /\ BlockAt(t, i) => ~LineAt(t, i) /\ ~QuoteAt(t, i)
         /\ QuoteAt(t, i) => ~LineAt(t, i) /\ ~BlockAt(t, i)
BY MarksApart DEF LineAt, BlockAt, QuoteAt, Marks

EndsAt(l, n, ends) == (l = n \/ l \in ends) /\ \A j \in ends : l <= j

LEMMA LexemeEndIs ==
  ASSUME NEW t \in Seq(Characters), NEW i \in 1..Len(t)
  PROVE  /\ LexemeEnd(t, i) \in i..Len(t)
         /\ LineAt(t, i)  => EndsAt(LexemeEnd(t, i), Len(t), LineEnds(t, i))
         /\ BlockAt(t, i) => EndsAt(LexemeEnd(t, i), Len(t), BlockEndings(t, i))
         /\ QuoteAt(t, i) => EndsAt(LexemeEnd(t, i), Len(t), QuoteEnds(t, i))
         /\ PlainAt(t, i) => LexemeEnd(t, i) = i
<1>1. PICK n \in Nat : n = Len(t)
  OBVIOUS
<1>2. ASSUME NEW ends \in SUBSET (i..n), LexemeEnd(t, i) = Min({n} \cup ends)
      PROVE  LexemeEnd(t, i) \in i..n /\ EndsAt(LexemeEnd(t, i), n, ends)
  <2>1. PICK S : S = {n} \cup ends
    OBVIOUS
  <2>2. S \in SUBSET Nat /\ S # {}
    <3>1. ASSUME NEW x \in S PROVE x \in Nat
      BY <1>1, <1>2, <2>1
    <3>2. QED
      BY <2>1, <3>1
  <2>3. Min(S) \in S /\ \A x \in S : Min(S) <= x
    BY ONLY <2>2, LeastIs
  <2>4. PICK l : l = LexemeEnd(t, i) /\ l = Min(S)
    BY <1>2, <2>1
  <2>5. l \in i..n
    <3>1. l = n \/ l \in ends
      BY <2>1, <2>3, <2>4
    <3>2. n \in i..n /\ ends \subseteq i..n
      BY <1>1
    <3>3. QED
      BY <3>1, <3>2
  <2>6. (l = n \/ l \in ends) /\ \A j \in ends : l <= j
    BY <2>1, <2>3, <2>4
  <2>7. QED
    BY <2>4, <2>5, <2>6 DEF EndsAt
<1>3. CASE LineAt(t, i)
  <2>1. LexemeEnd(t, i) = Min({n} \cup LineEnds(t, i))
    <3>0. ~BlockAt(t, i) /\ ~QuoteAt(t, i)
      BY <1>3, OneKindEach
    <3>1. LexemeEnd(t, i) = Min({Len(t)} \cup LineEnds(t, i))
      BY <1>3, <3>0 DEF LexemeEnd, LineAt, BlockAt, QuoteAt, LineEnds
    <3>2. QED
      BY <1>1, <3>1
  <2>2. LineEnds(t, i) \in SUBSET (i..n)
    BY <1>1 DEF LineEnds
  <2>3. QED
    BY <1>1, <1>2, <1>3, <2>1, <2>2, OneKindEach DEF PlainAt
<1>4. CASE BlockAt(t, i)
  <2>1. LexemeEnd(t, i) = Min({n} \cup BlockEndings(t, i))
    <3>1. ~LineAt(t, i) /\ ~QuoteAt(t, i)
      BY <1>4, OneKindEach
    <3>2. LexemeEnd(t, i) = Min({Len(t)} \cup BlockEndings(t, i))
      BY <1>4, <3>1 DEF LexemeEnd, BlockAt, LineAt, QuoteAt, BlockEndings
    <3>3. QED
      BY <1>1, <3>2
  <2>2. BlockEndings(t, i) \in SUBSET (i..n)
    BY <1>1 DEF BlockEndings
  <2>3. QED
    BY <1>1, <1>2, <1>4, <2>1, <2>2, OneKindEach DEF PlainAt
<1>5. CASE QuoteAt(t, i)
  <2>1. LexemeEnd(t, i) = Min({n} \cup QuoteEnds(t, i))
    <3>1. ~LineAt(t, i) /\ ~BlockAt(t, i)
      BY <1>5, OneKindEach
    <3>2. QED
      BY <1>1, <1>5, <3>1 DEF LexemeEnd, BlockAt, LineAt, QuoteAt, QuoteEnds
  <2>2. QuoteEnds(t, i) \in SUBSET (i..n)
    BY <1>1 DEF QuoteEnds
  <2>3. QED
    BY <1>1, <1>2, <1>5, <2>1, <2>2, OneKindEach DEF PlainAt
<1>6. CASE PlainAt(t, i)
  <2>1. LexemeEnd(t, i) = i
    BY <1>6 DEF LexemeEnd, PlainAt, BlockAt, LineAt, QuoteAt
  <2>2. QED
    BY <1>6, <2>1 DEF PlainAt
<1>7. QED
  BY <1>3, <1>4, <1>5, <1>6 DEF PlainAt

(* From place i on, S is where lexemes start.                              *)
LexedFrom(S, t, i) ==
  /\ S \subseteq i..Len(t) /\ (i <= Len(t) => i \in S)
  /\ \A a \in S : LexemeEnd(t, a) < Len(t) => LexemeEnd(t, a) + 1 \in S
  /\ \A a, b \in S : a < b => LexemeEnd(t, a) < b

LEMMA StartsAre ==
  ASSUME NEW t \in Seq(Characters)
  PROVE  LexedFrom(Starts(t), t, 1)
<1>1. PICK n \in Nat : n = Len(t)
  OBVIOUS
<1>2. PICK D : D = 1..(n + 1)
  OBVIOUS
<1> DEFINE At(g, i) == IF i > Len(t) THEN {} ELSE {i} \cup g[LexemeEnd(t, i) + 1]
           Body(g) == [i \in 1..(Len(t) + 1) |-> At(g, i)]
           starts == CHOOSE g : g = Body(g)
           V == SUBSET (1..n)
<1>3. Starts(t) = starts[1]
  BY DEF Starts
<1>4. PICK rank : rank = [i \in D |-> n + 1 - i]
  OBVIOUS
<1>5. PICK bound \in Nat : bound = n + 2
  OBVIOUS
<1>6. RanksBelow(rank, D, bound)
  BY <1>2, <1>4, <1>5 DEF RanksBelow
<1>7. PICK on : on = [g \in [D -> V] |-> Body(g)]
  OBVIOUS
<1>8. ASSUME NEW i \in D, i <= n
      PROVE  LexemeEnd(t, i) \in i..n /\ LexemeEnd(t, i) + 1 \in D /\ rank[LexemeEnd(t, i) + 1] < rank[i]
  <2>1. LexemeEnd(t, i) \in i..n
    BY <1>1, <1>2, <1>8, LexemeEndIs
  <2>2. QED
    BY <1>2, <1>4, <2>1
<1>9. ASSUME NEW g \in [D -> V], NEW i \in D PROVE At(g, i) \in V
  <2>1. CASE i > n
    BY <1>1, <2>1
  <2>2. CASE i <= n
    <3>1. g[LexemeEnd(t, i) + 1] \in V /\ i \in 1..n
      BY <1>2, <1>8, <2>2
    <3>2. QED
      BY <1>1, <2>2, <3>1
  <2>3. QED
    BY <1>2, <2>1, <2>2
<1>10. ASSUME NEW f \in [D -> V], NEW g \in [D -> V], NEW i \in D, \A y \in D : rank[y] < rank[i] => f[y] = g[y]
       PROVE  At(f, i) = At(g, i)
  <2>1. CASE i > n
    BY <1>1, <2>1
  <2>2. CASE i <= n
    <3>1. f[LexemeEnd(t, i) + 1] = g[LexemeEnd(t, i) + 1]
      BY <1>8, <1>10, <2>2
    <3>2. QED
      BY <3>1
  <2>3. QED
    BY <1>2, <2>1, <2>2
<1>11. {} \in V
  OBVIOUS
<1> HIDE DEF At, V
<1>12. on \in [[D -> V] -> [D -> V]] /\ \A g \in [D -> V] : \A i \in D : on[g][i] = At(g, i)
  BY <1>1, <1>2, <1>7, <1>9
<1>13. Grounded(on, D, V, rank)
  BY <1>10, <1>12 DEF Grounded
<1>14. \E g \in [D -> V] : g = on[g]
  BY ONLY <1>6, bound \in Nat, <1>11, <1>13, RankedRecursion
<1>15. \E g : g = Body(g)
  BY <1>7, <1>14
<1>16. starts = Body(starts)
  <2> HIDE DEF Body
  <2>1. QED
    BY <1>15, Zenon
<1> HIDE DEF starts
<1>161. n + 1 \in D /\ n + 1 > n
  BY <1>2
<1>17. \A i \in D : starts[i] = IF i > n THEN {} ELSE {i} \cup starts[LexemeEnd(t, i) + 1]
  BY <1>1, <1>2, <1>16 DEF At
<1> DEFINE T == {k \in Nat : \A i \in D : n + 1 - i <= k => LexedFrom(starts[i], t, i)}
<1>18. LexedFrom({}, t, n + 1)
  BY <1>1 DEF LexedFrom
<1>19. starts[n + 1] = {}
  BY <1>161, <1>17
<1>20. T \subseteq Nat /\ 0 \in T
  <2>1. ASSUME NEW i \in D, n + 1 - i <= 0 PROVE LexedFrom(starts[i], t, i)
    <3>1. i = n + 1
      BY <1>2, <2>1
    <3>2. QED
      BY <1>18, <1>19, <3>1
  <2>2. QED
    BY <2>1
<1>21. ASSUME NEW k \in T PROVE k + 1 \in T
  <2>1. SUFFICES ASSUME NEW i \in D, n + 1 - i = k + 1 PROVE LexedFrom(starts[i], t, i)
    <3>1. ASSUME NEW i \in D, n + 1 - i <= k + 1, n + 1 - i # k + 1 PROVE n + 1 - i <= k
      BY <1>2, <3>1
    <3>2. QED
      BY <3>1
  <2>2. PICK l : l = LexemeEnd(t, i)
    OBVIOUS
  <2>3. k \in Nat /\ i <= n /\ i \in 1..n
    BY <1>2, <2>1
  <2>4. l \in i..n /\ l + 1 \in D /\ n + 1 - (l + 1) <= k
    BY <1>2, <1>8, <2>1, <2>2, <2>3
  <2>5. PICK B : B = starts[l + 1] /\ LexedFrom(B, t, l + 1)
    BY <2>4
  <2>6. PICK A : A = starts[i] /\ A = {i} \cup B
    <3>1. ~(i > n)
      BY <2>3
    <3>2. starts[i] = {i} \cup B
      BY <1>17, <2>2, <2>5, <3>1
    <3>3. QED
      BY <3>2
  <2>7. /\ B \subseteq (l + 1)..n /\ (l + 1 <= n => l + 1 \in B)
        /\ \A a \in B : LexemeEnd(t, a) < n => LexemeEnd(t, a) + 1 \in B
        /\ \A a, b \in B : a < b => LexemeEnd(t, a) < b
    BY <1>1, <2>5 DEF LexedFrom
  <2>8. A \subseteq i..n /\ i \in A
    <3>1. \A b \in (l + 1)..n : b \in i..n
      BY ONLY <2>3, <2>4, n \in Nat
    <3>2. i \in i..n
      BY ONLY <2>3, n \in Nat
    <3>3. B \subseteq (l + 1)..n
      BY <2>7
    <3>4. QED
      BY ONLY <2>6, <3>1, <3>2, <3>3
  <2>9. ASSUME NEW a \in A, LexemeEnd(t, a) < n PROVE LexemeEnd(t, a) + 1 \in A
    <3>1. CASE a = i
      BY <2>2, <2>4, <2>6, <2>7, <2>9, <3>1
    <3>2. CASE a \in B
      BY <2>6, <2>7, <2>9, <3>2
    <3>3. QED
      BY <2>6, <3>1, <3>2
  <2>10. ASSUME NEW a \in A, NEW b \in A, a < b PROVE LexemeEnd(t, a) < b
    <3>1. a \in i..n /\ b \in i..n /\ b # i
      BY <2>3, <2>8, <2>10
    <3>2. b \in B /\ b \in (l + 1)..n
      BY <2>6, <2>7, <3>1
    <3>3. CASE a = i
      BY <2>2, <2>4, <3>2, <3>3
    <3>4. CASE a \in B
      BY <2>7, <2>10, <3>2, <3>4
    <3>5. QED
      BY <2>6, <3>3, <3>4
  <2>11. LexedFrom(A, t, i)
    BY <1>1, <2>8, <2>9, <2>10 DEF LexedFrom
  <2>12. QED
    BY <2>6, <2>11
<1> HIDE DEF T
<1>22. T = Nat
  BY <1>20, <1>21, AllNumbers
<1>23. \A i \in D : LexedFrom(starts[i], t, i)
  <2>1. n + 1 \in T /\ \A i \in D : n + 1 - i <= n + 1
    BY <1>2, <1>22
  <2>2. QED
    BY <2>1 DEF T
<1>24. QED
  BY <1>2, <1>3, <1>23

LEMMA StartsBound ==
  ASSUME NEW t \in Seq(Characters)
  PROVE  /\ Starts(t) \subseteq 1..Len(t) /\ (Len(t) > 0 => 1 \in Starts(t))
         /\ \A a \in Starts(t) : LexemeEnd(t, a) < Len(t) => LexemeEnd(t, a) + 1 \in Starts(t)
         /\ \A a, b \in Starts(t) : a < b => LexemeEnd(t, a) < b
<1>1. LexedFrom(Starts(t), t, 1)
  BY StartsAre
<1>2. Len(t) \in Nat
  OBVIOUS
<1>3. QED
  BY <1>1, <1>2 DEF LexedFrom

(* A lexeme that has not met its closer up to j: no lexeme starts at j + 1,  *)
(* and if its closer is there the next one starts after it.                *)
LEMMA LexemeGoesOn ==
  ASSUME NEW t \in Seq(Characters), NEW i \in Starts(t), NEW j \in Nat, i <= j, j < Len(t), NEW ends,
         EndsAt(LexemeEnd(t, i), Len(t), ends), \A e \in ends : e \in Nat /\ j < e
  PROVE  /\ j + 1 \notin Starts(t)
         /\ j + 1 \in ends /\ j + 1 < Len(t) => (j + 1) + 1 \in Starts(t)
         /\ j + 1 \notin ends => \A e \in ends : j + 1 < e
<1>1. PICK n \in Nat : n = Len(t)
  OBVIOUS
<1>2. i \in 1..n
  BY <1>1, StartsBound
<1>3. PICK l \in i..n : l = LexemeEnd(t, i)
  BY <1>1, <1>2, LexemeEndIs
<1>4. (l = n \/ l \in ends) /\ \A e \in ends : l <= e
  BY <1>1, <1>3 DEF EndsAt
<1>5. j < l
  BY <1>1, <1>4
<1>6. j + 1 \notin Starts(t)
  <2>1. j + 1 \in Starts(t) => LexemeEnd(t, i) < j + 1
    <3>1. i < j + 1
      BY <1>2
    <3>2. QED
      BY <3>1, StartsBound
  <2>2. QED
    BY <1>3, <1>5, <2>1
<1>7. ASSUME j + 1 \in ends, j + 1 < n PROVE (j + 1) + 1 \in Starts(t)
  <2>1. l = j + 1
    BY <1>3, <1>4, <1>5, <1>7
  <2>2. QED
    BY <1>1, <1>3, <1>7, <2>1, StartsBound
<1>8. ASSUME j + 1 \notin ends, NEW e \in ends PROVE j + 1 < e
  <2>1. e \in Nat /\ j < e /\ e # j + 1
    BY <1>8
  <2>2. QED
    BY <2>1
<1>9. QED
  BY <1>1, <1>6, <1>7, <1>8

(* A character is escaped when it follows a backslash that is not.          *)
LEMMA EscapedNext ==
  ASSUME NEW t \in Seq(Characters), NEW i \in Nat, NEW j \in Nat, i < j
  PROVE  Escaped(t, i, j + 1) <=> t[j] = Backslash /\ ~Escaped(t, i, j)
<1> DEFINE RunTo(x) == {k \in (i + 1)..(x - 1) : \A m \in k..(x - 1) : t[m] = Backslash}
<1>1. PICK R : R = RunTo(j)
  OBVIOUS
<1>2. PICK Q : Q = RunTo(j + 1)
  OBVIOUS
<1>3. (Escaped(t, i, j) <=> Cardinality(R) % 2 = 1) /\ (Escaped(t, i, j + 1) <=> Cardinality(Q) % 2 = 1)
  BY <1>1, <1>2 DEF Escaped
<1>4. IsFiniteSet(R) /\ Cardinality(R) \in Nat /\ j \notin R
  <2>1. R \subseteq (i + 1)..(j - 1)
    BY <1>1
  <2>2. i + 1 \in Int /\ j - 1 \in Int
    OBVIOUS
  <2>3. IsFiniteSet((i + 1)..(j - 1))
    BY <2>2, FS_Interval
  <2>4. IsFiniteSet(R)
    BY <2>1, <2>3, FS_Subset
  <2>5. QED
    BY <2>1, <2>4, FS_CardinalityType
<1>5. CASE t[j] # Backslash
  <2>1. Q = {}
    <3>1. ASSUME NEW k \in Q PROVE FALSE
      <4>1. k \in (i + 1)..j /\ \A m \in k..j : t[m] = Backslash
        BY <1>2, <3>1
      <4>2. j \in k..j
        BY <4>1
      <4>3. QED
        BY <1>5, <4>1, <4>2
    <3>2. QED
      BY <3>1
  <2>2. Cardinality(Q) = 0
    BY <2>1, FS_EmptySet
  <2>3. QED
    BY <1>3, <1>5, <2>2
<1>6. CASE t[j] = Backslash
  <2>1. Q = R \cup {j}
    <3>1. ASSUME NEW k \in Q PROVE k \in R \cup {j}
      <4>1. k \in (i + 1)..j /\ \A m \in k..j : t[m] = Backslash
        BY <1>2, <3>1
      <4>2. CASE k # j
        <5>1. k \in (i + 1)..(j - 1)
          BY <4>1, <4>2
        <5>2. \A m \in k..(j - 1) : t[m] = Backslash
          BY <4>1, <5>1
        <5>3. QED
          BY <1>1, <5>1, <5>2
      <4>3. QED
        BY <4>2
    <3>2. ASSUME NEW k \in R PROVE k \in Q
      <4>1. k \in (i + 1)..(j - 1) /\ \A m \in k..(j - 1) : t[m] = Backslash
        BY <1>1, <3>2
      <4>2. k \in (i + 1)..((j + 1) - 1)
        BY <4>1
      <4>3. ASSUME NEW m \in k..((j + 1) - 1) PROVE t[m] = Backslash
        <5>1. m = j \/ m \in k..(j - 1)
          BY <4>1
        <5>2. QED
          BY <1>6, <4>1, <5>1
      <4>4. QED
        BY <1>2, <4>2, <4>3
    <3>3. j \in Q
      <4>1. j \in (i + 1)..((j + 1) - 1)
        OBVIOUS
      <4>2. \A m \in j..((j + 1) - 1) : m = j
        OBVIOUS
      <4>3. QED
        BY <1>2, <1>6, <4>1, <4>2
    <3>4. QED
      BY <3>1, <3>2, <3>3
  <2>2. Cardinality(Q) = Cardinality(R) + 1
    BY <1>4, <2>1, FS_AddElement
  <2>3. QED
    BY <1>3, <1>4, <1>6, <2>2
<1>7. QED
  BY <1>5, <1>6

LEMMA FirstUnescaped ==
  ASSUME NEW t, NEW i \in Nat
  PROVE  ~Escaped(t, i, i + 1)
<1>1. (i + 1)..((i + 1) - 1) = {}
  OBVIOUS
<1>2. {k \in (i + 1)..((i + 1) - 1) : \A m \in k..((i + 1) - 1) : t[m] = Backslash} = {}
  BY <1>1
<1>3. QED
  BY <1>2, FS_EmptySet DEF Escaped

LEMMA CountsNext ==
  ASSUME NEW t \in Seq(Characters), NEW c, NEW j \in Nat
  PROVE  /\ CountTo(t, c, j) \in Nat /\ CountTo(t, c, 0) = 0
         /\ j + 1 \in Starts(t) /\ t[j + 1] = c => CountTo(t, c, j + 1) = CountTo(t, c, j) + 1
         /\ ~(j + 1 \in Starts(t) /\ t[j + 1] = c) => CountTo(t, c, j + 1) = CountTo(t, c, j)
<1> DEFINE Upto(x) == {i \in Starts(t) : i <= x /\ t[i] = c}
<1>1. PICK A : A = Upto(j)
  OBVIOUS
<1>2. PICK B : B = Upto(j + 1)
  OBVIOUS
<1>3. CountTo(t, c, j) = Cardinality(A) /\ CountTo(t, c, j + 1) = Cardinality(B) /\ CountTo(t, c, 0) = Cardinality(Upto(0))
  BY <1>1, <1>2 DEF CountTo
<1>4. PICK n \in Nat : n = Len(t)
  OBVIOUS
<1>5. Starts(t) \subseteq 1..n
  BY <1>4, StartsBound
<1>6. IsFiniteSet(A) /\ Cardinality(A) \in Nat /\ j + 1 \notin A
  <2>1. A \subseteq 1..n
    BY <1>1, <1>5
  <2>2. IsFiniteSet(1..n)
    BY FS_Interval
  <2>3. IsFiniteSet(A)
    BY <2>1, <2>2, FS_Subset
  <2>4. QED
    BY <1>1, <2>3, FS_CardinalityType
<1>7. Upto(0) = {}
  BY <1>5
<1>8. ASSUME j + 1 \in Starts(t), t[j + 1] = c PROVE Cardinality(B) = Cardinality(A) + 1
  <2>1. B = A \cup {j + 1}
    <3>1. \A i \in Starts(t) : i <= j + 1 <=> i <= j \/ i = j + 1
      BY <1>5
    <3>2. QED
      BY <1>1, <1>2, <1>8, <3>1
  <2>2. QED
    BY <1>6, <2>1, FS_AddElement
<1>9. ASSUME ~(j + 1 \in Starts(t) /\ t[j + 1] = c) PROVE B = A
  <2>1. \A i \in Starts(t) : i <= j + 1 <=> i <= j \/ i = j + 1
    BY <1>5
  <2>2. QED
    BY <1>1, <1>2, <1>9, <2>1
<1>10. QED
  BY <1>3, <1>6, <1>7, <1>8, <1>9, FS_EmptySet

(* What match_brace knows after j characters that did not end the block: it *)
(* has counted the braces among the lexemes, and it is between two lexemes   *)
(* or inside of one whose closer it has not met.                           *)
BetweenLexemes(t, s, j) == s.mode = "code" /\ ~s.escaping /\ (j < Len(t) => j + 1 \in Starts(t))
InsideLine(t, s, i, j)  == LineAt(t, i) /\ s.mode = "line" /\ ~s.escaping /\ \A e \in LineEnds(t, i) : j < e
InsideBlock(t, s, i, j) == BlockAt(t, i) /\ s.mode = "block" /\ ~s.escaping /\ \A e \in BlockEndings(t, i) : j < e
InsideQuote(t, s, i, j) ==
  /\ QuoteAt(t, i) /\ s.mode = t[i] /\ (s.escaping <=> Escaped(t, i, j + 1))
  /\ \A e \in QuoteEnds(t, i) : j < e
InsideLexeme(t, s, i, j) ==
  i <= j /\ (InsideLine(t, s, i, j) \/ InsideBlock(t, s, i, j) \/ InsideQuote(t, s, i, j))
Situated(t, s, j) == BetweenLexemes(t, s, j) \/ \E i \in Starts(t) : InsideLexeme(t, s, i, j)

BracesCounted(t, s, j) == s.depth = CountTo(t, "{", j) - CountTo(t, "}", j)
Scanned(t, s, j) ==
  /\ s.end = 0 => BracesCounted(t, s, j) /\ Situated(t, s, j) /\ (j # 0 => s.depth # 0) /\ \A c \in Closing(t) : j < c
  /\ s.end # 0 => s.end \in Closing(t) /\ s.end <= j /\ \A c \in Closing(t) : s.end <= c

NoShortComment(t) == \A i \in Comments(t, "*") : CharAt(t, i + 2) # "/"

(* No lexeme starts at j + 1: the counts stay, and no block closes there.   *)
LEMMA NoBraceThere ==
  ASSUME NEW t \in Seq(Characters), NEW j \in Nat, j + 1 \notin Starts(t) \/ t[j + 1] \notin {"{", "}"},
         NEW s, NEW u, u.depth = s.depth, BracesCounted(t, s, j), \A c \in Closing(t) : j < c
  PROVE  BracesCounted(t, u, j + 1) /\ \A c \in Closing(t) : j + 1 < c
<1>1. CountTo(t, "{", j + 1) = CountTo(t, "{", j) /\ CountTo(t, "}", j + 1) = CountTo(t, "}", j)
  BY CountsNext
<1>2. BracesCounted(t, u, j + 1)
  BY <1>1 DEF BracesCounted
<1>3. ASSUME NEW c \in Closing(t) PROVE j + 1 < c
  <2>1. c \in Starts(t) /\ t[c] = "}"
    BY DEF Closing
  <2>2. c # j + 1
    BY <2>1
  <2>3. c \in Nat
    <3>1. Starts(t) \subseteq 1..Len(t)
      BY StartsBound
    <3>2. c \in 1..Len(t)
      BY ONLY <2>1, <3>1
    <3>3. QED
      BY ONLY <3>2
  <2>4. j < c
    OBVIOUS
  <2>5. QED
    BY ONLY <2>2, <2>3, <2>4, j \in Nat
<1>4. QED
  BY <1>2, <1>3

LEMMA GoesOnInLine ==
  ASSUME NEW t \in Seq(Characters), NEW s \in ScanStates, NEW j \in Nat, j < Len(t), s.end = 0,
         NEW i \in Starts(t), i <= j, InsideLine(t, s, i, j)
  PROVE  LET u == ReadChar(s, t, j + 1)
         IN j + 1 \notin Starts(t) /\ u.depth = s.depth /\ u.end = 0 /\ Situated(t, u, j + 1)
<1>1. PICK u : u = ReadChar(s, t, j + 1)
  OBVIOUS
<1>2. LineAt(t, i) /\ s.mode = "line" /\ ~s.escaping /\ \A e \in LineEnds(t, i) : j < e
  BY DEF InsideLine
<1>3. u = InLineComment(s, t, j + 1)
  BY <1>1, <1>2, MarksApart DEF ReadChar
<1>4. i \in 1..Len(t)
  BY StartsBound
<1>5. /\ j + 1 \notin Starts(t)
      /\ j + 1 \in LineEnds(t, i) /\ j + 1 < Len(t) => (j + 1) + 1 \in Starts(t)
      /\ j + 1 \notin LineEnds(t, i) => \A e \in LineEnds(t, i) : j + 1 < e
  <2>1. \A e \in LineEnds(t, i) : e \in Nat
    BY <1>4 DEF LineEnds
  <2>2. EndsAt(LexemeEnd(t, i), Len(t), LineEnds(t, i))
    BY <1>2, <1>4, LexemeEndIs
  <2>3. QED
    BY <1>2, <2>1, <2>2, LexemeGoesOn
<1>6. j + 1 \in LineEnds(t, i) <=> t[j + 1] = Newline
  BY <1>4 DEF LineEnds
<1>7. CASE t[j + 1] = Newline
  <2>1. u = [s EXCEPT !.mode = "code"]
    BY <1>3, <1>7 DEF InLineComment
  <2>2. u.mode = "code" /\ ~u.escaping /\ u.depth = s.depth /\ u.end = 0
    BY <1>2, <2>1 DEF ScanStates
  <2>3. BetweenLexemes(t, u, j + 1)
    BY <1>5, <1>6, <1>7, <2>2 DEF BetweenLexemes
  <2>4. QED
    BY <1>1, <1>5, <2>2, <2>3 DEF Situated
<1>8. CASE t[j + 1] # Newline
  <2>1. u = s
    BY <1>3, <1>8 DEF InLineComment
  <2>2. InsideLine(t, u, i, j + 1)
    BY <1>2, <1>5, <1>6, <1>8, <2>1 DEF InsideLine
  <2>3. i <= j + 1
    BY <1>4
  <2>4. QED
    BY <1>1, <1>5, <2>1, <2>2, <2>3 DEF Situated, InsideLexeme
<1>9. QED
  BY <1>7, <1>8

LEMMA GoesOnInBlock ==
  ASSUME NEW t \in Seq(Characters), NEW s \in ScanStates, NEW j \in Nat, j < Len(t), s.end = 0,
         NEW i \in Starts(t), i <= j, InsideBlock(t, s, i, j), NoShortComment(t)
  PROVE  LET u == ReadChar(s, t, j + 1)
         IN j + 1 \notin Starts(t) /\ u.depth = s.depth /\ u.end = 0 /\ Situated(t, u, j + 1)
<1>1. PICK u : u = ReadChar(s, t, j + 1)
  OBVIOUS
<1>2. BlockAt(t, i) /\ s.mode = "block" /\ ~s.escaping /\ \A e \in BlockEndings(t, i) : j < e
  BY DEF InsideBlock
<1>3. u = InBlockComment(s, t, j + 1)
  BY <1>1, <1>2, MarksApart DEF ReadChar
<1>4. i \in 1..Len(t)
  BY StartsBound
<1>5. /\ j + 1 \notin Starts(t)
      /\ j + 1 \in BlockEndings(t, i) /\ j + 1 < Len(t) => (j + 1) + 1 \in Starts(t)
      /\ j + 1 \notin BlockEndings(t, i) => \A e \in BlockEndings(t, i) : j + 1 < e
  <2>1. \A e \in BlockEndings(t, i) : e \in Nat
    BY <1>4 DEF BlockEndings
  <2>2. EndsAt(LexemeEnd(t, i), Len(t), BlockEndings(t, i))
    BY <1>2, <1>4, LexemeEndIs
  <2>3. QED
    BY <1>2, <2>1, <2>2, LexemeGoesOn
<1>6. j + 1 \in BlockEndings(t, i) <=> t[j + 1] = "/" /\ t[(j + 1) - 1] = "*"
  <2>1. t[i] = "/" /\ (i + 2 # j + 1 \/ t[j + 1] # "/")
    <3>1. t[i] = "/" /\ CharAt(t, i + 1) = "*"
      BY <1>2 DEF BlockAt
    <3>2. CharAt(t, i + 2) # "/"
      BY <3>1 DEF NoShortComment, Comments
    <3>3. QED
      BY <3>1, <3>2 DEF CharAt
  <2>2. j = i \/ j + 1 = i + 2 \/ j + 1 \in (i + 3)..Len(t)
    BY <1>4
  <2>3. (j + 1) - 1 = j
    OBVIOUS
  <2>4. t[i] # "*"
    BY <1>2 DEF BlockAt
  <2>5. j = i \/ j + 1 = i + 2 => j + 1 \notin (i + 3)..Len(t)
    BY <1>4
  <2>6. j + 1 \in BlockEndings(t, i) <=> j + 1 \in (i + 3)..Len(t) /\ t[(j + 1) - 1] = "*" /\ t[j + 1] = "/"
    BY DEF BlockEndings
  <2>7. QED
    BY <2>1, <2>2, <2>3, <2>4, <2>5, <2>6
<1>7. CASE j + 1 \in BlockEndings(t, i)
  <2>1. u = [s EXCEPT !.mode = "code"]
    BY <1>3, <1>6, <1>7 DEF InBlockComment
  <2>2. u.mode = "code" /\ ~u.escaping /\ u.depth = s.depth /\ u.end = 0
    BY <1>2, <2>1 DEF ScanStates
  <2>3. BetweenLexemes(t, u, j + 1)
    BY <1>5, <1>7, <2>2 DEF BetweenLexemes
  <2>4. QED
    BY <1>1, <1>5, <2>2, <2>3 DEF Situated
<1>8. CASE j + 1 \notin BlockEndings(t, i)
  <2>1. u = s
    BY <1>3, <1>6, <1>8 DEF InBlockComment
  <2>2. InsideBlock(t, u, i, j + 1)
    BY <1>2, <1>5, <1>8, <2>1 DEF InsideBlock
  <2>3. i <= j + 1
    BY <1>4
  <2>4. QED
    BY <1>1, <1>5, <2>1, <2>2, <2>3 DEF Situated, InsideLexeme
<1>9. QED
  BY <1>7, <1>8

LEMMA GoesOnInQuote ==
  ASSUME NEW t \in Seq(Characters), NEW s \in ScanStates, NEW j \in Nat, j < Len(t), s.end = 0,
         NEW i \in Starts(t), i <= j, InsideQuote(t, s, i, j)
  PROVE  LET u == ReadChar(s, t, j + 1)
         IN j + 1 \notin Starts(t) /\ u.depth = s.depth /\ u.end = 0 /\ Situated(t, u, j + 1)
<1>1. PICK u : u = ReadChar(s, t, j + 1)
  OBVIOUS
<1>2. /\ QuoteAt(t, i) /\ s.mode = t[i] /\ (s.escaping <=> Escaped(t, i, j + 1))
      /\ \A e \in QuoteEnds(t, i) : j < e
  BY DEF InsideQuote
<1>21. s.mode \in Quotes /\ s.mode # "line" /\ s.mode # "block" /\ s.mode # Backslash
  BY <1>2, MarksApart DEF QuoteAt, Marks
<1>3. u = InString(s, t, j + 1)
  BY <1>1, <1>21 DEF ReadChar
<1>4. i \in 1..Len(t)
  BY StartsBound
<1>5. /\ j + 1 \notin Starts(t)
      /\ j + 1 \in QuoteEnds(t, i) /\ j + 1 < Len(t) => (j + 1) + 1 \in Starts(t)
      /\ j + 1 \notin QuoteEnds(t, i) => \A e \in QuoteEnds(t, i) : j + 1 < e
  <2>1. \A e \in QuoteEnds(t, i) : e \in Nat
    BY <1>4 DEF QuoteEnds
  <2>2. EndsAt(LexemeEnd(t, i), Len(t), QuoteEnds(t, i))
    BY <1>2, <1>4, LexemeEndIs
  <2>3. QED
    BY <1>2, <2>1, <2>2, LexemeGoesOn
<1>6. j + 1 \in QuoteEnds(t, i) <=> t[j + 1] = t[i] /\ ~Escaped(t, i, j + 1)
  BY <1>4 DEF QuoteEnds
<1>7. Escaped(t, i, (j + 1) + 1) <=> t[j + 1] = Backslash /\ ~Escaped(t, i, j + 1)
  <2>1. j + 1 \in Nat /\ i < j + 1 /\ i \in Nat
    BY <1>4
  <2>2. QED
    BY <2>1, EscapedNext
<1>8. CASE j + 1 \in QuoteEnds(t, i)
  <2>1. ~s.escaping /\ t[j + 1] = s.mode /\ t[j + 1] # Backslash
    BY <1>2, <1>21, <1>6, <1>8
  <2>2. u = [s EXCEPT !.mode = "code"]
    BY <1>3, <2>1 DEF InString
  <2>3. u.mode = "code" /\ ~u.escaping /\ u.depth = s.depth /\ u.end = 0
    BY <2>1, <2>2 DEF ScanStates
  <2>4. BetweenLexemes(t, u, j + 1)
    BY <1>5, <1>8, <2>3 DEF BetweenLexemes
  <2>5. QED
    BY <1>1, <1>5, <2>3, <2>4 DEF Situated
<1>9. CASE j + 1 \notin QuoteEnds(t, i)
  <2>1. /\ u.mode = s.mode /\ u.depth = s.depth /\ u.end = s.end
        /\ u.escaping <=> t[j + 1] = Backslash /\ ~s.escaping
    <3>1. CASE s.escaping
      BY <1>3, <3>1 DEF InString, ScanStates
    <3>2. CASE ~s.escaping /\ t[j + 1] = Backslash
      <4>1. u = [s EXCEPT !.escaping = TRUE]
        BY <1>3, <1>21, <3>2 DEF InString
      <4>2. QED
        BY <3>2, <4>1 DEF ScanStates
    <3>3. CASE ~s.escaping /\ t[j + 1] # Backslash
      <4>1. t[j + 1] # s.mode
        BY <1>2, <1>6, <1>9, <3>3
      <4>2. u = s
        BY <1>3, <3>3, <4>1 DEF InString
      <4>3. QED
        BY <3>3, <4>2
    <3>4. QED
      BY <3>1, <3>2, <3>3
  <2>2. InsideQuote(t, u, i, j + 1)
    BY <1>2, <1>5, <1>7, <1>9, <2>1 DEF InsideQuote
  <2>3. i <= j + 1
    BY <1>4
  <2>4. QED
    BY <1>1, <1>5, <2>1, <2>2, <2>3 DEF Situated, InsideLexeme
<1>10. QED
  BY <1>8, <1>9

LEMMA NextPlace == ASSUME NEW t \in Seq(Characters), NEW j \in Nat, j < Len(t) PROVE j + 1 \in 1..Len(t) /\ Len(t) \in Nat
<1>1. Len(t) \in Nat
  OBVIOUS
<1>2. QED
  BY ONLY <1>1, j \in Nat, j < Len(t)

LEMMA NoneCounted == ASSUME NEW x \in Int, NEW c, c # "{" PROVE x = x + (IF c = "{" THEN 1 ELSE 0)
<1>1. PICK k : k = IF c = "{" THEN 1 ELSE 0
  OBVIOUS
<1>2. k = 0
  BY <1>1
<1>3. x = x + k
  BY ONLY <1>2, x \in Int
<1>4. QED
  BY <1>1, <1>3

LEMMA ClosingPlaces == ASSUME NEW t \in Seq(Characters), NEW c \in Closing(t) PROVE c \in Nat /\ 0 < c /\ c <= Len(t) /\ t[c] = "}"
<1>1. c \in Starts(t) /\ t[c] = "}"
  BY DEF Closing
<1>2. Len(t) \in Nat
  OBVIOUS
<1>3. Starts(t) \subseteq 1..Len(t)
  BY StartsBound
<1>4. PICK b \in Starts(t) : b = c
  BY <1>1
<1>5. b \in Nat /\ 0 < b /\ b <= Len(t)
  BY ONLY <1>2, <1>3, <1>4
<1>6. QED
  BY ONLY <1>1, <1>4, <1>5

(* Between two lexemes, the scanner enters the one that starts at j + 1, or  *)
(* passes it if it is a character.                                         *)
LEMMA EntersLexeme ==
  ASSUME NEW t \in Seq(Characters), NEW s \in ScanStates, NEW j \in Nat, j < Len(t), s.end = 0,
         BetweenLexemes(t, s, j), t[j + 1] # "}"
  PROVE  LET u == ReadChar(s, t, j + 1)
         IN u.depth = s.depth + (IF t[j + 1] = "{" THEN 1 ELSE 0) /\ u.end = 0 /\ Situated(t, u, j + 1)
<1>1. PICK u : u = ReadChar(s, t, j + 1)
  OBVIOUS
<1>2. s.mode = "code" /\ ~s.escaping /\ j + 1 \in Starts(t) /\ s.depth \in Int
  <2>1. s.mode = "code" /\ ~s.escaping /\ j + 1 \in Starts(t)
    BY DEF BetweenLexemes
  <2>2. s.depth \in Nat
    BY DEF ScanStates
  <2>3. s.depth \in Int
    BY ONLY <2>2
  <2>4. QED
    BY ONLY <2>1, <2>3
<1>4. PICK i \in Nat : i = j + 1
  BY ONLY j \in Nat
<1>3. u = InCode(s, t, i)
  BY <1>1, <1>2, <1>4, MarksApart DEF ReadChar
<1>5. i \in 1..Len(t) /\ i \in Starts(t) /\ i <= j + 1
  <2>1. j + 1 \in 1..Len(t) /\ j + 1 <= j + 1
    BY ONLY t \in Seq(Characters), j \in Nat, j < Len(t), NextPlace
  <2>2. QED
    BY ONLY <1>2, <1>4, <2>1
<1>6. CASE LineAt(t, i)
  <2>1. u = [s EXCEPT !.mode = "line"]
    <3>1. ~BlockAt(t, i) /\ ~QuoteAt(t, i)
      BY <1>6, OneKindEach
    <3>2. QED
      BY <1>3, <1>6, <3>1 DEF InCode, LineAt, BlockAt, QuoteAt
  <2>2. u.mode = "line" /\ ~u.escaping /\ u.depth = s.depth /\ u.end = 0
    BY <1>2, <2>1 DEF ScanStates
  <2>3. t[i] = "/" /\ t[i] # Newline
    BY <1>6 DEF LineAt, Newline
  <2>4. ASSUME NEW e \in LineEnds(t, i) PROVE j + 1 < e
    <3>1. e \in i..Len(t) /\ t[e] = Newline
      BY <2>4 DEF LineEnds
    <3>2. e # i
      BY <2>3, <3>1
    <3>3. i <= e /\ e \in Int
      BY ONLY <1>5, <3>1, i \in Nat
    <3>4. QED
      BY ONLY <1>4, <3>2, <3>3, i \in Nat
  <2>5. InsideLexeme(t, u, i, j + 1)
    BY <1>5, <1>6, <2>2, <2>4 DEF InsideLexeme, InsideLine
  <2>6. QED
    BY <1>1, <1>2, <1>4, <1>5, <2>2, <2>3, <2>5 DEF Situated
<1>7. CASE BlockAt(t, i)
  <2>1. ~LineAt(t, i)
    BY <1>7, OneKindEach
  <2>2. u = [s EXCEPT !.mode = "block"]
    <3>1. ~QuoteAt(t, i)
      BY <1>7, OneKindEach
    <3>2. QED
      BY <1>3, <1>7, <2>1, <3>1 DEF InCode, LineAt, BlockAt, QuoteAt
  <2>3. u.mode = "block" /\ ~u.escaping /\ u.depth = s.depth /\ u.end = 0
    BY <1>2, <2>2 DEF ScanStates
  <2>4. t[i] # "{"
    BY <1>7 DEF BlockAt
  <2>5. ASSUME NEW e \in BlockEndings(t, i) PROVE j + 1 < e
    <3>1. e \in (i + 3)..Len(t)
      BY <2>5 DEF BlockEndings
    <3>2. i + 3 <= e /\ e \in Int
      BY ONLY <3>1, i \in Nat
    <3>3. QED
      BY ONLY <1>4, <3>2, i \in Nat, j \in Nat
  <2>6. InsideLexeme(t, u, i, j + 1)
    BY <1>5, <1>7, <2>3, <2>5 DEF InsideLexeme, InsideBlock
  <2>7. u.depth = s.depth + (IF t[j + 1] = "{" THEN 1 ELSE 0)
    BY <1>2, <1>4, <2>3, <2>4, NoneCounted
  <2>8. QED
    BY <1>1, <1>5, <2>3, <2>6, <2>7 DEF Situated
<1>8. CASE QuoteAt(t, i)
  <2>1. t[i] \in Quotes /\ t[i] # "/" /\ t[i] # "{"
    BY <1>8, MarksApart DEF QuoteAt, Marks
  <2>2. u = [s EXCEPT !.mode = t[i]]
    BY <1>3, <1>4, <2>1 DEF InCode
  <2>3. u.mode = t[i] /\ ~u.escaping /\ u.depth = s.depth /\ u.end = 0
    BY <1>2, <2>2 DEF ScanStates
  <2>4. ASSUME NEW e \in QuoteEnds(t, i) PROVE j + 1 < e
    <3>1. e \in (i + 1)..Len(t)
      BY <2>4 DEF QuoteEnds
    <3>2. i + 1 <= e /\ e \in Int
      BY ONLY <3>1, i \in Nat
    <3>3. QED
      BY ONLY <1>4, <3>2, i \in Nat, j \in Nat
  <2>5. ~Escaped(t, i, (j + 1) + 1)
    <3>1. ~Escaped(t, i, i + 1)
      BY FirstUnescaped
    <3>2. QED
      BY <1>4, <3>1
  <2>6. InsideQuote(t, u, i, j + 1)
    BY <1>8, <2>3, <2>4, <2>5 DEF InsideQuote
  <2>7. InsideLexeme(t, u, i, j + 1)
    BY <1>5, <2>6 DEF InsideLexeme
  <2>8. u.depth = s.depth + (IF t[j + 1] = "{" THEN 1 ELSE 0)
    BY <1>2, <1>4, <2>1, <2>3, NoneCounted
  <2>9. QED
    BY <1>1, <1>5, <2>3, <2>7, <2>8 DEF Situated
<1>9. CASE PlainAt(t, i)
  <2>1. /\ ~(t[i] = "/" /\ CharAt(t, i + 1) = "/") /\ ~(t[i] = "/" /\ CharAt(t, i + 1) = "*")
        /\ t[i] \notin Quotes /\ t[i] # "}"
    BY <1>4, <1>9 DEF PlainAt, LineAt, BlockAt, QuoteAt
  <2>2. u.mode = "code" /\ ~u.escaping /\ u.depth = s.depth + (IF t[i] = "{" THEN 1 ELSE 0) /\ u.end = 0
    <3>1. CASE t[i] = "{"
      <4>1. u = [s EXCEPT !.depth = @ + 1]
        BY <1>3, <1>4, <2>1, <3>1 DEF InCode
      <4>2. QED
        BY <1>2, <3>1, <4>1 DEF ScanStates
    <3>2. CASE t[i] # "{"
      <4>1. u = s
        BY <1>3, <1>4, <2>1, <3>2 DEF InCode
      <4>2. u.depth = s.depth + (IF t[i] = "{" THEN 1 ELSE 0)
        BY <1>2, <3>2, <4>1, NoneCounted
      <4>3. QED
        BY <1>2, <4>1, <4>2
    <3>3. QED
      BY <3>1, <3>2
  <2>3. i < Len(t) => i + 1 \in Starts(t)
    <3>1. LexemeEnd(t, i) = i
      BY <1>5, <1>9, LexemeEndIs
    <3>2. QED
      BY <1>5, <3>1, StartsBound
  <2>4. BetweenLexemes(t, u, j + 1)
    BY <1>4, <2>2, <2>3 DEF BetweenLexemes
  <2>5. QED
    BY <1>1, <1>4, <2>2, <2>4 DEF Situated
<1>10. QED
  BY <1>6, <1>7, <1>8, <1>9 DEF PlainAt

LEMMA MeetsClosingBrace ==
  ASSUME NEW t \in Seq(Characters), NEW s \in ScanStates, NEW j \in Nat, j < Len(t), s.end = 0,
         BetweenLexemes(t, s, j), s.depth # 0, t[j + 1] = "}"
  PROVE  LET u == ReadChar(s, t, j + 1)
         IN u.depth = s.depth - 1 /\ u.end = (IF s.depth = 1 THEN j + 1 ELSE 0) /\ Situated(t, u, j + 1)
<1>1. PICK u : u = ReadChar(s, t, j + 1)
  OBVIOUS
<1>2. s.mode = "code" /\ ~s.escaping /\ j + 1 \in Starts(t) /\ s.depth \in Nat
  BY DEF BetweenLexemes, ScanStates
<1>3. u = InCode(s, t, j + 1)
  BY <1>1, <1>2, MarksApart DEF ReadChar
<1>4. t[j + 1] \notin Quotes /\ t[j + 1] # "/" /\ t[j + 1] # "{"
  BY MarksApart DEF Marks
<1>5. PICK e : e = IF s.depth = 1 THEN j + 1 ELSE 0
  OBVIOUS
<1>6. u = [s EXCEPT !.depth = IF @ = 0 THEN 0 ELSE @ - 1, !.end = e]
  <2>1. s.depth <= 1 <=> s.depth = 1
    BY ONLY <1>2, s.depth # 0
  <2>2. e = IF s.depth <= 1 THEN j + 1 ELSE 0
    BY <1>5, <2>1
  <2>3. QED
    BY <1>3, <1>4, <2>2 DEF InCode
<1>7. u.mode = "code" /\ ~u.escaping /\ u.depth = s.depth - 1 /\ u.end = e
  <2>1. PICK d : d = IF s.depth = 0 THEN 0 ELSE s.depth - 1
    OBVIOUS
  <2>2. u = [s EXCEPT !.depth = d, !.end = e]
    BY <1>6, <2>1
  <2>3. d = s.depth - 1
    BY ONLY <2>1, s.depth # 0
  <2>4. QED
    BY <1>2, <2>2, <2>3 DEF ScanStates
<1>8. j + 1 < Len(t) => (j + 1) + 1 \in Starts(t)
  <2>1. PlainAt(t, j + 1)
    BY <1>4 DEF PlainAt, LineAt, BlockAt, QuoteAt
  <2>2. LexemeEnd(t, j + 1) = j + 1
    <3>1. j + 1 \in 1..Len(t)
      BY NextPlace
    <3>2. QED
      BY <2>1, <3>1, LexemeEndIs
  <2>3. QED
    BY <1>2, <2>2, StartsBound
<1>9. BetweenLexemes(t, u, j + 1)
  BY <1>7, <1>8 DEF BetweenLexemes
<1>10. QED
  BY <1>1, <1>5, <1>7, <1>9 DEF Situated

(* A block is read from its opening brace on, so the scanner's depth is 0    *)
(* again only where it stops, and never has to be kept from going below.    *)
Opens(t) == Len(t) > 0 /\ t[1] = "{"

(* Reading one more character keeps what the scanner knows.                *)
LEMMA ScansOn ==
  ASSUME NEW t \in Seq(Characters), Opens(t), NoShortComment(t), NEW s \in ScanStates, NEW j \in Nat, j < Len(t), Scanned(t, s, j)
  PROVE  Scanned(t, ReadChar(s, t, j + 1), j + 1)
<1>1. PICK u : u = ReadChar(s, t, j + 1)
  OBVIOUS
<1>2. CASE s.end # 0
  <2>1. u = s
    BY <1>1, <1>2 DEF ReadChar
  <2>2. s.end \in Closing(t) /\ s.end <= j /\ \A c \in Closing(t) : s.end <= c
    BY <1>2 DEF Scanned
  <2>3. s.end <= j + 1
    BY <2>2 DEF ScanStates
  <2>4. QED
    BY <1>1, <1>2, <2>1, <2>2, <2>3 DEF Scanned
<1>3. CASE s.end = 0
  <2>1. BracesCounted(t, s, j) /\ Situated(t, s, j) /\ \A c \in Closing(t) : j < c
    BY <1>3 DEF Scanned
  <2>10. (j # 0 => s.depth # 0) /\ s.depth \in Nat
    BY <1>3 DEF Scanned, ScanStates
  <2>11. j = 0 => t[j + 1] = "{"
    <3>1. j = 0 => j + 1 = 1
      OBVIOUS
    <3>2. t[1] = "{"
      BY DEF Opens
    <3>3. QED
      BY <3>1, <3>2
  <2>2. CASE BetweenLexemes(t, s, j) /\ t[j + 1] = "}"
    <3>0. s.depth # 0
      <4>1. t[j + 1] # "{"
        BY <2>2
      <4>2. QED
        BY <2>10, <2>11, <4>1
    <3>1. u.depth = s.depth - 1 /\ u.end = (IF s.depth = 1 THEN j + 1 ELSE 0) /\ Situated(t, u, j + 1)
      BY <1>1, <1>3, <2>2, <3>0, MeetsClosingBrace
    <3>2. j + 1 \in Starts(t)
      BY <2>2 DEF BetweenLexemes
    <3>3. PICK p \in Nat, q \in Nat : p = CountTo(t, "{", j) /\ q = CountTo(t, "}", j)
      BY CountsNext
    <3>4. CountTo(t, "{", j + 1) = p
      <4>1. t[j + 1] # "{"
        BY <2>2
      <4>2. QED
        BY <3>3, <4>1, CountsNext
    <3>5. CountTo(t, "}", j + 1) = q + 1
      BY <2>2, <3>2, <3>3, CountsNext
    <3>6. s.depth = p - q
      BY <2>1, <3>3 DEF BracesCounted
    <3>7. BracesCounted(t, u, j + 1)
      <4>1. u.depth = p - (q + 1)
        BY ONLY <3>1, <3>6, p \in Nat, q \in Nat
      <4>2. QED
        BY <3>4, <3>5, <4>1 DEF BracesCounted
    <3>8. j + 1 \in Closing(t) <=> s.depth = 1
      <4>1. p = q + 1 <=> p - q = 1
        OBVIOUS
      <4>2. QED
        BY <2>2, <3>2, <3>4, <3>5, <3>6, <4>1 DEF Closing
    <3>9. \A c \in Closing(t) : j + 1 <= c
      <4>1. \A c \in Closing(t) : c \in Nat
        BY ClosingPlaces
      <4>2. QED
        BY <2>1, <4>1
    <3>10. CASE s.depth = 1
      BY <1>1, <3>1, <3>8, <3>9, <3>10 DEF Scanned
    <3>11. CASE s.depth # 1
      <4>1. \A c \in Closing(t) : j + 1 < c
        <5>1. ASSUME NEW c \in Closing(t) PROVE j + 1 < c
          <6>1. c \in Nat
            BY ClosingPlaces
          <6>2. c # j + 1
            BY <3>8, <3>11
          <6>3. j < c
            BY <2>1
          <6>4. QED
            BY <6>1, <6>2, <6>3
        <5>2. QED
          BY <5>1
      <4>2. QED
        <5>1. u.depth # 0
          BY ONLY <2>10, <3>0, <3>1, <3>11
        <5>2. QED
          BY <1>1, <3>1, <3>7, <3>11, <4>1, <5>1 DEF Scanned
    <3>12. QED
      BY <3>10, <3>11
  <2>3. CASE BetweenLexemes(t, s, j) /\ t[j + 1] = "{"
    <3>1. u.depth = s.depth + 1 /\ u.end = 0 /\ Situated(t, u, j + 1)
      BY <1>1, <1>3, <2>3, EntersLexeme
    <3>2. j + 1 \in Starts(t)
      BY <2>3 DEF BetweenLexemes
    <3>3. PICK p \in Nat, q \in Nat : p = CountTo(t, "{", j) /\ q = CountTo(t, "}", j)
      BY CountsNext
    <3>4. CountTo(t, "{", j + 1) = p + 1
      BY <2>3, <3>2, <3>3, CountsNext
    <3>5. CountTo(t, "}", j + 1) = q
      <4>1. t[j + 1] # "}"
        BY <2>3
      <4>2. QED
        BY <3>3, <4>1, CountsNext
    <3>6. BracesCounted(t, u, j + 1)
      <4>1. s.depth = p - q
        BY <2>1, <3>3 DEF BracesCounted
      <4>2. u.depth = (p + 1) - q
        BY ONLY <3>1, <4>1, p \in Nat, q \in Nat
      <4>3. QED
        BY <3>4, <3>5, <4>2 DEF BracesCounted
    <3>7. ASSUME NEW c \in Closing(t) PROVE j + 1 < c
      <4>1. c \in Nat /\ t[c] = "}"
        BY ClosingPlaces
      <4>2. c # j + 1
        BY <2>3, <4>1
      <4>3. j < c
        BY <2>1
      <4>4. c \in Nat
        BY <4>1
      <4>5. QED
        BY ONLY <4>2, <4>3, <4>4, j \in Nat
    <3>8. u.depth # 0
      BY ONLY <2>10, <3>1
    <3>9. QED
      BY <1>1, <3>1, <3>6, <3>7, <3>8 DEF Scanned
  <2>4. CASE BetweenLexemes(t, s, j) /\ t[j + 1] \notin {"{", "}"}
    <3>1. u.depth = s.depth + 0 /\ u.end = 0 /\ Situated(t, u, j + 1)
      BY <1>1, <1>3, <2>4, EntersLexeme
    <3>2. u.depth = s.depth
      BY <3>1 DEF ScanStates
    <3>3. BracesCounted(t, u, j + 1) /\ \A c \in Closing(t) : j + 1 < c
      BY <2>1, <2>4, <3>2, NoBraceThere
    <3>4. u.depth # 0
      BY <2>4, <2>10, <2>11, <3>2
    <3>5. QED
      BY <1>1, <3>1, <3>3, <3>4 DEF Scanned
  <2>5. ASSUME NEW i \in Starts(t), InsideLexeme(t, s, i, j) PROVE Scanned(t, u, j + 1)
    <3>1. j + 1 \notin Starts(t) /\ u.depth = s.depth /\ u.end = 0 /\ Situated(t, u, j + 1)
      BY <1>1, <1>3, <2>5, GoesOnInLine, GoesOnInBlock, GoesOnInQuote DEF InsideLexeme
    <3>2. BracesCounted(t, u, j + 1) /\ \A c \in Closing(t) : j + 1 < c
      BY <2>1, <3>1, NoBraceThere
    <3>3. j # 0
      <4>1. i \in 1..Len(t) /\ i <= j
        BY <2>5, StartsBound DEF InsideLexeme
      <4>2. QED
        BY ONLY <4>1, j \in Nat
    <3>4. u.depth # 0
      BY <2>10, <3>1, <3>3
    <3>5. QED
      BY <3>1, <3>2, <3>4 DEF Scanned
  <2>6. QED
    BY <1>1, <2>1, <2>2, <2>3, <2>4, <2>5 DEF Situated
<1>4. QED
  BY <1>2, <1>3

LEMMA StartsScanned ==
  ASSUME NEW t \in Seq(Characters)
  PROVE  Scanned(t, ScanStart, 0)
<1>1. BracesCounted(t, ScanStart, 0)
  <2>1. 0 \in Nat
    OBVIOUS
  <2>2. CountTo(t, "{", 0) = 0 /\ CountTo(t, "}", 0) = 0
    BY <2>1, CountsNext
  <2>3. ScanStart.depth = 0 - 0
    BY DEF ScanStart
  <2>4. QED
    BY <2>2, <2>3 DEF BracesCounted
<1>2. BetweenLexemes(t, ScanStart, 0)
  BY StartsBound DEF BetweenLexemes, ScanStart
<1>3. \A c \in Closing(t) : 0 < c
  BY ClosingPlaces
<1>4. QED
  BY <1>1, <1>2, <1>3 DEF Scanned, Situated, ScanStart

(* match_brace finds the first brace that closes the block.                *)
LEMMA BraceFound ==
  ASSUME NEW t \in Seq(Characters), Opens(t), NoShortComment(t)
  PROVE  /\ MatchBrace(t) = 0 <=> Closing(t) = {}
         /\ MatchBrace(t) # 0 => MatchBrace(t) \in Closing(t) /\ \A c \in Closing(t) : MatchBrace(t) <= c
<1>1. PICK n \in Nat : n = Len(t)
  OBVIOUS
<1>2. PICK run : Runs(run, t) /\ MatchBrace(t) = run[n].end
  BY <1>1, ScannerRuns
<1>3. /\ \A j \in 0..n : run[j] \in ScanStates
      /\ run[0] = ScanStart
      /\ \A j \in 1..n : run[j] = ReadChar(run[j - 1], t, j)
  BY <1>1, <1>2 DEF Runs
<1> DEFINE T == {j \in Nat : j <= n => Scanned(t, run[j], j)}
<1>4. T \subseteq Nat /\ 0 \in T
  BY <1>3, StartsScanned
<1>5. ASSUME NEW j \in T PROVE j + 1 \in T
  <2>1. SUFFICES ASSUME j + 1 <= n PROVE Scanned(t, run[j + 1], j + 1)
    OBVIOUS
  <2>2. j \in Nat /\ j < n /\ j \in 0..n /\ j + 1 \in 1..n /\ (j + 1) - 1 = j
    BY <2>1
  <2>3. run[j + 1] = ReadChar(run[j], t, j + 1) /\ run[j] \in ScanStates
    BY <1>3, <2>2
  <2>4. Scanned(t, run[j], j)
    BY <2>2
  <2>5. QED
    BY <1>1, <2>2, <2>3, <2>4, ScansOn
<1> HIDE DEF T
<1>6. T = Nat
  BY <1>4, <1>5, AllNumbers
<1>7. PICK s : s = run[n] /\ Scanned(t, s, n)
  <2>1. n \in T
    BY <1>6
  <2>2. QED
    BY <2>1 DEF T
<1>8. CASE s.end = 0
  <2>1. \A c \in Closing(t) : n < c /\ c \in Nat /\ c <= n
    BY <1>1, <1>7, <1>8, ClosingPlaces DEF Scanned
  <2>2. Closing(t) = {}
    BY <2>1
  <2>3. QED
    BY <1>2, <1>7, <1>8, <2>2
<1>9. CASE s.end # 0
  BY <1>2, <1>7, <1>9 DEF Scanned
<1>10. QED
  BY <1>8, <1>9

LEMMA ShiftedPlaces ==
  ASSUME NEW n \in Nat, NEW P \in SUBSET (1..n), NEW Q, \A k \in P : k + 1 \in Q, \A q \in Q : \E k \in P : q = k + 1
  PROVE  IsFiniteSet(P) /\ Cardinality(P) \in Nat /\ IsFiniteSet(Q) /\ Cardinality(Q) = Cardinality(P)
<1>1. IsFiniteSet(1..n)
  BY FS_Interval
<1>2. IsFiniteSet(P)
  BY <1>1, FS_Subset
<1>3. PICK f : f = [k \in P |-> k + 1]
  OBVIOUS
<1>4. f \in Surjection(P, Q)
  <2>1. f \in [P -> Q]
    BY <1>3
  <2>2. \A q \in Q : \E k \in P : f[k] = q
    BY <1>3
  <2>3. QED
    BY ONLY <2>1, <2>2 DEF Surjection
<1>5. f \in Injection(P, Q)
  <2>1. f \in [P -> Q]
    BY <1>3
  <2>2. ASSUME NEW a \in P, NEW b \in P, f[a] = f[b] PROVE a = b
    <3>1. a \in Nat /\ b \in Nat /\ a + 1 = b + 1
      BY <1>3, <2>2
    <3>2. QED
      BY ONLY <3>1
  <2>3. QED
    BY <2>1, <2>2 DEF Injection, IsInjective
<1>6. QED
  <2>1. Cardinality(P) \in Nat
    BY <1>2, FS_CardinalityType
  <2>2. IsFiniteSet(Q) /\ (Cardinality(Q) = Cardinality(P) <=> f \in Injection(P, Q))
    BY ONLY <1>2, <1>4, FS_Surjection
  <2>3. QED
    BY <1>2, <1>5, <2>1, <2>2

OccursIn(s, c) == Cardinality({k \in DOMAIN s : s[k] = c})

LEMMA PlacesAfter ==
  ASSUME NEW W, NEW s \in Seq(W), NEW x \in W, NEW c
  PROVE  /\ OccursIn(s, c) \in Nat /\ OccursIn(<<>>, c) = 0
         /\ x = c => OccursIn(<<x>> \o s, c) = OccursIn(s, c) + 1
         /\ x # c => OccursIn(<<x>> \o s, c) = OccursIn(s, c)
<1>1. PICK n \in Nat : n = Len(s) /\ DOMAIN s = 1..n
  OBVIOUS
<1>2. PICK y : y = <<x>> \o s /\ DOMAIN y = 1..(n + 1) /\ y[1] = x /\ \A k \in 1..n : y[k + 1] = s[k]
  <2>1. <<x>> \in Seq(W) /\ Len(<<x>>) = 1 /\ <<x>>[1] = x
    OBVIOUS
  <2>2. PICK y : y = <<x>> \o s
    OBVIOUS
  <2>3. /\ y \in Seq(W) /\ Len(y) = 1 + n
        /\ \A i \in 1..(1 + n) : y[i] = IF i <= 1 THEN <<x>>[i] ELSE s[i - 1]
    BY <1>1, <2>1, <2>2, ConcatProperties
  <2>4. DOMAIN y = 1..(n + 1)
    <3>1. DOMAIN y = 1..Len(y) /\ 1 + n = n + 1
      BY <1>1, <2>3, LenProperties
    <3>2. QED
      BY <2>3, <3>1
  <2>5. y[1] = x
    BY <2>1, <2>3
  <2>6. ASSUME NEW k \in 1..n PROVE y[k + 1] = s[k]
    <3>1. k + 1 \in 1..(1 + n) /\ ~(k + 1 <= 1) /\ (k + 1) - 1 = k
      OBVIOUS
    <3>2. QED
      BY <2>3, <3>1
  <2>7. QED
    BY <2>2, <2>4, <2>5, <2>6
<1>3. PICK P : P = {k \in 1..n : s[k] = c}
  OBVIOUS
<1>4. PICK Q : Q = {k \in 2..(n + 1) : y[k] = c}
  OBVIOUS
<1>5. \A k \in P : k + 1 \in Q
  <2>1. ASSUME NEW k \in P PROVE k + 1 \in Q
    <3>1. k \in 1..n /\ s[k] = c
      BY <1>3
    <3>2. k + 1 \in 2..(n + 1)
      BY ONLY <3>1, n \in Nat
    <3>3. y[k + 1] = c
      BY <1>2, <3>1
    <3>4. QED
      BY <1>4, <3>2, <3>3
  <2>2. QED
    BY <2>1
<1>6. \A q \in Q : \E k \in P : q = k + 1
  <2>1. ASSUME NEW q \in Q PROVE \E k \in P : q = k + 1
    <3>1. q \in 2..(n + 1) /\ y[q] = c
      BY <1>4
    <3>2. PICK k \in 1..n : q = k + 1
      <4>1. q - 1 \in 1..n /\ q = (q - 1) + 1
        BY ONLY <3>1, n \in Nat
      <4>2. QED
        BY <4>1
    <3>3. s[k] = c
      BY <1>2, <3>1, <3>2
    <3>4. QED
      BY <1>3, <3>2, <3>3
  <2>2. QED
    BY <2>1
<1>7. IsFiniteSet(P) /\ Cardinality(P) \in Nat /\ IsFiniteSet(Q) /\ Cardinality(Q) = Cardinality(P)
  <2>1. P \in SUBSET (1..n)
    BY <1>3
  <2>2. QED
    BY ONLY <1>5, <1>6, <2>1, n \in Nat, ShiftedPlaces
<1>8. OccursIn(s, c) = Cardinality(P)
  BY <1>1, <1>3 DEF OccursIn
<1>9. OccursIn(<<>>, c) = 0
  <2>1. {k \in DOMAIN <<>> : <<>>[k] = c} = {}
    OBVIOUS
  <2>2. QED
    BY <2>1, FS_EmptySet DEF OccursIn
<1>10. OccursIn(y, c) = Cardinality({k \in 1..(n + 1) : y[k] = c})
  BY <1>2 DEF OccursIn
<1>11. \A k \in 1..(n + 1) : k = 1 \/ k \in 2..(n + 1)
  BY ONLY n \in Nat
<1>12. 1 \in 1..(n + 1) /\ 1 \notin 2..(n + 1) /\ \A k \in 2..(n + 1) : k \in 1..(n + 1)
  BY ONLY n \in Nat
<1>13. CASE x = c
  <2>1. {k \in 1..(n + 1) : y[k] = c} = Q \cup {1}
    BY ONLY <1>2, <1>4, <1>11, <1>12, <1>13
  <2>2. Cardinality(Q \cup {1}) = Cardinality(Q) + 1
    BY <1>4, <1>7, <1>12, FS_AddElement
  <2>3. QED
    BY <1>2, <1>7, <1>8, <1>9, <1>10, <1>13, <2>1, <2>2
<1>14. CASE x # c
  <2>1. {k \in 1..(n + 1) : y[k] = c} = Q
    BY ONLY <1>2, <1>4, <1>11, <1>12, <1>14
  <2>2. QED
    BY <1>2, <1>7, <1>8, <1>9, <1>10, <1>14, <2>1
<1>15. QED
  BY <1>13, <1>14

(* normalize_tokens reads on from each place.                              *)
Words == Characters \cup {"ID", "LIT"}
TokensAt(tokens, t, i) ==
  IF i > Len(t) THEN <<>>
  ELSE CASE t[i] = Letter /\ CharAt(t, i - 1) = Letter /\ i > 1 -> tokens[i + 1]
         [] t[i] = Letter /\ ~(CharAt(t, i - 1) = Letter /\ i > 1) -> <<"ID">> \o tokens[i + 1]
         [] t[i] \in Quotes -> IF LiteralEnd(t, i) = 0 THEN tokens[i + 1]
                               ELSE <<"LIT">> \o tokens[LiteralEnd(t, i) + 1]
         [] t[i] \in {Newline, Backslash} -> tokens[i + 1]
         [] OTHER -> <<t[i]>> \o tokens[i + 1]

LEMMA LiteralEnds ==
  ASSUME NEW t \in Seq(Characters), NEW i \in 1..Len(t)
  PROVE  /\ LiteralEnd(t, i) = 0 \/ LiteralEnd(t, i) \in (i + 1)..Len(t)
         /\ QuoteEnds(t, i) # {} => LiteralEnd(t, i) = Min(QuoteEnds(t, i))
<1>1. PICK n \in Nat : n = Len(t)
  OBVIOUS
<1>2. PICK quotes : quotes = {j \in (i + 1)..Len(t) : t[j] = t[i]}
  OBVIOUS
<1>3. PICK plain : plain = {j \in quotes : ~Escaped(t, i, j)}
  OBVIOUS
<1>4. plain = QuoteEnds(t, i)
  BY <1>2, <1>3 DEF QuoteEnds
<1>5. LiteralEnd(t, i) = IF plain # {} THEN Min(plain) ELSE IF quotes # {} THEN Max(quotes) ELSE 0
  BY <1>2, <1>3 DEF LiteralEnd
<1>6. quotes \subseteq (i + 1)..n /\ plain \subseteq quotes
  BY <1>1, <1>2, <1>3
<1>7. i \in Nat
  BY <1>1
<1>8. quotes \in SUBSET (0..n)
  <2>1. \A q \in (i + 1)..n : q \in 0..n
    BY ONLY <1>7, n \in Nat
  <2>2. QED
    BY <1>6, <2>1
<1>9. plain \in SUBSET Nat
  <2>1. \A q \in 0..n : q \in Nat
    BY ONLY n \in Nat
  <2>2. QED
    BY <1>6, <1>8, <2>1
<1>10. CASE plain # {}
  <2>1. Min(plain) \in plain
    BY <1>9, <1>10, LeastIs
  <2>2. QED
    BY <1>1, <1>4, <1>5, <1>6, <1>10, <2>1
<1>11. CASE plain = {} /\ quotes # {}
  <2>1. Max(quotes) \in quotes
    BY <1>8, <1>11, MaxOf
  <2>2. QED
    BY <1>1, <1>4, <1>5, <1>6, <1>11, <2>1
<1>12. CASE plain = {} /\ quotes = {}
  BY <1>4, <1>5, <1>12
<1>13. QED
  BY <1>10, <1>11, <1>12

LEMMA TokensType ==
  ASSUME NEW t \in Seq(Characters), NEW i \in 1..(Len(t) + 1), NEW g, \A k \in 1..(Len(t) + 1) : k > i => g[k] \in Seq(Words)
  PROVE  TokensAt(g, t, i) \in Seq(Words)
<1>1. PICK n \in Nat : n = Len(t)
  OBVIOUS
<1>2. <<>> \in Seq(Words)
  OBVIOUS
<1>3. CASE i > n
  BY <1>1, <1>2, <1>3 DEF TokensAt
<1>4. CASE i <= n
  <2>1. i \in 1..n /\ i + 1 \in 1..(n + 1) /\ i + 1 > i /\ ~(i > n)
    BY ONLY <1>1, <1>4, i \in 1..(Len(t) + 1), n \in Nat
  <2>2. PICK r : r = g[i + 1] /\ r \in Seq(Words)
    BY <1>1, <2>1
  <2>3. t[i] \in Characters /\ t[i] \in Words
    BY <1>1, <2>1 DEF Words
  <2>4. \A x \in Words : <<x>> \o r \in Seq(Words)
    BY <2>2, ConcatProperties
  <2>5. LiteralEnd(t, i) # 0 => <<"LIT">> \o g[LiteralEnd(t, i) + 1] \in Seq(Words)
    <3>1. SUFFICES ASSUME LiteralEnd(t, i) # 0 PROVE <<"LIT">> \o g[LiteralEnd(t, i) + 1] \in Seq(Words)
      OBVIOUS
    <3>2. PICK l : l = LiteralEnd(t, i) /\ l \in (i + 1)..n
      BY <1>1, <2>1, <3>1, LiteralEnds
    <3>3. l + 1 \in 1..(n + 1) /\ l + 1 > i
      BY ONLY <2>1, <3>2, n \in Nat
    <3>4. g[l + 1] \in Seq(Words)
      BY <1>1, <3>3
    <3>5. <<"LIT">> \in Seq(Words)
      BY DEF Words
    <3>6. QED
      BY <3>2, <3>4, <3>5, ConcatProperties
  <2>6. "ID" \in Words
    BY DEF Words
  <2>7. <<"ID">> \o r \in Seq(Words) /\ <<t[i]>> \o r \in Seq(Words)
    BY ONLY <2>3, <2>4, <2>6
  <2>8. \/ TokensAt(g, t, i) \in {r, <<"ID">> \o r, <<t[i]>> \o r}
        \/ LiteralEnd(t, i) # 0 /\ TokensAt(g, t, i) = <<"LIT">> \o g[LiteralEnd(t, i) + 1]
    <3>1. CASE t[i] = Letter
      <4>1. t[i] \notin Quotes /\ t[i] \notin {Newline, Backslash}
        BY <3>1, MarksApart DEF Marks
      <4>2. QED
        BY ONLY <1>1, <2>1, <2>2, <3>1, <4>1 DEF TokensAt
    <3>2. CASE t[i] \in Quotes
      <4>1. t[i] # Letter /\ t[i] \notin {Newline, Backslash}
        BY <3>2, MarksApart DEF Marks
      <4>2. TokensAt(g, t, i) = IF LiteralEnd(t, i) = 0 THEN g[i + 1] ELSE <<"LIT">> \o g[LiteralEnd(t, i) + 1]
        BY ONLY <1>1, <2>1, <3>2, <4>1 DEF TokensAt
      <4>3. QED
        BY ONLY <2>2, <4>2
    <3>3. CASE t[i] \in {Newline, Backslash}
      <4>1. t[i] # Letter /\ t[i] \notin Quotes
        BY <3>3, MarksApart DEF Marks
      <4>2. QED
        BY ONLY <1>1, <2>1, <2>2, <3>3, <4>1 DEF TokensAt
    <3>4. CASE t[i] # Letter /\ t[i] \notin Quotes /\ t[i] \notin {Newline, Backslash}
      BY ONLY <1>1, <2>1, <2>2, <3>4 DEF TokensAt
    <3>5. QED
      BY <3>1, <3>2, <3>3, <3>4
  <2>9. QED
    BY <2>2, <2>5, <2>7, <2>8
<1>5. QED
  BY <1>1, <1>3, <1>4

LEMMA TokensAgree ==
  ASSUME NEW t \in Seq(Characters), NEW i \in 1..(Len(t) + 1), NEW f, NEW g, \A k \in 1..(Len(t) + 1) : k > i => f[k] = g[k]
  PROVE  TokensAt(f, t, i) = TokensAt(g, t, i)
<1>1. PICK n \in Nat : n = Len(t)
  OBVIOUS
<1>2. CASE i > n
  BY <1>1, <1>2 DEF TokensAt
<1>3. CASE i <= n
  <2>1. i \in 1..n /\ i + 1 \in 1..(n + 1) /\ i + 1 > i
    BY ONLY <1>1, <1>3, i \in 1..(Len(t) + 1), n \in Nat
  <2>2. f[i + 1] = g[i + 1]
    BY <1>1, <2>1
  <2>3. LiteralEnd(t, i) # 0 => f[LiteralEnd(t, i) + 1] = g[LiteralEnd(t, i) + 1]
    <3>1. SUFFICES ASSUME LiteralEnd(t, i) # 0 PROVE f[LiteralEnd(t, i) + 1] = g[LiteralEnd(t, i) + 1]
      OBVIOUS
    <3>2. PICK l : l = LiteralEnd(t, i) /\ l \in (i + 1)..n
      BY <1>1, <2>1, <3>1, LiteralEnds
    <3>3. l + 1 \in 1..(n + 1) /\ l + 1 > i
      BY ONLY <2>1, <3>2, n \in Nat
    <3>4. QED
      BY <1>1, <3>2, <3>3
  <2>4. QED
    BY ONLY <2>2, <2>3 DEF TokensAt
<1>4. QED
  BY <1>1, <1>2, <1>3

LEMMA TokensAre ==
  ASSUME NEW t \in Seq(Characters)
  PROVE  \E f \in [1..(Len(t) + 1) -> Seq(Words)] :
           NormalizeTokens(t) = f[1] /\ \A i \in 1..(Len(t) + 1) : f[i] = TokensAt(f, t, i)
<1>1. PICK n \in Nat : n = Len(t)
  OBVIOUS
<1>2. PICK D : D = 1..(n + 1)
  OBVIOUS
<1>3. PICK V : V = Seq(Words)
  OBVIOUS
<1> DEFINE Body(g) == [i \in 1..(Len(t) + 1) |-> TokensAt(g, t, i)]
           tokens == CHOOSE g : g = Body(g)
<1>4. NormalizeTokens(t) = tokens[1]
  BY DEF NormalizeTokens, TokensAt
<1>5. PICK rank : rank = [i \in D |-> n + 1 - i]
  OBVIOUS
<1>6. PICK bound \in Nat : bound = n + 2
  OBVIOUS
<1>7. RanksBelow(rank, D, bound)
  BY <1>2, <1>5, <1>6 DEF RanksBelow
<1>8. PICK on : on = [g \in [D -> V] |-> Body(g)]
  OBVIOUS
<1>9. ASSUME NEW g \in [D -> V], NEW i \in D PROVE TokensAt(g, t, i) \in V
  BY <1>1, <1>2, <1>3, TokensType
<1>10. ASSUME NEW f \in [D -> V], NEW g \in [D -> V], NEW i \in D, \A y \in D : rank[y] < rank[i] => f[y] = g[y]
       PROVE  TokensAt(f, t, i) = TokensAt(g, t, i)
  <2>1. \A k \in D : k > i => rank[k] < rank[i]
    BY <1>2, <1>5
  <2>2. \A k \in 1..(Len(t) + 1) : k > i => f[k] = g[k]
    BY <1>1, <1>2, <1>10, <2>1
  <2>3. QED
    BY <1>1, <1>2, <2>2, TokensAgree
<1>11. <<>> \in V
  BY <1>3
<1>12. on \in [[D -> V] -> [D -> V]] /\ \A g \in [D -> V] : \A i \in D : on[g][i] = TokensAt(g, t, i)
  BY <1>1, <1>2, <1>8, <1>9
<1>13. Grounded(on, D, V, rank)
  BY <1>10, <1>12 DEF Grounded
<1>14. PICK f \in [D -> V] : f = on[f]
  BY ONLY <1>7, bound \in Nat, <1>11, <1>13, RankedRecursion
<1>15. \E g : g = Body(g)
  BY <1>8, <1>14
<1>16. tokens = Body(tokens)
  <2> HIDE DEF Body
  <2>1. QED
    BY <1>15, Zenon
<1> HIDE DEF tokens
<1>17. \A i \in D : tokens[i] = TokensAt(tokens, t, i)
  BY <1>1, <1>2, <1>16
<1>18. tokens \in [D -> V]
  <2>1. DOMAIN tokens = D /\ tokens = [i \in D |-> tokens[i]]
    BY <1>1, <1>2, <1>16
  <2> DEFINE T == {k \in Nat : \A i \in D : n + 1 - i <= k => tokens[i] \in V}
  <2>2. T \subseteq Nat /\ 0 \in T
    <3>1. ASSUME NEW i \in D, n + 1 - i <= 0 PROVE tokens[i] \in V
      <4>1. i > n
        BY <1>2, <3>1
      <4>2. QED
        BY <1>1, <1>11, <1>17, <4>1 DEF TokensAt
    <3>2. QED
      BY <3>1
  <2>3. ASSUME NEW k \in T PROVE k + 1 \in T
    <3>1. ASSUME NEW i \in D, n + 1 - i <= k + 1 PROVE tokens[i] \in V
      <4>1. \A m \in D : m > i => n + 1 - m <= k
        BY <1>2, <3>1
      <4>2. \A m \in 1..(Len(t) + 1) : m > i => tokens[m] \in Seq(Words)
        BY <1>1, <1>2, <1>3, <4>1
      <4>3. TokensAt(tokens, t, i) \in Seq(Words)
        BY <1>1, <1>2, <4>2, TokensType
      <4>4. QED
        BY <1>3, <1>17, <4>3
    <3>2. QED
      BY <3>1
  <2> HIDE DEF T
  <2>4. T = Nat
    BY <2>2, <2>3, AllNumbers
  <2>5. \A i \in D : tokens[i] \in V
    <3>1. n + 1 \in T /\ \A i \in D : n + 1 - i <= n + 1
      BY <1>2, <2>4
    <3>2. QED
      BY <3>1 DEF T
  <2>6. QED
    BY <2>1, <2>5
<1>19. QED
  BY <1>1, <1>2, <1>3, <1>4, <1>17, <1>18

(* What the tokens gain at a character.                                    *)
LEMMA TokenGained ==
  ASSUME NEW t \in Seq(Characters), NEW f, NEW i \in 1..Len(t), f[i] = TokensAt(f, t, i), t[i] \notin Quotes
  PROVE  \/ t[i] \notin {"{", "}"} /\ f[i] = f[i + 1]
         \/ t[i] \notin {"{", "}"} /\ f[i] = <<"ID">> \o f[i + 1]
         \/ f[i] = <<t[i]>> \o f[i + 1]
<1>1. ~(i > Len(t))
  <2>1. Len(t) \in Nat
    OBVIOUS
  <2>2. QED
    BY ONLY <2>1, i \in 1..Len(t)
<1>2. CASE t[i] = Letter
  BY <1>1, <1>2, MarksApart DEF TokensAt, Marks
<1>3. CASE t[i] \in {Newline, Backslash}
  BY <1>1, <1>3, MarksApart DEF TokensAt, Marks, Newline, Backslash
<1>4. CASE t[i] # Letter /\ t[i] \notin {Newline, Backslash}
  BY <1>1, <1>4 DEF TokensAt
<1>5. QED
  BY <1>2, <1>3, <1>4

LEMMA LiteralGained ==
  ASSUME NEW t \in Seq(Characters), NEW f, NEW i \in 1..Len(t), f[i] = TokensAt(f, t, i), t[i] \in Quotes, QuoteEnds(t, i) # {}
  PROVE  f[i] = <<"LIT">> \o f[Min(QuoteEnds(t, i)) + 1]
<1>1. LiteralEnd(t, i) = Min(QuoteEnds(t, i))
  BY LiteralEnds
<1>2. LiteralEnd(t, i) # 0
  <2>1. QuoteEnds(t, i) \in SUBSET Nat /\ 0 \notin QuoteEnds(t, i)
    BY DEF QuoteEnds
  <2>2. Min(QuoteEnds(t, i)) \in QuoteEnds(t, i)
    BY <2>1, LeastIs
  <2>3. QED
    BY <1>1, <2>1, <2>2
<1>3. ~(i > Len(t))
  <2>1. Len(t) \in Nat
    OBVIOUS
  <2>2. QED
    BY ONLY <2>1, i \in 1..Len(t)
<1>4. QED
  BY <1>1, <1>2, <1>3, MarksApart DEF TokensAt, Marks

(* A literal of the text that ends before place e is one of the text cut    *)
(* off after e.                                                            *)
CutAt(p, t, e) == p \in Seq(Characters) /\ Len(p) = e /\ \A i \in 1..e : p[i] = t[i]

LEMMA SameEscapes ==
  ASSUME NEW t, NEW e \in Nat, NEW p, CutAt(p, t, e), NEW i \in 1..e, NEW j \in 1..e
  PROVE  Escaped(p, i, j) <=> Escaped(t, i, j)
<1>1. PICK A : A = {k \in (i + 1)..(j - 1) : \A m \in k..(j - 1) : t[m] = Backslash}
  OBVIOUS
<1>2. PICK B : B = {k \in (i + 1)..(j - 1) : \A m \in k..(j - 1) : p[m] = Backslash}
  OBVIOUS
<1>3. \A k \in (i + 1)..(j - 1) : \A m \in k..(j - 1) : m \in 1..e
  BY ONLY e \in Nat, i \in 1..e, j \in 1..e
<1>4. \A k \in (i + 1)..(j - 1) : \A m \in k..(j - 1) : p[m] = t[m]
  BY ONLY <1>3, CutAt(p, t, e) DEF CutAt
<1>5. A = B
  BY ONLY <1>1, <1>2, <1>4
<1>6. QED
  BY ONLY <1>1, <1>2, <1>5 DEF Escaped

LEMMA CutLexeme ==
  ASSUME NEW t \in Seq(Characters), Comments(t, "*") \cup Comments(t, "/") = {}, NEW e \in Closing(t),
         NEW p, CutAt(p, t, e), NEW i \in Starts(t), i <= e
  PROVE  /\ LexemeEnd(t, i) \in i..e /\ (LexemeEnd(t, i) < e => LexemeEnd(t, i) + 1 \in Starts(t))
         /\ t[i] \notin Quotes => LexemeEnd(t, i) = i
         /\ t[i] \in Quotes => QuoteEnds(p, i) # {} /\ Min(QuoteEnds(p, i)) = LexemeEnd(t, i)
<1>1. PICK n \in Nat : n = Len(t)
  OBVIOUS
<1>2. e \in Nat /\ e <= n /\ e \in Starts(t) /\ t[e] = "}"
  BY <1>1, ClosingPlaces DEF Closing
<1>3. i \in 1..n /\ i \in 1..e
  <2>1. i \in 1..n
    BY <1>1, StartsBound
  <2>2. e \in Nat
    BY <1>2
  <2>3. QED
    BY ONLY <2>1, <2>2, i <= e, n \in Nat
<1>4. ~LineAt(t, i) /\ ~BlockAt(t, i)
  BY DEF Comments, LineAt, BlockAt
<1>5. PICK l \in i..n : l = LexemeEnd(t, i)
  BY <1>1, <1>3, LexemeEndIs
<1>6. t[i] \notin Quotes => l = i
  BY <1>1, <1>3, <1>4, <1>5, LexemeEndIs DEF PlainAt, QuoteAt
<1>7. i < e => l < e
  BY <1>2, <1>5, StartsBound
<1>8. i = e => l = i
  BY <1>2, <1>6, MarksApart DEF Marks
<1>9. l \in i..e
  <2>1. e \in Nat
    BY <1>2
  <2>2. QED
    BY ONLY <1>3, <1>5, <1>7, <1>8, <2>1, i <= e, n \in Nat
<1>10. l < e => l + 1 \in Starts(t)
  <2>1. l < e => l < n
    <3>1. e \in Nat /\ e <= n
      BY <1>2
    <3>2. QED
      BY ONLY <1>5, <3>1, <1>3, n \in Nat
  <2>2. QED
    BY <1>1, <1>5, <2>1, StartsBound
<1>11. ASSUME t[i] \in Quotes PROVE QuoteEnds(p, i) # {} /\ Min(QuoteEnds(p, i)) = l
  <2>1. i < e /\ l < e
    <3>1. i # e
      BY <1>2, <1>11, MarksApart DEF Marks
    <3>2. e \in Nat
      BY <1>2
    <3>3. i < e
      BY ONLY <1>3, <3>1, <3>2, i <= e
    <3>4. QED
      BY <1>7, <3>3
  <2>2. EndsAt(l, n, QuoteEnds(t, i))
    BY <1>1, <1>3, <1>5, <1>11, LexemeEndIs DEF QuoteAt
  <2>3. l # n
    <3>1. e \in Nat /\ e <= n /\ l < e
      BY <1>2, <2>1
    <3>2. QED
      BY ONLY <1>5, <1>3, <3>1, n \in Nat
  <2>4. l \in QuoteEnds(t, i) /\ \A x \in QuoteEnds(t, i) : l <= x
    BY <2>2, <2>3 DEF EndsAt
  <2>5. PICK Q : Q = QuoteEnds(p, i)
    OBVIOUS
  <2>6. Len(p) = e /\ \A x \in 1..e : p[x] = t[x]
    BY DEF CutAt
  <2>7. \A x \in (i + 1)..e : x \in 1..e /\ x \in (i + 1)..n
    <3>1. e \in Nat /\ e <= n
      BY <1>2
    <3>2. QED
      BY ONLY <1>3, <3>1, n \in Nat
  <2>8. ASSUME NEW x \in (i + 1)..e PROVE x \in Q <=> x \in QuoteEnds(t, i)
    <3>1. x \in 1..e /\ x \in (i + 1)..n
      BY <2>7
    <3>2. p[x] = t[x] /\ p[i] = t[i]
      BY <1>3, <2>6, <3>1
    <3>3. Escaped(p, i, x) <=> Escaped(t, i, x)
      BY <1>2, <1>3, <3>1, SameEscapes
    <3>4. x \in Q <=> p[x] = p[i] /\ ~Escaped(p, i, x)
      BY <2>5, <2>6 DEF QuoteEnds
    <3>5. x \in QuoteEnds(t, i) <=> t[x] = t[i] /\ ~Escaped(t, i, x)
      BY <1>1, <3>1 DEF QuoteEnds
    <3>6. QED
      BY <3>2, <3>3, <3>4, <3>5
  <2>9. l \in (i + 1)..e
    <3>1. l \in (i + 1)..n
      BY <1>1, <2>4 DEF QuoteEnds
    <3>2. e \in Nat
      BY <1>2
    <3>3. QED
      BY ONLY <1>3, <2>1, <3>1, <3>2, n \in Nat
  <2>10. l \in Q
    BY <2>4, <2>8, <2>9
  <2>11. Q \subseteq (i + 1)..e
    BY <2>5, <2>6 DEF QuoteEnds
  <2>12. \A x \in Q : l <= x
    BY <2>4, <2>8, <2>11
  <2>13. Q \in SUBSET Nat
    <3>1. \A x \in (i + 1)..e : x \in Nat
      <4>1. e \in Nat
        BY <1>2
      <4>2. QED
        BY ONLY <1>3, <4>1
    <3>2. QED
      BY <2>11, <3>1
  <2>14. PICK m : m = Min(Q) /\ m \in Q /\ m <= l
    BY <2>10, <2>13, LeastIs
  <2>15. m = l
    <3>1. m \in Nat /\ l \in Nat /\ l <= m
      BY <2>10, <2>12, <2>13, <2>14
    <3>2. QED
      BY ONLY <2>14, <3>1
  <2>16. QED
    BY <2>5, <2>10, <2>14, <2>15
<1>12. QED
  BY <1>5, <1>6, <1>9, <1>10, <1>11

(* No lexeme starts inside of another: none of its characters is counted.   *)
LEMMA CountSkips ==
  ASSUME NEW t \in Seq(Characters), NEW i \in Starts(t), NEW c
  PROVE  CountTo(t, c, LexemeEnd(t, i)) = CountTo(t, c, i)
<1>1. PICK n \in Nat : n = Len(t)
  OBVIOUS
<1>2. i \in 1..n /\ Starts(t) \subseteq 1..n
  BY <1>1, StartsBound
<1>3. PICK l \in i..n : l = LexemeEnd(t, i)
  BY <1>1, <1>2, LexemeEndIs
<1>4. ASSUME NEW x \in Starts(t) PROVE x <= l <=> x <= i
  <2>1. i < x => l < x
    BY <1>3, StartsBound
  <2>2. x \in 1..n
    BY <1>2
  <2>3. QED
    BY ONLY <1>2, <1>3, <2>1, <2>2, n \in Nat
<1>5. {x \in Starts(t) : x <= l /\ t[x] = c} = {x \in Starts(t) : x <= i /\ t[x] = c}
  BY <1>4
<1>6. QED
  BY <1>3, <1>5 DEF CountTo

Brace(c) == c \in {"{", "}"}

(* The first token of a lexeme of the block, r being the tokens after it, is  *)
(* a brace c when the lexeme is.                                           *)
TokenFor(f, t, e, p, i, r) == i \in Starts(t) /\ i <= e /\ f[i] = TokensAt(f, p, i) /\ r = f[LexemeEnd(t, i) + 1]
Gains(s, r, c, isC) ==
  /\ isC => OccursIn(s, c) = OccursIn(r, c) + 1
  /\ ~isC => OccursIn(s, c) = OccursIn(r, c)

LEMMA TokenOfLexeme ==
  ASSUME NEW t \in Seq(Characters), Comments(t, "*") \cup Comments(t, "/") = {}, NEW e \in Closing(t),
         NEW p, CutAt(p, t, e), NEW c, Brace(c), NEW f, NEW i, NEW r \in Seq(Words), TokenFor(f, t, e, p, i, r)
  PROVE  Gains(f[i], r, c, t[i] = c)
<1>0. i \in Starts(t) /\ i <= e /\ f[i] = TokensAt(f, p, i) /\ r = f[LexemeEnd(t, i) + 1]
  BY DEF TokenFor
<1>1. PICK l : l = LexemeEnd(t, i)
  OBVIOUS
<1>2. /\ l \in i..e
      /\ t[i] \notin Quotes => l = i
      /\ t[i] \in Quotes => QuoteEnds(p, i) # {} /\ Min(QuoteEnds(p, i)) = l
  BY <1>0, <1>1, CutLexeme
<1>3. p \in Seq(Characters) /\ Len(p) = e /\ \A x \in 1..e : p[x] = t[x]
  BY DEF CutAt
<1>4. e \in Nat /\ i \in 1..e
  <2>1. e \in Nat
    BY ClosingPlaces
  <2>2. Len(t) \in Nat
    OBVIOUS
  <2>3. i \in 1..Len(t)
    BY <1>0, StartsBound
  <2>4. QED
    BY ONLY <1>0, <2>1, <2>2, <2>3
<1>5. r = f[l + 1] /\ r \in Seq(Words)
  BY <1>0, <1>1
<1>6. p[i] = t[i] /\ p[i] \in Words
  BY <1>3, <1>4 DEF Words
<1>61. i \in 1..Len(p)
  BY ONLY <1>3, <1>4
<1>62. f[i] = TokensAt(f, p, i)
  BY <1>0
<1>7. "ID" \in Words /\ "LIT" \in Words /\ "ID" # c /\ "LIT" # c
  BY DEF Words, Brace
<1>8. CASE t[i] \in Quotes
  <2>1. f[i] = <<"LIT">> \o r
    <3>1. p[i] \in Quotes
      BY <1>6, <1>8
    <3>2. p \in Seq(Characters)
      BY <1>3
    <3>3. QuoteEnds(p, i) # {} /\ Min(QuoteEnds(p, i)) = l
      BY <1>2, <1>8
    <3>4. f[i] = <<"LIT">> \o f[Min(QuoteEnds(p, i)) + 1]
      BY ONLY <1>61, <1>62, <3>1, <3>2, <3>3, LiteralGained
    <3>5. QED
      BY ONLY <1>5, <3>3, <3>4
  <2>2. t[i] # c
    BY <1>8, MarksApart DEF Marks, Brace
  <2>3. OccursIn(f[i], c) = OccursIn(r, c)
    BY <1>5, <1>7, <2>1, PlacesAfter
  <2>4. QED
    BY <2>2, <2>3 DEF Gains
<1>9. CASE t[i] \notin Quotes
  <2>1. r = f[i + 1]
    BY <1>2, <1>5, <1>9
  <2>2. \/ p[i] \notin {"{", "}"} /\ f[i] = r
        \/ p[i] \notin {"{", "}"} /\ f[i] = <<"ID">> \o r
        \/ f[i] = <<p[i]>> \o r
    <3>1. p[i] \notin Quotes
      BY <1>6, <1>9
    <3>2. p \in Seq(Characters)
      BY <1>3
    <3>3. \/ p[i] \notin {"{", "}"} /\ f[i] = f[i + 1]
          \/ p[i] \notin {"{", "}"} /\ f[i] = <<"ID">> \o f[i + 1]
          \/ f[i] = <<p[i]>> \o f[i + 1]
      BY ONLY <1>61, <1>62, <3>1, <3>2, TokenGained
    <3>4. QED
      BY ONLY <2>1, <3>3
  <2>3. CASE t[i] = c
    <3>1. f[i] = <<c>> \o r /\ c \in Words
      BY <1>6, <2>2, <2>3 DEF Brace
    <3>2. OccursIn(<<c>> \o r, c) = OccursIn(r, c) + 1
      BY <1>5, <3>1, PlacesAfter
    <3>3. QED
      BY <2>3, <3>1, <3>2 DEF Gains
  <2>4. CASE t[i] # c
    <3>1. OccursIn(<<"ID">> \o r, c) = OccursIn(r, c)
      BY <1>5, <1>7, PlacesAfter
    <3>2. OccursIn(<<p[i]>> \o r, c) = OccursIn(r, c)
      BY <1>5, <1>6, <2>4, PlacesAfter
    <3>3. QED
      BY <2>2, <2>4, <3>1, <3>2 DEF Gains
  <2>5. QED
    BY <2>3, <2>4
<1>10. QED
  BY <1>8, <1>9

LEMMA TokensCounted ==
  ASSUME NEW t \in Seq(Characters), Comments(t, "*") \cup Comments(t, "/") = {}, NEW e \in Closing(t),
         NEW p, CutAt(p, t, e), NEW c, Brace(c)
  PROVE  Tokens(p, c) = CountTo(t, c, e)
<1>1. e \in Nat /\ 0 < e /\ e <= Len(t)
  BY ClosingPlaces
<1>2. p \in Seq(Characters) /\ Len(p) = e
  BY DEF CutAt
<1>3. PICK f \in [1..(e + 1) -> Seq(Words)] :
        NormalizeTokens(p) = f[1] /\ \A i \in 1..(e + 1) : f[i] = TokensAt(f, p, i)
  BY <1>2, TokensAre
<1>4. Tokens(p, c) = OccursIn(f[1], c)
  BY <1>3 DEF Tokens, OccursIn
<1>5. Starts(t) \subseteq 1..Len(t) /\ 1 \in Starts(t)
  <2>1. Len(t) > 0
    <3>1. Len(t) \in Nat
      OBVIOUS
    <3>2. QED
      BY ONLY <1>1, <3>1
  <2>2. QED
    BY <2>1, StartsBound
<1> DEFINE Balanced(i) == CountTo(t, c, i - 1) + OccursIn(f[i], c) = CountTo(t, c, e)
           T == {k \in Nat : \A i \in 1..(e + 1) : (i \in Starts(t) \/ i = e + 1) /\ e + 1 - i <= k => Balanced(i)}
<1>6. Balanced(e + 1)
  <2>1. f[e + 1] = <<>>
    <3>1. e + 1 \in 1..(e + 1) /\ e + 1 > e
      BY ONLY <1>1
    <3>2. f[e + 1] = TokensAt(f, p, e + 1)
      BY <1>3, <3>1
    <3>3. QED
      BY ONLY <1>2, <3>1, <3>2 DEF TokensAt
  <2>2. OccursIn(f[e + 1], c) = 0
    <3>1. <<>> \in Seq(Words) /\ "ID" \in Words
      BY DEF Words
    <3>2. QED
      BY <2>1, <3>1, PlacesAfter
  <2>3. PICK a \in Nat : a = CountTo(t, c, e)
    BY <1>1, CountsNext
  <2>4. (e + 1) - 1 = e /\ a + 0 = a
    BY ONLY <1>1, a \in Nat
  <2>5. QED
    BY <2>2, <2>3, <2>4
<1>7. T \subseteq Nat /\ 0 \in T
  <2>1. ASSUME NEW i \in 1..(e + 1), e + 1 - i <= 0 PROVE i = e + 1
    BY ONLY <1>1, <2>1, i \in 1..(e + 1)
  <2>2. QED
    BY <1>6, <2>1
<1>8. ASSUME NEW k \in T PROVE k + 1 \in T
  <2>1. SUFFICES ASSUME NEW i \in 1..(e + 1), i \in Starts(t) \/ i = e + 1, e + 1 - i <= k + 1 PROVE Balanced(i)
    OBVIOUS
  <2>2. CASE i = e + 1
    BY <1>6, <2>2
  <2>3. CASE i # e + 1
    <3>1. i \in Starts(t) /\ k \in Nat
      BY <2>1, <2>3
    <3>2. i <= e /\ i - 1 \in Nat /\ i \in Nat /\ (i - 1) + 1 = i
      BY ONLY <1>1, <2>3, i \in 1..(e + 1)
    <3>3. PICK l : l = LexemeEnd(t, i)
      OBVIOUS
    <3>4. l \in i..e /\ (l < e => l + 1 \in Starts(t))
      BY <3>1, <3>2, <3>3, CutLexeme
    <3>5. l + 1 \in 1..(e + 1) /\ (l < e \/ l + 1 = e + 1) /\ e + 1 - (l + 1) <= k /\ (l + 1) - 1 = l /\ l \in Nat
      BY ONLY <1>1, <2>1, <3>1, <3>2, <3>4
    <3>6. Balanced(l + 1)
      <4>1. l + 1 \in Starts(t) \/ l + 1 = e + 1
        BY <3>4, <3>5
      <4>2. QED
        BY <3>5, <4>1
    <3>7. /\ t[i] = c => OccursIn(f[i], c) = OccursIn(f[l + 1], c) + 1
          /\ t[i] # c => OccursIn(f[i], c) = OccursIn(f[l + 1], c)
      <4>1. f[i] = TokensAt(f, p, i)
        BY <1>3
      <4>2. i \in Starts(t) /\ i <= e
        BY <3>1, <3>2
      <4>3. PICK r : r = f[l + 1]
        OBVIOUS
      <4>4. r \in Seq(Words) /\ r = f[LexemeEnd(t, i) + 1]
        BY <3>3, <3>5, <4>3
      <4>5. TokenFor(f, t, e, p, i, r)
        BY <4>1, <4>2, <4>4 DEF TokenFor
      <4>6. Gains(f[i], r, c, t[i] = c)
        BY <4>4, <4>5, TokenOfLexeme
      <4>7. QED
        BY <4>3, <4>6 DEF Gains
    <3>8. CountTo(t, c, l) = CountTo(t, c, i)
      BY <3>1, <3>3, CountSkips
    <3>9. PICK a \in Nat : a = CountTo(t, c, i - 1)
      BY <3>2, CountsNext
    <3>10. /\ t[i] = c => CountTo(t, c, i) = a + 1
           /\ t[i] # c => CountTo(t, c, i) = a
      BY <3>1, <3>2, <3>9, CountsNext
    <3>11. PICK b \in Nat : b = OccursIn(f[l + 1], c)
      <4>1. f[l + 1] \in Seq(Words) /\ "ID" \in Words
        BY <3>5 DEF Words
      <4>2. QED
        BY <4>1, PlacesAfter
    <3>12. CountTo(t, c, i) + b = CountTo(t, c, e)
      BY <3>5, <3>6, <3>8, <3>11
    <3>13. CASE t[i] = c
      <4>1. (a + 1) + b = a + (b + 1)
        OBVIOUS
      <4>2. QED
        BY <3>7, <3>9, <3>10, <3>11, <3>12, <3>13, <4>1
    <3>14. CASE t[i] # c
      BY <3>7, <3>9, <3>10, <3>11, <3>12, <3>14
    <3>15. QED
      BY <3>13, <3>14
  <2>4. QED
    BY <2>2, <2>3
<1> HIDE DEF T
<1>9. T = Nat
  BY <1>7, <1>8, AllNumbers
<1>10. Balanced(1)
  <2>1. e \in T /\ 1 \in 1..(e + 1) /\ e + 1 - 1 <= e
    BY <1>1, <1>9
  <2>2. QED
    BY <1>5, <2>1 DEF T
<1>11. PICK b \in Nat : b = OccursIn(f[1], c)
  <2>1. 1 \in 1..(e + 1)
    BY ONLY <1>1
  <2>2. f[1] \in Seq(Words) /\ "ID" \in Words
    BY <2>1 DEF Words
  <2>3. QED
    BY <2>2, PlacesAfter
<1>12. CountTo(t, c, 1 - 1) = 0
  <2>1. 0 \in Nat /\ 1 - 1 = 0
    OBVIOUS
  <2>2. QED
    BY <2>1, CountsNext
<1>13. 0 + b = b
  OBVIOUS
<1>14. QED
  BY <1>4, <1>10, <1>11, <1>12, <1>13

(* BlockEndsAtItsBrace for every text that begins with a brace, as the      *)
(* callers of match_brace do: match_brace stops where the lexemes say, and  *)
(* normalize_tokens, which shares no code with it, agrees on where literals *)
(* end, however they are nested, escaped or left open.                     *)
THEOREM EveryBlockEndsAtItsBrace ==
  ASSUME NEW t \in Seq(Characters), Opens(t)
  PROVE  BlockEnds(t)
<1>1. PICK e : e = MatchBrace(t)
  OBVIOUS
<1>2. ASSUME NoShortComment(t)
      PROVE  e = IF Closing(t) = {} THEN 0 ELSE Min(Closing(t))
  <2>1. CASE Closing(t) = {}
    BY <1>1, <1>2, <2>1, BraceFound
  <2>2. CASE Closing(t) # {}
    <3>1. e \in Closing(t) /\ \A c \in Closing(t) : e <= c
      BY <1>1, <1>2, <2>2, BraceFound
    <3>2. Closing(t) \in SUBSET Nat
      <4>1. \A c \in Closing(t) : c \in Nat
        BY ClosingPlaces
      <4>2. QED
        BY <4>1
    <3>3. PICK m : m = Min(Closing(t)) /\ m \in Closing(t) /\ m <= e
      BY <2>2, <3>1, <3>2, LeastIs
    <3>4. m \in Nat /\ e \in Nat /\ e <= m
      BY <3>1, <3>2, <3>3
    <3>5. m = e
      BY ONLY <3>3, <3>4
    <3>6. QED
      BY <2>2, <3>3, <3>5
  <2>3. QED
    BY <2>1, <2>2
<1>3. ASSUME e # 0, Comments(t, "*") \cup Comments(t, "/") = {}
      PROVE  Tokens(SubSeq(t, 1, e), "{") = Tokens(SubSeq(t, 1, e), "}")
  <2>1. NoShortComment(t)
    BY <1>3 DEF NoShortComment
  <2>2. e \in Closing(t)
    BY <1>1, <1>3, <2>1, BraceFound
  <2>3. PICK p : p = SubSeq(t, 1, e)
    OBVIOUS
  <2>4. CutAt(p, t, e)
    <3>1. e \in Nat /\ 0 < e /\ e <= Len(t)
      BY <2>2, ClosingPlaces
    <3>2. \A i \in 1..e : t[i] \in Characters
      <4>1. PICK n \in Nat : n = Len(t) /\ \A i \in 1..n : t[i] \in Characters
        OBVIOUS
      <4>2. \A i \in 1..e : i \in 1..n
        BY ONLY <3>1, <4>1
      <4>3. QED
        BY <4>1, <4>2
    <3>3. /\ p \in Seq(Characters)
          /\ Len(p) = IF 1 <= e THEN e - 1 + 1 ELSE 0
          /\ \A i \in 1..(e - 1 + 1) : p[i] = t[1 + i - 1]
      <4>1. 1 \in Int /\ e \in Int
        BY <3>1
      <4>2. QED
        BY ONLY <2>3, <3>2, <4>1, SubSeqProperties
    <3>4. 1 <= e /\ e - 1 + 1 = e /\ \A i \in 1..e : 1 + i - 1 = i
      BY ONLY <3>1
    <3>5. QED
      BY <3>3, <3>4 DEF CutAt
  <2>5. Tokens(p, "{") = CountTo(t, "{", e) /\ Tokens(p, "}") = CountTo(t, "}", e)
    BY <1>3, <2>2, <2>4, TokensCounted DEF Brace
  <2>6. CountTo(t, "{", e) = CountTo(t, "}", e)
    BY <2>2 DEF Closing
  <2>7. QED
    BY <2>3, <2>5, <2>6
<1>4. QED
  BY <1>1, <1>2, <1>3 DEF BlockEnds, NoShortComment

(* BlockEndsAtItsBrace in every state.                                     *)
THEOREM BlockEndsAtItsBraceCorrect == TextSpec => []BlockEndsAtItsBrace
<1> DEFINE Read == text \in Seq(Characters) /\ Opens(text)
<1>1. TextInit => Read
  <2>1. PICK b \in Characters : b = "{"
    BY DEF Characters, Marks
  <2>2. PICK t : t = <<b>>
    OBVIOUS
  <2>3. t \in Seq(Characters) /\ Len(t) > 0 /\ t[1] = b
    BY <2>2
  <2>4. t \in Seq(Characters) /\ Opens(t)
    BY <2>1, <2>3 DEF Opens
  <2>5. QED
    BY <2>1, <2>2, <2>4 DEF TextInit
<1>2. Read /\ [TextNext]_textVars => Read'
  <2>1. ASSUME NEW t \in Seq(Characters), Opens(t), NEW c \in Characters
        PROVE  Append(t, c) \in Seq(Characters) /\ Opens(Append(t, c))
    <3>1. PICK u : u = Append(t, c)
      OBVIOUS
    <3>2. Len(t) > 0
      BY <2>1 DEF Opens
    <3>3. u \in Seq(Characters) /\ Len(u) > 0 /\ u[1] = t[1]
      BY ONLY <3>1, <3>2, t \in Seq(Characters), c \in Characters
    <3>4. t[1] = "{"
      BY <2>1 DEF Opens
    <3>5. QED
      BY <3>1, <3>3, <3>4 DEF Opens
  <2>2. ASSUME Read, NEW c \in Characters, text' = Append(text, c) PROVE Read'
    BY <2>1, <2>2
  <2>3. QED
    BY <2>2 DEF TextNext, textVars
<1>3. Read => BlockEndsAtItsBrace
  BY EveryBlockEndsAtItsBrace DEF BlockEndsAtItsBrace
<1>4. QED
  BY <1>1, <1>2, <1>3, PTL DEF TextSpec

===========================================================================
