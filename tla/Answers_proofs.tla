--------------------------- MODULE Answers_proofs ---------------------------
(***************************************************************************)
(* Proofs about the answers made of findings: what a cap, a filter, an      *)
(* order and a deduplication leave of what the detectors find; and of the   *)
(* normal form of a type of any length, which the same orders make.        *)
(***************************************************************************)
EXTENDS Findings_proofs

(***************************************************************************)
(* Keys, in the order of strings.                                          *)
(***************************************************************************)
(* Two keys are equal, or one begins the other, or there is a first place   *)
(* at which they differ.                                                   *)
Parts(a, b, i) == i \in DOMAIN a /\ i \in DOMAIN b /\ a[i] < b[i] /\ \A j \in 1..(i - 1) : a[j] = b[j]
Begins(a, b) == Len(a) < Len(b) /\ \A i \in DOMAIN a : a[i] = b[i]

LEMMA KeyLessIs == ASSUME NEW a, NEW b PROVE KeyLess(a, b) <=> (\E i : Parts(a, b, i)) \/ Begins(a, b)
  BY DEF KeyLess, Parts, Begins

LEMMA PartsOnce ==
  ASSUME NEW a \in Seq(Int), NEW b \in Seq(Int), NEW i, Parts(a, b, i)
  PROVE  ~Begins(a, b) /\ ~Begins(b, a) /\ a # b /\ \A j : ~Parts(b, a, j)
<1>1. a[i] \in Int /\ b[i] \in Int /\ i \in 1..Len(a) /\ i \in 1..Len(b) /\ a[i] < b[i] /\ \A j \in 1..(i - 1) : a[j] = b[j]
  BY DEF Parts
<1>2. ASSUME NEW j, Parts(b, a, j) PROVE FALSE
  <2>1. b[j] \in Int /\ a[j] \in Int /\ j \in 1..Len(a) /\ j \in 1..Len(b) /\ b[j] < a[j] /\ \A k \in 1..(j - 1) : b[k] = a[k]
    BY <1>2 DEF Parts
  <2>2. Len(a) \in Nat /\ Len(b) \in Nat
    OBVIOUS
  <2>3. CASE j < i
    <3>1. j \in 1..(i - 1)
      BY <1>1, <2>1, <2>2, <2>3
    <3>2. QED
      BY <1>1, <2>1, <3>1
  <2>4. CASE i < j
    <3>1. i \in 1..(j - 1)
      BY <1>1, <2>1, <2>2, <2>4
    <3>2. QED
      BY <1>1, <2>1, <3>1
  <2>5. CASE i = j
    BY <1>1, <2>1, <2>5
  <2>6. QED
    BY <1>1, <2>1, <2>2, <2>3, <2>4, <2>5
<1>3. DOMAIN a = 1..Len(a) /\ DOMAIN b = 1..Len(b)
  OBVIOUS
<1>4. i \in DOMAIN a /\ i \in DOMAIN b /\ a[i] # b[i]
  BY <1>1, <1>3
<1>5. ~Begins(a, b) /\ ~Begins(b, a)
  BY <1>4, Zenon DEF Begins
<1>6. QED
  BY <1>2, <1>4, <1>5

LEMMA KeyLessStrict ==
  ASSUME NEW a \in Seq(Int), NEW b \in Seq(Int), KeyLess(a, b)
  PROVE  ~KeyLess(b, a) /\ a # b
<1>1. CASE \E i : Parts(a, b, i)
  BY <1>1, PartsOnce, KeyLessIs
<1>2. CASE Begins(a, b)
  <2>1. ~Begins(b, a) /\ a # b
    <3>1. Len(a) \in Nat /\ Len(b) \in Nat /\ Len(a) < Len(b)
      BY <1>2 DEF Begins
    <3>2. QED
      BY <3>1 DEF Begins
  <2>2. ~\E i : Parts(b, a, i)
    BY <1>2, PartsOnce
  <2>3. QED
    BY <2>1, <2>2, KeyLessIs
<1>3. QED
  BY <1>1, <1>2, KeyLessIs

LEMMA KeyLessTotal ==
  ASSUME NEW a \in Seq(Int), NEW b \in Seq(Int)
  PROVE  a = b \/ KeyLess(a, b) \/ KeyLess(b, a)
<1> DEFINE T == {i \in 1..Len(a) : i <= Len(b) /\ a[i] # b[i]}
<1>0. Len(a) \in Nat /\ Len(b) \in Nat /\ DOMAIN a = 1..Len(a) /\ DOMAIN b = 1..Len(b)
      /\ (\A i \in 1..Len(a) : a[i] \in Int) /\ (\A i \in 1..Len(b) : b[i] \in Int)
  OBVIOUS
<1>1. CASE T # {}
  <2>1. PICK m \in T : \A n \in T : m <= n
    <3>1. T \in SUBSET Nat
      BY <1>0
    <3>2. QED
      BY <1>1, <3>1, SmallestOf
  <2>2. \A j \in 1..(m - 1) : a[j] = b[j] /\ b[j] = a[j]
    <3>1. TAKE j \in 1..(m - 1)
    <3>2. j \notin T /\ j \in 1..Len(a) /\ j <= Len(b)
      BY <1>0, <2>1
    <3>3. QED
      BY <3>2
  <2>3. m \in DOMAIN a /\ m \in DOMAIN b /\ (a[m] < b[m] \/ b[m] < a[m])
    BY <1>0, <2>1
  <2>4. Parts(a, b, m) \/ Parts(b, a, m)
    BY <2>2, <2>3 DEF Parts
  <2>5. QED
    BY <2>4, KeyLessIs
<1>2. CASE T = {}
  <2>1. \A i \in 1..Len(a) : i <= Len(b) => a[i] = b[i]
    BY <1>2
  <2>2. CASE Len(a) < Len(b)
    <3>1. Begins(a, b)
      BY <1>0, <2>1, <2>2 DEF Begins
    <3>2. QED
      BY <3>1, KeyLessIs
  <2>3. CASE Len(b) < Len(a)
    <3>1. Begins(b, a)
      BY <1>0, <2>1, <2>3 DEF Begins
    <3>2. QED
      BY <3>1, KeyLessIs
  <2>4. CASE Len(a) = Len(b)
    BY <1>0, <2>1, <2>4
  <2>5. Len(a) < Len(b) \/ Len(b) < Len(a) \/ Len(a) = Len(b)
    <3>1. \A m, n \in Nat : m < n \/ n < m \/ m = n
      OBVIOUS
    <3>2. Len(a) \in Nat /\ Len(b) \in Nat
      OBVIOUS
    <3>3. QED
      BY <3>1, <3>2, Zenon
  <2>6. QED
    BY <2>2, <2>3, <2>4, <2>5
<1>3. QED
  BY <1>1, <1>2

LEMMA KeyLessTransitive ==
  ASSUME NEW a \in Seq(Int), NEW b \in Seq(Int), NEW c \in Seq(Int), KeyLess(a, b), KeyLess(b, c)
  PROVE  KeyLess(a, c)
<1>0. /\ Len(a) \in Nat /\ Len(b) \in Nat /\ Len(c) \in Nat
      /\ DOMAIN a = 1..Len(a) /\ DOMAIN b = 1..Len(b) /\ DOMAIN c = 1..Len(c)
      /\ (\A i \in 1..Len(a) : a[i] \in Int) /\ (\A i \in 1..Len(b) : b[i] \in Int) /\ (\A i \in 1..Len(c) : c[i] \in Int)
  OBVIOUS
<1>1. ASSUME NEW i, Parts(a, b, i), NEW j, Parts(b, c, j) PROVE KeyLess(a, c)
  <2>1. i \in 1..Len(a) /\ i \in 1..Len(b) /\ j \in 1..Len(b) /\ j \in 1..Len(c) /\ a[i] < b[i] /\ b[j] < c[j]
        /\ (\A k \in 1..(i - 1) : a[k] = b[k]) /\ (\A k \in 1..(j - 1) : b[k] = c[k])
    BY <1>0, <1>1 DEF Parts
  <2>2. CASE i < j
    <3>1. i \in 1..(j - 1) /\ i \in 1..Len(c) /\ b[i] = c[i]
      BY <1>0, <2>1, <2>2
    <3>2. \A k \in 1..(i - 1) : k \in 1..(j - 1)
      BY <1>0, <2>1, <2>2
    <3>3. Parts(a, c, i)
      BY <1>0, <2>1, <3>1, <3>2 DEF Parts
    <3>4. QED
      BY <3>3, KeyLessIs
  <2>3. CASE j < i
    <3>1. j \in 1..(i - 1) /\ j \in 1..Len(a) /\ a[j] = b[j]
      BY <1>0, <2>1, <2>3
    <3>2. \A k \in 1..(j - 1) : k \in 1..(i - 1)
      BY <1>0, <2>1, <2>3
    <3>3. Parts(a, c, j)
      BY <1>0, <2>1, <3>1, <3>2 DEF Parts
    <3>4. QED
      BY <3>3, KeyLessIs
  <2>4. CASE i = j
    <3>1. a[i] \in Int /\ b[i] \in Int /\ c[i] \in Int
      BY <1>0, <2>1, <2>4
    <3>2. Parts(a, c, i)
      BY <1>0, <2>1, <2>4, <3>1 DEF Parts
    <3>3. QED
      BY <3>2, KeyLessIs
  <2>5. QED
    BY <1>0, <2>1, <2>2, <2>3, <2>4
<1>2. ASSUME NEW i, Parts(a, b, i), Begins(b, c) PROVE KeyLess(a, c)
  <2>1. i \in 1..Len(a) /\ i \in 1..Len(b) /\ a[i] < b[i] /\ (\A k \in 1..(i - 1) : a[k] = b[k])
        /\ Len(b) < Len(c) /\ (\A k \in 1..Len(b) : b[k] = c[k])
    BY <1>0, <1>2 DEF Parts, Begins
  <2>2. i \in 1..Len(c) /\ \A k \in 1..(i - 1) : k \in 1..Len(b)
    BY <1>0, <2>1
  <2>3. Parts(a, c, i)
    BY <1>0, <2>1, <2>2 DEF Parts
  <2>4. QED
    BY <2>3, KeyLessIs
<1>3. ASSUME Begins(a, b), NEW j, Parts(b, c, j) PROVE KeyLess(a, c)
  <2>1. j \in 1..Len(b) /\ j \in 1..Len(c) /\ b[j] < c[j] /\ (\A k \in 1..(j - 1) : b[k] = c[k])
        /\ Len(a) < Len(b) /\ (\A k \in 1..Len(a) : a[k] = b[k])
    BY <1>0, <1>3 DEF Parts, Begins
  <2>2. CASE j <= Len(a)
    <3>1. j \in 1..Len(a) /\ \A k \in 1..(j - 1) : k \in 1..Len(a)
      BY <1>0, <2>1, <2>2
    <3>2. Parts(a, c, j)
      BY <1>0, <2>1, <3>1 DEF Parts
    <3>3. QED
      BY <3>2, KeyLessIs
  <2>3. CASE Len(a) < j
    <3>1. Len(a) < Len(c) /\ \A k \in 1..Len(a) : k \in 1..(j - 1)
      BY <1>0, <2>1, <2>3
    <3>2. Begins(a, c)
      BY <1>0, <2>1, <3>1 DEF Begins
    <3>3. QED
      BY <3>2, KeyLessIs
  <2>4. QED
    BY <1>0, <2>1, <2>2, <2>3
<1>4. ASSUME Begins(a, b), Begins(b, c) PROVE KeyLess(a, c)
  <2>1. Len(a) < Len(b) /\ (\A k \in 1..Len(a) : a[k] = b[k]) /\ Len(b) < Len(c) /\ (\A k \in 1..Len(b) : b[k] = c[k])
    BY <1>0, <1>4 DEF Begins
  <2>2. Len(a) < Len(c) /\ \A k \in 1..Len(a) : k \in 1..Len(b)
    BY <1>0, <2>1
  <2>3. Begins(a, c)
    BY <1>0, <2>1, <2>2 DEF Begins
  <2>4. QED
    BY <2>3, KeyLessIs
<1>5. QED
  BY <1>1, <1>2, <1>3, <1>4, KeyLessIs

(***************************************************************************)
(* What stands in a sequence is put in order by its places.                *)
(***************************************************************************)
(* L relates places; those it does not relate keep their order.            *)
WeakOrder(L, S) ==
  /\ \A x, y \in S : <<x, y>> \in L => <<y, x>> \notin L
  /\ \A x, y, z \in S : <<x, y>> \in L => <<x, z>> \in L \/ <<z, y>> \in L
Stable(L, n) == {p \in (1..n) \X (1..n) : p \in L \/ (<<p[2], p[1]>> \notin L /\ p[1] < p[2])}
Permutes(t, seq, n) ==
  /\ DOMAIN t = 1..n /\ Len(t) = n
  /\ \E order \in Bijection(1..n, 1..n) : \A i \in 1..n : t[i] = seq[order[i]]

LEMMA StableIsStrict == ASSUME NEW n \in Nat, NEW L, WeakOrder(L, 1..n) PROVE StrictOrder(Stable(L, n), 1..n)
<1> DEFINE S == 1..n
           R == Stable(L, n)
<1>1. /\ \A x, y \in S : <<x, y>> \in R <=> <<x, y>> \in L \/ (<<y, x>> \notin L /\ x < y)
      /\ \A x, y \in S : x \in Int /\ y \in Int
  BY DEF Stable
<1>2. /\ \A x, y \in S : <<x, y>> \in L => <<y, x>> \notin L
      /\ \A x, y, z \in S : <<x, y>> \in L => <<x, z>> \in L \/ <<z, y>> \in L
  BY DEF WeakOrder
<1> HIDE DEF S, R
<1>3. \A x \in S : <<x, x>> \notin R
  BY <1>1, <1>2
<1>4. ASSUME NEW x \in S, NEW y \in S, NEW z \in S, <<x, y>> \in R, <<y, z>> \in R PROVE <<x, z>> \in R
  <2>1. CASE <<x, y>> \in L
    BY <1>1, <1>2, <1>4, <2>1
  <2>2. CASE <<y, z>> \in L
    BY <1>1, <1>2, <1>4, <2>2
  <2>3. CASE <<x, y>> \notin L /\ <<y, z>> \notin L
    <3>1. x < y /\ <<y, x>> \notin L /\ y < z /\ <<z, y>> \notin L
      BY <1>1, <1>4, <2>3
    <3>2. x < z
      BY <1>1, <3>1
    <3>3. <<z, x>> \notin L
      BY <1>2, <3>1
    <3>4. QED
      BY <1>1, <3>2, <3>3
  <2>4. QED
    BY <2>1, <2>2, <2>3
<1>5. ASSUME NEW x \in S, NEW y \in S, x # y PROVE <<x, y>> \in R \/ <<y, x>> \in R
  <2>1. x < y \/ y < x
    BY <1>1, <1>5
  <2>2. QED
    BY <1>1, <2>1
<1>6. QED
  BY <1>3, <1>4, <1>5 DEF StrictOrder, S, R

(* The same sequence by an operator of Ordering and by the set of its pairs. *)
ByPlaces(seq, n, L) == [k \in 1..n |-> seq[InOrder(1..n, Stable(L, n))[k]]]

LEMMA PlacesPermute ==
  ASSUME NEW n \in Nat, NEW L, WeakOrder(L, 1..n), NEW seq, NEW t, t = ByPlaces(seq, n, L)
  PROVE  Permutes(t, seq, n)
<1>1. PICK order : order = InOrder(1..n, Stable(L, n))
  OBVIOUS
<1>2. EnumeratesBy(order, 1..n, Stable(L, n))
  BY <1>1, IntervalIsFinite, StableIsStrict, Enumeration
<1>3. order \in Bijection(1..n, 1..n)
  BY <1>2, IntervalIsFinite DEF EnumeratesBy
<1>4. t = [k \in 1..n |-> seq[order[k]]]
  BY <1>1 DEF ByPlaces
<1>5. DOMAIN t = 1..n /\ \A i \in 1..n : t[i] = seq[order[i]]
  BY <1>4
<1>6. Len(t) = n
  BY <1>4
<1>7. QED
  BY <1>3, <1>5, <1>6 DEF Permutes

BeforePairs(fs, n) == {p \in (1..n) \X (1..n) : Before(fs[p[1]], fs[p[2]])}
LEMMA BeforeByPlaces ==
  ASSUME NEW fs, NEW n \in Nat, DOMAIN fs = 1..n
  PROVE  Arranged(fs, Before) = ByPlaces(fs, n, BeforePairs(fs, n))
<1> DEFINE Ahead(i, j) == Before(fs[i], fs[j]) \/ (~Before(fs[j], fs[i]) /\ i < j)
<1>1. PICK S, R : S = 1..n /\ R = Stable(BeforePairs(fs, n), n)
  OBVIOUS
<1>2. PICK e : e = [i \in 1..Cardinality(S) |-> CHOOSE x \in S : Cardinality({y \in S : Ahead(y, x)}) = i - 1]
  OBVIOUS
<1>3. Arranged(fs, Before) = [k \in DOMAIN e |-> fs[e[k]]]
  BY <1>1, <1>2 DEF Arranged, Each, SortedBy
<1>4. \A x, y \in S : <<y, x>> \in R <=> Ahead(y, x)
  BY <1>1 DEF Stable, BeforePairs
<1> HIDE DEF Ahead
<1>5. \A x \in S : {y \in S : Ahead(y, x)} = {y \in S : <<y, x>> \in R}
  BY <1>4
<1>6. \A i : (CHOOSE x \in S : Cardinality({y \in S : Ahead(y, x)}) = i - 1)
             = (CHOOSE x \in S : Cardinality({y \in S : <<y, x>> \in R}) = i - 1)
  BY <1>5, Zenon
<1>7. e = InOrder(S, R)
  <2> DEFINE At(i) == CHOOSE x \in S : Cardinality({y \in S : Ahead(y, x)}) = i - 1
             In(i) == CHOOSE x \in S : Cardinality({y \in S : <<y, x>> \in R}) = i - 1
  <2>1. e = [i \in 1..Cardinality(S) |-> At(i)] /\ InOrder(S, R) = [i \in 1..Cardinality(S) |-> In(i)]
    BY <1>2 DEF InOrder
  <2>2. \A i : At(i) = In(i)
    BY <1>6
  <2> HIDE DEF At, In
  <2>3. QED
    BY <2>1, <2>2
<1>8. DOMAIN e = 1..n
  BY <1>1, <1>2, IntervalIsFinite
<1>9. QED
  BY <1>1, <1>3, <1>7, <1>8, Zenon DEF ByPlaces

(***************************************************************************)
(* Sequences put behind each other.                                        *)
(***************************************************************************)
(* flat[i] is made of the first i sequences.                               *)
Flattens(flat, seqs, n, E) ==
  /\ flat \in [1..n -> Seq(E)] /\ flat[1] = seqs[1]
  /\ \A i \in 1..(n - 1) : flat[i + 1] = flat[i] \o seqs[i + 1]

LEMMA FlatExists ==
  ASSUME NEW E, NEW n \in Nat \ {0}, NEW seqs \in [1..n -> Seq(E)]
  PROVE  \E flat : Flattens(flat, seqs, n, E)
<1> DEFINE S == [i : Nat, s : Seq(E)]
           On(t) == [i |-> t.i + 1, s |-> IF t.i + 1 \in 1..n THEN t.s \o seqs[t.i + 1] ELSE t.s]
           step == [t \in S |-> On(t)]
           start == [i |-> 1, s |-> seqs[1]]
<1>1. start \in S
  <2>1. seqs[1] \in Seq(E)
    OBVIOUS
  <2>2. QED
    BY <2>1
<1>2. step \in [S -> S]
  <2>1. ASSUME NEW t \in S PROVE On(t) \in S
    <3>1. t.i + 1 \in Nat /\ t.s \in Seq(E)
      OBVIOUS
    <3>2. CASE t.i + 1 \in 1..n
      <4>1. seqs[t.i + 1] \in Seq(E)
        BY <3>2
      <4>2. t.s \o seqs[t.i + 1] \in Seq(E)
        BY <3>1, <4>1
      <4>3. QED
        BY <3>1, <3>2, <4>2
    <3>3. CASE t.i + 1 \notin 1..n
      BY <3>1, <3>3
    <3>4. QED
      BY <3>2, <3>3
  <2> HIDE DEF On, S
  <2>2. QED
    BY <2>1
<1>3. PICK f : Iteration(f, S, start, step)
  <2> HIDE DEF S, step, start
  <2>1. QED
    BY ONLY <1>1, <1>2, Iterated, Zenon
<1>4. f \in [Nat -> S] /\ f[0] = start /\ \A k \in Nat : f[k] \in S /\ f[k + 1] = On(f[k])
  <2> HIDE DEF S, On
  <2>1. QED
    BY <1>3 DEF Iteration
<1>41. /\ \A t : On(t).i = t.i + 1
      /\ \A t : t.i + 1 \in 1..n => On(t).s = t.s \o seqs[t.i + 1]
  OBVIOUS
<1>42. start.i = 1 /\ start.s = seqs[1]
  OBVIOUS
<1> HIDE DEF On, start, step, S
<1>5. \A k \in Nat : f[k].i = k + 1
  <2> DEFINE T == {k \in Nat : f[k].i = k + 1}
  <2>1. T \subseteq Nat /\ 0 \in T
    <3>1. f[0].i = 0 + 1
      BY <1>4, <1>42
    <3>2. QED
      BY <3>1
  <2>2. ASSUME NEW k \in T PROVE k + 1 \in T
    <3>1. f[k].i = k + 1 /\ f[k + 1] = On(f[k]) /\ k \in Nat
      BY <1>4
    <3>2. f[k + 1].i = f[k].i + 1
      BY <3>1, <1>41
    <3>3. QED
      BY <3>1, <3>2
  <2> HIDE DEF T
  <2>3. T = Nat
    BY <2>1, <2>2, AllNumbers
  <2>4. QED
    BY <2>3 DEF T
<1> DEFINE flat == [i \in 1..n |-> f[i - 1].s]
<1>6. flat \in [1..n -> Seq(E)]
  <2>1. ASSUME NEW i \in 1..n PROVE f[i - 1].s \in Seq(E)
    <3>1. i - 1 \in Nat
      OBVIOUS
    <3>2. QED
      BY <1>4, <3>1 DEF S
  <2>2. QED
    BY <2>1
<1>7. flat[1] = seqs[1]
  <2>1. 1 \in 1..n /\ 1 - 1 = 0 /\ f[0].s = seqs[1]
    BY <1>4, <1>42
  <2>2. QED
    BY <2>1
<1>8. ASSUME NEW i \in 1..(n - 1) PROVE flat[i + 1] = flat[i] \o seqs[i + 1]
  <2>1. i - 1 \in Nat /\ (i - 1) + 1 = i /\ i \in 1..n /\ i + 1 \in 1..n /\ (i + 1) - 1 = i
    OBVIOUS
  <2>2. f[i] = On(f[i - 1]) /\ f[i - 1].i = i
    BY <1>4, <1>5, <2>1
  <2>3. f[i].s = f[i - 1].s \o seqs[i + 1]
    BY <2>1, <2>2, <1>41
  <2>4. QED
    BY <2>1, <2>3
<1> HIDE DEF flat
<1>9. QED
  BY <1>6, <1>7, <1>8 DEF Flattens

LEMMA FlattenIs ==
  ASSUME NEW E, NEW seqs \in Seq(Seq(E)), Len(seqs) # 0
  PROVE  \E flat : Flattens(flat, seqs, Len(seqs), E) /\ FlattenSeq(seqs) = flat[Len(seqs)]
<1>1. PICK n \in Nat \ {0} : n = Len(seqs)
  OBVIOUS
<1>2. seqs \in [1..n -> Seq(E)]
  BY <1>1
<1> DEFINE At(g, i) == IF i = 1 THEN seqs[i] ELSE g[i - 1] \o seqs[i]
           Body(g) == [i \in 1..n |-> At(g, i)]
<1>3. PICK g : Flattens(g, seqs, n, E)
  BY <1>2, FlatExists
<1>4. g = Body(g)
  <2>1. g \in [1..n -> Seq(E)] /\ g[1] = seqs[1] /\ \A i \in 1..(n - 1) : g[i + 1] = g[i] \o seqs[i + 1]
    BY <1>3 DEF Flattens
  <2>2. ASSUME NEW i \in 1..n PROVE g[i] = At(g, i)
    <3>1. CASE i = 1
      BY <2>1, <3>1
    <3>2. CASE i # 1
      <4>1. i - 1 \in 1..(n - 1) /\ (i - 1) + 1 = i
        BY <3>2
      <4>2. g[i] = g[i - 1] \o seqs[i]
        BY <2>1, <4>1
      <4>3. QED
        BY <3>2, <4>2
    <3>3. QED
      BY <3>1, <3>2
  <2>3. g = [i \in 1..n |-> g[i]]
    BY <2>1
  <2> HIDE DEF At
  <2>4. QED
    BY <2>2, <2>3
<1> DEFINE flat == CHOOSE h : h = Body(h)
<1>5. flat = Body(flat)
  <2> HIDE DEF Body
  <2>1. QED
    BY <1>4, Zenon
<1>6. FlattenSeq(seqs) = flat[n]
  BY <1>1 DEF FlattenSeq
<1> HIDE DEF flat
<1>7. /\ flat = [i \in 1..n |-> flat[i]] /\ flat[1] = seqs[1]
      /\ \A i \in 1..(n - 1) : flat[i + 1] = flat[i] \o seqs[i + 1]
  <2>1. \A i \in 1..n : flat[i] = At(flat, i)
    <3> HIDE DEF At
    <3>1. QED
      BY <1>5
  <2>2. flat = [i \in 1..n |-> flat[i]]
    <3> HIDE DEF At
    <3>1. QED
      BY <1>5
  <2>3. ASSUME NEW i \in 1..(n - 1) PROVE flat[i + 1] = flat[i] \o seqs[i + 1]
    <3>1. i + 1 \in 1..n /\ i + 1 # 1 /\ (i + 1) - 1 = i
      OBVIOUS
    <3>2. QED
      BY <2>1, <3>1
  <2>4. flat[1] = seqs[1]
    BY <2>1
  <2>5. QED
    BY <2>2, <2>3, <2>4
<1>8. \A i \in 1..n : flat[i] \in Seq(E)
  <2> DEFINE T == {k \in Nat : k + 1 \in 1..n => flat[k + 1] \in Seq(E)}
  <2>1. T \subseteq Nat /\ 0 \in T
    BY <1>2, <1>7
  <2>2. ASSUME NEW k \in T PROVE k + 1 \in T
    <3>1. SUFFICES ASSUME (k + 1) + 1 \in 1..n PROVE flat[(k + 1) + 1] \in Seq(E)
      OBVIOUS
    <3>2. k + 1 \in 1..n /\ k + 1 \in 1..(n - 1)
      BY <3>1
    <3>3. flat[k + 1] \in Seq(E) /\ seqs[(k + 1) + 1] \in Seq(E)
      BY <1>2, <3>1, <3>2
    <3>4. flat[(k + 1) + 1] = flat[k + 1] \o seqs[(k + 1) + 1]
      BY <1>7, <3>2
    <3>5. QED
      BY ONLY <3>3, <3>4
  <2> HIDE DEF T
  <2>3. T = Nat
    BY <2>1, <2>2, AllNumbers
  <2>4. TAKE i \in 1..n
  <2>5. i - 1 \in T /\ (i - 1) + 1 = i
    BY <2>3
  <2>6. QED
    BY <2>5 DEF T
<1>9. flat \in [1..n -> Seq(E)]
  BY <1>7, <1>8
<1>10. Flattens(flat, seqs, n, E)
  BY <1>7, <1>9 DEF Flattens
<1>11. QED
  BY <1>1, <1>6, <1>10

(* The entries of the whole come from the parts, in the order of the parts  *)
(* and of their places.                                                    *)
Entry(seqs, p) == seqs[p[1]][p[2]]
Cells(seqs, n) == {p \in (1..n) \X Nat : p[2] \in 1..Len(seqs[p[1]])}
Comes(p, q) == p[1] < q[1] \/ (p[1] = q[1] /\ p[2] < q[2])
Lists(F, seqs, at, n) ==
  /\ at \in [1..Len(F) -> Cells(seqs, n)]
  /\ \A m \in 1..Len(F) : F[m] = Entry(seqs, at[m])
  /\ \A p \in Cells(seqs, n) : \E m \in 1..Len(F) : at[m] = p
  /\ \A l, m \in 1..Len(F) : l < m => Comes(at[l], at[m])

LEMMA ListsOneMore ==
  ASSUME NEW E, NEW n \in Nat, NEW seqs, \A i \in 1..(n + 1) : seqs[i] \in Seq(E),
         NEW F \in Seq(E), NEW at, Lists(F, seqs, at, n), NEW G, G = F \o seqs[n + 1]
  PROVE  \E on : Lists(G, seqs, on, n + 1)
<1> DEFINE s == seqs[n + 1]
           k == Len(F)
           on == [m \in 1..Len(G) |-> IF m <= k THEN at[m] ELSE <<n + 1, m - k>>]
<1>1. s \in Seq(E) /\ Len(s) \in Nat /\ k \in Nat /\ Len(G) = k + Len(s)
  OBVIOUS
<1>2. /\ \A m \in 1..k : G[m] = F[m]
      /\ \A m \in 1..Len(s) : G[k + m] = s[m]
  BY <1>1
<1>3. /\ at \in [1..k -> Cells(seqs, n)]
      /\ \A m \in 1..k : F[m] = Entry(seqs, at[m])
      /\ \A p \in Cells(seqs, n) : \E m \in 1..k : at[m] = p
      /\ \A l, m \in 1..k : l < m => Comes(at[l], at[m])
  BY DEF Lists
<1>4. \A p : p \in Cells(seqs, n + 1) <=> p \in Cells(seqs, n) \/ \E m \in 1..Len(s) : p = <<n + 1, m>>
  <2> HIDE DEF k, on
  <2>1. ASSUME NEW p \in Cells(seqs, n + 1) PROVE p \in Cells(seqs, n) \/ \E m \in 1..Len(s) : p = <<n + 1, m>>
    <3>1. p \in (1..(n + 1)) \X Nat /\ p[2] \in 1..Len(seqs[p[1]])
      BY DEF Cells
    <3>2. PICK a \in 1..(n + 1), b \in Nat : p = <<a, b>>
      BY <3>1
    <3>3. CASE a = n + 1
      BY <3>1, <3>2, <3>3
    <3>4. CASE a # n + 1
      <4>1. a \in 1..n
        BY <3>4
      <4>2. QED
        BY <3>1, <3>2, <4>1 DEF Cells
    <3>5. QED
      BY <3>3, <3>4
  <2>2. ASSUME NEW p \in Cells(seqs, n) PROVE p \in Cells(seqs, n + 1)
    BY DEF Cells
  <2>3. ASSUME NEW m \in 1..Len(s) PROVE <<n + 1, m>> \in Cells(seqs, n + 1)
    BY <1>1 DEF Cells
  <2>4. QED
    BY <2>1, <2>2, <2>3
<1>5. \A p \in Cells(seqs, n) : p[1] \in 1..n /\ p[2] \in Nat
  BY DEF Cells
<1> HIDE DEF s, k
<1>6. ASSUME NEW m \in 1..Len(G)
      PROVE  \/ m \in 1..k /\ on[m] = at[m] /\ on[m] \in Cells(seqs, n)
             \/ m - k \in 1..Len(s) /\ k < m /\ on[m] = <<n + 1, m - k>>
  <2>1. CASE m <= k
    BY <1>1, <1>3, <2>1
  <2>2. CASE k < m
    BY <1>1, <2>2
  <2>3. QED
    BY <1>1, <2>1, <2>2
<1>7. DOMAIN on = 1..Len(G)
  OBVIOUS
<1>8. on = [m \in 1..Len(G) |-> on[m]]
  OBVIOUS
<1> HIDE DEF on
<1>9. ASSUME NEW m \in 1..Len(G) PROVE on[m] \in Cells(seqs, n + 1) /\ G[m] = Entry(seqs, on[m])
  <2>1. CASE m \in 1..k /\ on[m] = at[m] /\ on[m] \in Cells(seqs, n)
    BY <1>2, <1>3, <1>4, <2>1
  <2>2. CASE m - k \in 1..Len(s) /\ on[m] = <<n + 1, m - k>>
    <3>0. m \in Int /\ k \in Int
      BY <1>1
    <3>1. G[k + (m - k)] = s[m - k] /\ k + (m - k) = m
      BY <3>0, <1>2, <2>2
    <3>2. Entry(seqs, on[m]) = s[m - k]
      BY <2>2 DEF Entry, s
    <3>3. QED
      BY <1>4, <2>2, <3>1, <3>2
  <2>3. QED
    BY <1>6, <2>1, <2>2
<1>10. ASSUME NEW p \in Cells(seqs, n + 1) PROVE \E m \in 1..Len(G) : on[m] = p
  <2>1. CASE p \in Cells(seqs, n)
    <3>1. PICK m \in 1..k : at[m] = p
      BY <1>3, <2>1
    <3>2. m \in 1..Len(G) /\ ~(k < m)
      BY <1>1, <3>1
    <3>3. on[m] = at[m]
      BY <1>6, <3>2
    <3>4. QED
      BY <3>1, <3>2, <3>3
  <2>2. ASSUME NEW j \in 1..Len(s), p = <<n + 1, j>> PROVE \E m \in 1..Len(G) : on[m] = p
    <3>1. k + j \in 1..Len(G) /\ ~(k + j <= k) /\ (k + j) - k = j
      BY <1>1
    <3>2. k + j \notin 1..k
      BY <1>1, <3>1
    <3>3. on[k + j] = <<n + 1, j>>
      BY <1>6, <3>1, <3>2
    <3>4. QED
      BY <2>2, <3>1, <3>3
  <2>3. QED
    BY <1>4, <2>1, <2>2
<1>11. ASSUME NEW l \in 1..Len(G), NEW m \in 1..Len(G), l < m PROVE Comes(on[l], on[m])
  <2>1. l \in Nat /\ m \in Nat
    OBVIOUS
  <2>2. CASE m \in 1..k
    <3>1. l \in 1..k /\ ~(k < l) /\ ~(k < m)
      BY <1>1, <1>11, <2>1, <2>2
    <3>2. on[l] = at[l] /\ on[m] = at[m]
      BY <1>6, <3>1
    <3>3. QED
      BY <1>3, <1>11, <2>2, <3>1, <3>2
  <2>3. CASE l \in 1..k /\ m \notin 1..k
    <3>1. on[l] \in Cells(seqs, n) /\ on[m] = <<n + 1, m - k>>
      <4>1. ~(k < l)
        BY <1>1, <2>3
      <4>2. QED
        BY <1>6, <2>3, <4>1
    <3>2. on[l][1] \in 1..n /\ on[m][1] = n + 1
      BY <1>5, <3>1
    <3>3. on[l][1] < on[m][1]
      BY <3>2
    <3>4. QED
      BY <3>3 DEF Comes
  <2>4. CASE l \notin 1..k /\ m \notin 1..k
    <3>1. on[l] = <<n + 1, l - k>> /\ on[m] = <<n + 1, m - k>>
      BY <1>6, <2>4
    <3>2. l - k < m - k
      BY <1>1, <1>11, <2>1
    <3>3. QED
      BY <3>1, <3>2 DEF Comes
  <2>5. QED
    BY <2>2, <2>3, <2>4, <1>1, <1>11, <2>1
<1>12. Lists(G, seqs, on, n + 1)
  BY <1>8, <1>9, <1>10, <1>11 DEF Lists
<1>13. QED
  BY <1>12
LEMMA FlattenLists ==
  ASSUME NEW E, NEW seqs \in Seq(Seq(E))
  PROVE  FlattenSeq(seqs) \in Seq(E) /\ \E at : Lists(FlattenSeq(seqs), seqs, at, Len(seqs))
<1>1. CASE Len(seqs) = 0
  <2>1. FlattenSeq(seqs) = seqs /\ seqs = << >>
    BY <1>1 DEF FlattenSeq
  <2>2. FlattenSeq(seqs) \in Seq(E) /\ Len(FlattenSeq(seqs)) = 0
    BY <2>1
  <2>3. Cells(seqs, Len(seqs)) = {}
    BY <1>1 DEF Cells
  <2>4. Lists(FlattenSeq(seqs), seqs, [m \in 1..0 |-> <<>>], Len(seqs))
    BY <2>2, <2>3 DEF Lists
  <2>5. QED
    BY <2>2, <2>4
<1>2. CASE Len(seqs) # 0
  <2>1. PICK flat : Flattens(flat, seqs, Len(seqs), E) /\ FlattenSeq(seqs) = flat[Len(seqs)]
    BY <1>2, FlattenIs
  <2>2. PICK n \in Nat \ {0} : n = Len(seqs)
    BY <1>2
  <2>3. \A i \in 1..n : seqs[i] \in Seq(E) /\ flat[i] \in Seq(E)
    BY <2>1, <2>2 DEF Flattens
  <2>4. flat[1] = seqs[1] /\ \A i \in 1..(n - 1) : flat[i + 1] = flat[i] \o seqs[i + 1]
    BY <2>1, <2>2 DEF Flattens
  <2> DEFINE T == {k \in Nat : k + 1 \in 1..n => \E at : Lists(flat[k + 1], seqs, at, k + 1)}
  <2>5. T \subseteq Nat /\ 0 \in T
    <3> DEFINE s == seqs[1]
               at == [m \in 1..Len(s) |-> <<1, m>>]
    <3>1. s \in Seq(E) /\ flat[1] = s
      BY <2>3, <2>4
    <3>2. at \in [1..Len(s) -> Cells(seqs, 1)]
      BY <3>1 DEF Cells
    <3>3. \A m \in 1..Len(s) : s[m] = Entry(seqs, at[m])
      BY DEF Entry
    <3>4. ASSUME NEW p \in Cells(seqs, 1) PROVE \E m \in 1..Len(s) : at[m] = p
      <4>1. p \in (1..1) \X Nat /\ p[2] \in 1..Len(seqs[p[1]])
        BY DEF Cells
      <4>2. p = <<1, p[2]>> /\ p[2] \in 1..Len(s)
        BY <4>1
      <4>3. QED
        BY <4>2
    <3>5. \A l, m \in 1..Len(s) : l < m => Comes(at[l], at[m])
      BY DEF Comes
    <3> HIDE DEF at, s
    <3>6. Lists(s, seqs, at, 1)
      BY <3>2, <3>3, <3>4, <3>5 DEF Lists
    <3>7. \E a : Lists(flat[0 + 1], seqs, a, 0 + 1)
      BY <3>1, <3>6
    <3>8. QED
      BY <3>7
  <2>6. ASSUME NEW k \in T PROVE k + 1 \in T
    <3>1. k \in Nat /\ (k + 1 \in 1..n => \E at : Lists(flat[k + 1], seqs, at, k + 1))
      OBVIOUS
    <3>2. SUFFICES ASSUME (k + 1) + 1 \in 1..n PROVE \E at : Lists(flat[(k + 1) + 1], seqs, at, (k + 1) + 1)
      BY <3>1
    <3>3. k + 1 \in Nat /\ k + 1 \in 1..n /\ k + 1 \in 1..(n - 1)
      BY <3>1, <3>2
    <3>4. PICK at : Lists(flat[k + 1], seqs, at, k + 1)
      BY <3>1, <3>3
    <3>5. flat[(k + 1) + 1] = flat[k + 1] \o seqs[(k + 1) + 1] /\ flat[k + 1] \in Seq(E)
      BY <2>3, <2>4, <3>3
    <3>6. \A i \in 1..((k + 1) + 1) : seqs[i] \in Seq(E)
      BY <2>3, <3>2
    <3> HIDE DEF T
    <3>7. QED
      BY ONLY <3>3, <3>4, <3>5, <3>6, ListsOneMore
  <2> HIDE DEF T
  <2>7. T = Nat
    BY <2>5, <2>6, AllNumbers
  <2>8. n - 1 \in T /\ (n - 1) + 1 = n /\ n \in 1..n
    BY <2>7
  <2>9. \E at : Lists(flat[n], seqs, at, n)
    BY <2>8 DEF T
  <2>10. QED
    BY <2>1, <2>2, <2>3, <2>8, <2>9
<1>3. QED
  BY <1>1, <1>2

(* Without the order: what is in the whole is in a part.                   *)
In(seq, x) == \E k \in 1..Len(seq) : seq[k] = x

LEMMA FlattenEntries ==
  ASSUME NEW E, NEW seqs \in Seq(Seq(E)), NEW x
  PROVE  In(FlattenSeq(seqs), x) <=> \E i \in 1..Len(seqs) : In(seqs[i], x)
<1>1. PICK F : F = FlattenSeq(seqs)
  OBVIOUS
<1>2. PICK at : Lists(F, seqs, at, Len(seqs))
  BY <1>1, FlattenLists
<1>3. ASSUME NEW m \in 1..Len(F), F[m] = x PROVE \E i \in 1..Len(seqs) : In(seqs[i], x)
  <2>1. at[m] \in Cells(seqs, Len(seqs)) /\ F[m] = Entry(seqs, at[m])
    BY <1>2 DEF Lists
  <2>2. QED
    BY <1>3, <2>1 DEF Cells, Entry, In
<1>4. ASSUME NEW i \in 1..Len(seqs), NEW k \in 1..Len(seqs[i]), seqs[i][k] = x PROVE In(F, x)
  <2>1. <<i, k>> \in Cells(seqs, Len(seqs)) /\ Entry(seqs, <<i, k>>) = x
    BY <1>4 DEF Cells, Entry
  <2>2. QED
    BY <1>2, <2>1 DEF Lists, In
<1>5. QED
  BY <1>1, <1>3, <1>4 DEF In

(***************************************************************************)
(* What is kept of a sequence.                                             *)
(***************************************************************************)
LEMMA EntriesAreFinite == ASSUME NEW E, NEW seq \in Seq(E) PROVE IsFiniteSet(ToSet(seq)) /\ ToSet(seq) \subseteq E
<1>1. PICK n \in Nat : n = Len(seq)
  OBVIOUS
<1>2. DOMAIN seq = 1..n /\ seq \in [1..n -> E]
  BY <1>1
<1>3. ToSet(seq) = {seq[i] : i \in 1..n}
  BY <1>2 DEF ToSet
<1>4. IsFiniteSet(1..n)
  BY IntervalIsFinite
<1>5. seq \in Surjection(1..n, ToSet(seq))
  BY <1>2, <1>3 DEF Surjection
<1>6. IsFiniteSet(ToSet(seq))
  BY <1>4, <1>5, FS_Surjection
<1>7. QED
  BY <1>2, <1>3, <1>6

LEMMA PickedIn ==
  ASSUME NEW E, NEW seq \in Seq(E), NEW places \in SUBSET (1..Len(seq))
  PROVE  /\ Picked(seq, places) \in Seq(E)
         /\ \A x : In(Picked(seq, places), x) <=> \E i \in places : seq[i] = x
<1>1. PICK n \in Nat : n = Len(seq)
  OBVIOUS
<1>2. PICK t, c : t = Picked(seq, places) /\ c = Cardinality(places)
  OBVIOUS
<1>3. DOMAIN t = 1..c /\ Len(t) = c /\ c \in Nat
  BY <1>1, <1>2, PickedFacts
<1>4. PICK order \in Bijection(1..c, places) : \A i \in 1..c : t[i] = seq[order[i]]
  <2>1. places \in SUBSET (1..n)
    BY <1>1
  <2>2. \E o \in Bijection(1..Cardinality(places), places) :
          \A i \in 1..Cardinality(places) : Picked(seq, places)[i] = seq[o[i]]
    BY ONLY n \in Nat, <2>1, PickedFacts
  <2>3. QED
    BY ONLY <1>2, <2>2
<1>5. order \in [1..c -> places] /\ \A p \in places : \E i \in 1..c : order[i] = p
  BY <1>4 DEF Bijection, Injection, Surjection
<1>6. ASSUME NEW i \in 1..c PROVE t[i] \in E
  <2>1. order[i] \in places
    BY ONLY <1>5, i \in 1..c
  <2>2. \A k \in 1..Len(seq) : seq[k] \in E
    BY ONLY seq \in Seq(E)
  <2>3. order[i] \in 1..Len(seq)
    BY ONLY <2>1, places \in SUBSET (1..Len(seq))
  <2>4. seq[order[i]] \in E
    BY ONLY <2>2, <2>3
  <2>5. QED
    BY ONLY <1>4, <2>4, i \in 1..c
<1>7. t = [i \in 1..c |-> t[i]]
  <2>1. t = Each(Sorted(places), LAMBDA i : seq[i])
    BY <1>2 DEF Picked
  <2>2. t = [i \in DOMAIN t |-> t[i]]
    BY <2>1 DEF Each
  <2>3. QED
    BY <1>3, <2>2
<1>8. t \in Seq(E)
  BY <1>3, <1>6, <1>7
<1>9. ASSUME NEW x PROVE In(t, x) <=> \E i \in places : seq[i] = x
  <2>1. ASSUME NEW i \in 1..c, t[i] = x PROVE \E j \in places : seq[j] = x
    BY <1>4, <1>5, <2>1
  <2>2. ASSUME NEW j \in places, seq[j] = x PROVE \E i \in 1..c : t[i] = x
    <3>1. PICK i \in 1..c : order[i] = j
      BY <1>5
    <3>2. QED
      BY <1>4, <2>2, <3>1
  <2>3. QED
    BY <1>3, <2>1, <2>2 DEF In
<1>10. QED
  BY <1>2, <1>8, <1>9

LEMMA TakenIn ==
  ASSUME NEW E, NEW seq \in Seq(E), NEW n \in Nat
  PROVE  /\ Take(seq, n) \in Seq(E) /\ Len(Take(seq, n)) = (IF n <= Len(seq) THEN n ELSE Len(seq))
         /\ \A x : In(Take(seq, n), x) => In(seq, x)
         /\ Len(seq) <= n => Take(seq, n) = seq
<1>1. PICK t : t = Take(seq, n)
  OBVIOUS
<1>2. FirstOf(t, seq, n)
  BY <1>1, Taken
<1>3. Len(t) = (IF n <= Len(seq) THEN n ELSE Len(seq)) /\ DOMAIN t = 1..Len(t) /\ \A i \in 1..Len(t) : t[i] = seq[i]
  BY <1>2 DEF FirstOf
<1>4. PICK m : m = Min({n, Len(seq)})
  OBVIOUS
<1>5. m = (IF n <= Len(seq) THEN n ELSE Len(seq)) /\ m \in Nat /\ m <= Len(seq) /\ Len(seq) \in Nat
  BY <1>4, LesserOfTwo
<1>6. t = SubSeq(seq, 1, m)
  BY <1>1, <1>4 DEF Take
<1>7. t \in Seq(E) /\ Len(t) = m
  BY ONLY <1>5, <1>6, seq \in Seq(E)
<1>8. \A x : In(t, x) => In(seq, x)
  <2>1. \A i \in 1..Len(t) : i \in 1..Len(seq)
    BY <1>5, <1>7
  <2>2. QED
    BY <1>3, <2>1 DEF In
<1>9. ASSUME Len(seq) <= n PROVE t = seq
  <2>1. m = Len(seq)
    BY <1>5, <1>9
  <2>2. QED
    BY ONLY <1>6, <2>1, seq \in Seq(E)
<1>10. QED
  BY <1>1, <1>3, <1>7, <1>8, <1>9

LEMMA PermutedIn ==
  ASSUME NEW E, NEW seq \in Seq(E), NEW t, Permutes(t, seq, Len(seq)), t = [i \in DOMAIN t |-> t[i]]
  PROVE  t \in Seq(E) /\ Len(t) = Len(seq) /\ \A x : In(t, x) <=> In(seq, x)
<1>1. PICK n \in Nat : n = Len(seq)
  OBVIOUS
<1>2. DOMAIN t = 1..n /\ Len(t) = n
  BY <1>1 DEF Permutes
<1>3. PICK order \in Bijection(1..n, 1..n) : \A i \in 1..n : t[i] = seq[order[i]]
  BY <1>1 DEF Permutes
<1>4. order \in [1..n -> 1..n] /\ \A p \in 1..n : \E i \in 1..n : order[i] = p
  BY <1>3 DEF Bijection, Injection, Surjection
<1>5. \A i \in 1..n : seq[i] \in E
  BY <1>1
<1>6. \A i \in 1..n : t[i] \in E
  BY <1>3, <1>4, <1>5
<1>7. t \in Seq(E)
  BY <1>2, <1>6
<1>8. ASSUME NEW x PROVE In(t, x) <=> In(seq, x)
  <2>1. ASSUME NEW i \in 1..n, t[i] = x PROVE \E j \in 1..n : seq[j] = x
    BY <1>3, <1>4, <2>1
  <2>2. ASSUME NEW j \in 1..n, seq[j] = x PROVE \E i \in 1..n : t[i] = x
    <3>1. PICK i \in 1..n : order[i] = j
      BY <1>4
    <3>2. QED
      BY <1>3, <2>2, <3>1
  <2>3. QED
    BY <1>1, <1>2, <2>1, <2>2 DEF In
<1>9. QED
  BY <1>1, <1>2, <1>7, <1>8

(***************************************************************************)
(* The order of findings.                                                  *)
(***************************************************************************)
LEMMA KeysAreInts == ASSUME NEW k \in Seq(Nat) PROVE k \in Seq(Int)
<1>1. PICK n \in Nat : n = Len(k)
  OBVIOUS
<1>2. k \in [1..n -> Nat]
  BY <1>1
<1>3. k \in [1..n -> Int]
  BY <1>2
<1>4. QED
  BY <1>3

Ranked(x) == x.severity \in Int /\ x.confidence \in Int /\ x.key \in Seq(Int)

LEMMA FindingsAreRanked == ASSUME NEW x \in AllFindings PROVE Ranked(x)
<1>1. x.severity \in Int /\ x.confidence \in Int /\ x.key \in Seq(Nat)
  BY DEF AllFindings, Info, Warn, Error
<1>2. QED
  BY <1>1, KeysAreInts DEF Ranked

LEMMA BeforeOnce == ASSUME NEW x, NEW y, Ranked(x), Ranked(y), Before(x, y) PROVE ~Before(y, x)
<1>1. PICK kx \in Seq(Int), ky \in Seq(Int), sx \in Int, sy \in Int, cx \in Int, cy \in Int :
        kx = x.key /\ ky = y.key /\ sx = x.severity /\ sy = y.severity /\ cx = x.confidence /\ cy = y.confidence
  BY DEF Ranked
<1>2. KeyLess(kx, ky) => ~KeyLess(ky, kx)
  BY KeyLessStrict
<1>3. /\ Before(x, y) <=> sx > sy \/ (sx = sy /\ cx > cy) \/ (sx = sy /\ cx = cy /\ KeyLess(kx, ky))
      /\ Before(y, x) <=> sy > sx \/ (sy = sx /\ cy > cx) \/ (sy = sx /\ cy = cx /\ KeyLess(ky, kx))
  BY <1>1 DEF Before
<1>4. QED
  BY <1>2, <1>3

LEMMA BeforeOrAfter ==
  ASSUME NEW x, NEW y, NEW z, Ranked(x), Ranked(y), Ranked(z), Before(x, y)
  PROVE  Before(x, z) \/ Before(z, y)
<1>1. PICK kx \in Seq(Int), ky \in Seq(Int), kz \in Seq(Int), sx \in Int, sy \in Int, sz \in Int, cx \in Int, cy \in Int, cz \in Int :
        /\ kx = x.key /\ ky = y.key /\ kz = z.key /\ sx = x.severity /\ sy = y.severity /\ sz = z.severity
        /\ cx = x.confidence /\ cy = y.confidence /\ cz = z.confidence
  BY DEF Ranked
<1>2. KeyLess(kx, ky) => KeyLess(kx, kz) \/ KeyLess(kz, ky)
  <2>1. SUFFICES ASSUME KeyLess(kx, ky), ~KeyLess(kx, kz) PROVE KeyLess(kz, ky)
    OBVIOUS
  <2>2. kx = kz \/ KeyLess(kz, kx)
    BY <2>1, KeyLessTotal
  <2>3. QED
    BY <2>1, <2>2, KeyLessTransitive
<1>3. /\ Before(x, y) <=> sx > sy \/ (sx = sy /\ cx > cy) \/ (sx = sy /\ cx = cy /\ KeyLess(kx, ky))
      /\ Before(x, z) <=> sx > sz \/ (sx = sz /\ cx > cz) \/ (sx = sz /\ cx = cz /\ KeyLess(kx, kz))
      /\ Before(z, y) <=> sz > sy \/ (sz = sy /\ cz > cy) \/ (sz = sy /\ cz = cy /\ KeyLess(kz, ky))
  BY <1>1 DEF Before
<1>4. QED
  BY <1>2, <1>3

(* The stable sort by Before neither loses nor makes a finding.            *)
LEMMA ArrangedIn ==
  ASSUME NEW fs \in Seq(AllFindings)
  PROVE  /\ Arranged(fs, Before) \in Seq(AllFindings) /\ Len(Arranged(fs, Before)) = Len(fs)
         /\ \A x : In(Arranged(fs, Before), x) <=> In(fs, x)
<1>1. PICK n \in Nat : n = Len(fs) /\ DOMAIN fs = 1..n
  OBVIOUS
<1>2. PICK L, t : L = BeforePairs(fs, n) /\ t = Arranged(fs, Before)
  OBVIOUS
<1>3. t = ByPlaces(fs, n, L)
  BY <1>1, <1>2, BeforeByPlaces
<1>4. \A i \in 1..n : Ranked(fs[i])
  BY <1>1, FindingsAreRanked
<1>5. \A i, j \in 1..n : <<i, j>> \in L <=> Before(fs[i], fs[j])
  BY <1>2 DEF BeforePairs
<1>6. WeakOrder(L, 1..n)
  <2>1. ASSUME NEW i \in 1..n, NEW j \in 1..n, <<i, j>> \in L PROVE <<j, i>> \notin L
    BY <1>4, <1>5, <2>1, BeforeOnce
  <2>2. ASSUME NEW i \in 1..n, NEW j \in 1..n, NEW k \in 1..n, <<i, j>> \in L PROVE <<i, k>> \in L \/ <<k, j>> \in L
    BY <1>4, <1>5, <2>2, BeforeOrAfter
  <2>3. QED
    BY <2>1, <2>2 DEF WeakOrder
<1>7. Permutes(t, fs, n)
  BY ONLY n \in Nat, <1>3, <1>6, PlacesPermute
<1>8. t = [i \in DOMAIN t |-> t[i]]
  BY <1>3 DEF ByPlaces
<1>9. Permutes(t, fs, Len(fs))
  BY <1>1, <1>7
<1>10. t \in Seq(AllFindings) /\ Len(t) = Len(fs) /\ \A x : In(t, x) <=> In(fs, x)
  BY ONLY fs \in Seq(AllFindings), <1>8, <1>9, PermutedIn
<1>11. QED
  BY ONLY <1>2, <1>10

LEMMA IdsAreNumbers ==
  SymbolsPerFile \in Nat /\ (\A f \in Nat : SymbolsPerFile * f \in Nat) /\ \A f, s \in Nat : SymbolsPerFile * f + s \in Nat
<1>1. \A a, b \in Nat : a * b \in Nat
  OBVIOUS
<1>2. \A a, b \in Nat : a + b \in Nat
  OBVIOUS
<1>3. SymbolsPerFile \in Nat
  BY SymbolsAssumption
<1>4. QED
  BY ONLY <1>1, <1>2, <1>3, Zenon

LEMMA PairKeyIs == ASSUME NEW files \in Seq(Nat), NEW symbols \in Seq(Nat) PROVE PairKey(files, symbols) \in Seq(Nat)
<1> DEFINE begins == [i \in DOMAIN files |-> SymbolsPerFile * files[i]]
<1>1. begins \in Seq(Nat)
  <2>1. PICK n \in Nat : n = Len(files) /\ DOMAIN files = 1..n
    OBVIOUS
  <2>2. ASSUME NEW i \in 1..n PROVE SymbolsPerFile * files[i] \in Nat
    <3>1. files[i] \in Nat
      BY <2>1
    <3>2. QED
      BY <3>1, IdsAreNumbers
  <2>3. begins \in [1..n -> Nat]
    BY <2>1, <2>2
  <2>4. QED
    BY <2>3
<1>2. PICK s \in Seq(Nat) : s = begins \o symbols
  <2> HIDE DEF begins
  <2>1. begins \o symbols \in Seq(Nat)
    BY ONLY <1>1, symbols \in Seq(Nat)
  <2>2. QED
    BY <2>1
<1>3. PICK n \in Nat : n = Len(s) /\ DOMAIN s = 1..n /\ \A i \in 1..n : s[i] \in Nat
  OBVIOUS
<1> DEFINE Ahead(i, j) == s[i] < s[j] \/ (~(s[j] < s[i]) /\ i < j)
<1>4. PICK L, S, R : L = {p \in (1..n) \X (1..n) : s[p[1]] < s[p[2]]} /\ S = 1..n /\ R = Stable(L, n)
  OBVIOUS
<1>5. PICK e : e = [i \in 1..Cardinality(S) |-> CHOOSE x \in S : Cardinality({y \in S : Ahead(y, x)}) = i - 1]
  OBVIOUS
<1>6. PairKey(files, symbols) = [k \in DOMAIN e |-> s[e[k]]]
  <2>1. PairKey(files, symbols) = Arranged(s, <)
    BY <1>2 DEF PairKey
  <2>2. Arranged(s, <) = [k \in DOMAIN e |-> s[e[k]]]
    <3>1. DOMAIN s = S
      BY <1>3, <1>4
    <3>2. QED
      BY <1>5, <3>1 DEF Arranged, Each, SortedBy
  <2>3. QED
    BY ONLY <2>1, <2>2
<1>7. \A x, y \in S : <<y, x>> \in R <=> Ahead(y, x)
  BY <1>4 DEF Stable
<1> HIDE DEF Ahead
<1>8. \A x \in S : {y \in S : Ahead(y, x)} = {y \in S : <<y, x>> \in R}
  BY <1>7
<1>9. \A i : (CHOOSE x \in S : Cardinality({y \in S : Ahead(y, x)}) = i - 1)
             = (CHOOSE x \in S : Cardinality({y \in S : <<y, x>> \in R}) = i - 1)
  BY <1>8, Zenon
<1>10. e = InOrder(S, R)
  <2> DEFINE At(i) == CHOOSE x \in S : Cardinality({y \in S : Ahead(y, x)}) = i - 1
             To(i) == CHOOSE x \in S : Cardinality({y \in S : <<y, x>> \in R}) = i - 1
  <2>1. e = [i \in 1..Cardinality(S) |-> At(i)] /\ InOrder(S, R) = [i \in 1..Cardinality(S) |-> To(i)]
    BY <1>5 DEF InOrder
  <2>2. \A i : At(i) = To(i)
    BY <1>9
  <2> HIDE DEF At, To
  <2>3. QED
    BY <2>1, <2>2
<1>11. WeakOrder(L, 1..n)
  <2>1. \A i, j \in 1..n : <<i, j>> \in L <=> s[i] < s[j]
    BY <1>4
  <2>2. \A i, j \in 1..n : <<i, j>> \in L => <<j, i>> \notin L
    BY <1>3, <2>1
  <2>3. ASSUME NEW i \in 1..n, NEW j \in 1..n, NEW k \in 1..n, <<i, j>> \in L PROVE <<i, k>> \in L \/ <<k, j>> \in L
    <3>1. s[i] \in Nat /\ s[j] \in Nat /\ s[k] \in Nat /\ s[i] < s[j]
      BY <1>3, <2>1, <2>3
    <3>2. s[i] < s[k] \/ s[k] < s[j]
      BY <3>1
    <3>3. QED
      BY <2>1, <3>2
  <2>4. QED
    BY <2>2, <2>3 DEF WeakOrder
<1>12. EnumeratesBy(e, 1..n, R)
  BY <1>4, <1>10, <1>11, IntervalIsFinite, StableIsStrict, Enumeration
<1>13. e \in [1..n -> 1..n]
  BY <1>12, IntervalIsFinite DEF EnumeratesBy, Bijection, Injection
<1>14. PairKey(files, symbols) \in [1..n -> Nat]
  BY <1>3, <1>6, <1>13
<1>15. QED
  BY <1>14

(***************************************************************************)
(* The duplicates in a list of rows.                                       *)
(***************************************************************************)
(* The rows that agree with the i-th in a field, in their order.            *)
Alike(rows, field, i) == Picked(rows, {j \in 1..Len(rows) : rows[j][field] = rows[i][field]})

LEMMA BucketsAre ==
  ASSUME NEW E, NEW rows \in Seq(E), NEW field
  PROVE  /\ Buckets(rows, field) \in Seq(Seq(E))
         /\ \A b : In(Buckets(rows, field), b) <=> \E i \in 1..Len(rows) : b = Alike(rows, field, i)
<1> DEFINE Bucket(i) == Kept(rows, LAMBDA p : p[field] = rows[i][field])
<1>1. PICK n \in Nat : n = Len(rows) /\ DOMAIN rows = 1..n
  OBVIOUS
<1>2. PICK first : first = {i \in 1..n : \A j \in 1..(i - 1) : rows[j][field] # rows[i][field]}
  OBVIOUS
<1>3. PICK places : places = Sorted(first)
  OBVIOUS
<1>4. Buckets(rows, field) = [k \in DOMAIN places |-> Bucket(places[k])]
  <2> DEFINE F == {i \in DOMAIN rows : \A j \in 1..(i - 1) : rows[j][field] # rows[i][field]}
  <2>1. Buckets(rows, field) = [k \in DOMAIN Sorted(F) |-> Bucket(Sorted(F)[k])]
    BY DEF Buckets, Each
  <2>2. F = first
    BY <1>1, <1>2
  <2> HIDE DEF Bucket, F
  <2>3. QED
    BY <1>3, <2>1, <2>2
<1>5. ASSUME NEW i \in 1..n PROVE Bucket(i) = Alike(rows, field, i)
  BY <1>1 DEF Kept, Alike
<1> HIDE DEF Bucket
<1>6. first \in SUBSET Int /\ IsFiniteSet(first)
  <2>1. first \subseteq 1..n
    BY <1>2
  <2>2. IsFiniteSet(first)
    BY ONLY <2>1, n \in Nat, IntervalIsFinite, FS_Subset
  <2>3. QED
    BY <2>1, <2>2
<1>7. PICK c \in Nat : /\ places \in Seq(first) /\ Len(places) = c /\ DOMAIN places = 1..c
                       /\ \A x \in first : \E i \in 1..c : places[i] = x
  <2>1. /\ Cardinality(first) \in Nat
        /\ Sorted(first) \in Seq(first) /\ Len(Sorted(first)) = Cardinality(first)
        /\ \A x \in first : \E i \in 1..Len(Sorted(first)) : Sorted(first)[i] = x
    BY ONLY <1>6, SortedFacts
  <2>2. DOMAIN places = 1..Len(places)
    BY <1>3, <2>1
  <2>3. QED
    BY ONLY <1>3, <2>1, <2>2
<1>8. \A k \in 1..c : places[k] \in first /\ places[k] \in 1..n
  BY <1>2, <1>7
<1>9. Buckets(rows, field) = [k \in 1..c |-> Alike(rows, field, places[k])]
  <2>1. \A k \in 1..c : Bucket(places[k]) = Alike(rows, field, places[k])
    BY <1>5, <1>8
  <2>2. QED
    BY <1>4, <1>7, <2>1
<1>10. ASSUME NEW i \in 1..n PROVE Alike(rows, field, i) \in Seq(E)
  <2>1. {j \in 1..Len(rows) : rows[j][field] = rows[i][field]} \in SUBSET (1..Len(rows))
    OBVIOUS
  <2>2. QED
    BY ONLY <2>1, rows \in Seq(E), PickedIn DEF Alike
<1>11. Buckets(rows, field) \in Seq(Seq(E)) /\ Len(Buckets(rows, field)) = c
  <2>1. Buckets(rows, field) \in [1..c -> Seq(E)]
    BY <1>8, <1>9, <1>10
  <2>2. QED
    BY <2>1, <1>9
<1>12. ASSUME NEW i \in 1..n PROVE \E k \in 1..c : Alike(rows, field, places[k]) = Alike(rows, field, i)
  <2> DEFINE T == {j \in 1..n : rows[j][field] = rows[i][field]}
  <2>1. PICK m \in T : \A j \in T : m <= j
    <3>1. i \in T /\ T \subseteq 1..n
      OBVIOUS
    <3>2. T \in SUBSET Nat /\ T # {}
      <4> HIDE DEF T
      <4>1. QED
        BY <3>1
    <3> HIDE DEF T
    <3>3. QED
      BY ONLY <3>2, SmallestOf
  <2>2. m \in first
    <3>1. m \in 1..n /\ \A j \in 1..(m - 1) : j \in 1..n /\ j \notin T
      BY <2>1
    <3>2. \A j \in 1..(m - 1) : rows[j][field] # rows[m][field]
      BY <2>1, <3>1
    <3>3. QED
      BY <1>2, <3>1, <3>2
  <2>3. PICK k \in 1..c : places[k] = m
    BY <1>7, <2>2
  <2>4. Alike(rows, field, m) = Alike(rows, field, i)
    BY <2>1 DEF Alike
  <2>5. QED
    BY <2>3, <2>4
<1>13. ASSUME NEW b PROVE In(Buckets(rows, field), b) <=> \E i \in 1..n : b = Alike(rows, field, i)
  <2>1. ASSUME NEW k \in 1..c, b = Alike(rows, field, places[k]) PROVE \E i \in 1..n : b = Alike(rows, field, i)
    BY <1>8, <2>1
  <2>2. ASSUME NEW i \in 1..n, b = Alike(rows, field, i) PROVE \E k \in 1..c : Alike(rows, field, places[k]) = b
    BY <1>12, <2>2
  <2>3. \A k \in 1..c : Buckets(rows, field)[k] = Alike(rows, field, places[k])
    BY <1>9
  <2>4. QED
    BY <1>11, <2>1, <2>2, <2>3 DEF In
<1>14. QED
  BY <1>1, <1>11, <1>13

(* Rows of functions and types, of any files.                              *)
Rows(X) == UNION {Prints(f) : f \in X}
TypeRows(X) == UNION {Shapes(f) : f \in X}

LEMMA SymbolIds ==
  ASSUME NEW X \in SUBSET Nat, NEW b \in Seq(Rows(X) \cup TypeRows(X))
  PROVE  /\ Each(b, SymbolId) \in Seq(Nat) /\ Len(Each(b, SymbolId)) = Len(b)
         /\ Each(b, LAMBDA p : p.file) \in Seq(X)
         /\ Distinct(b) \in Seq(Nat)
<1>1. PICK n \in Nat : n = Len(b) /\ DOMAIN b = 1..n
  OBVIOUS
<1>2. ASSUME NEW r \in Rows(X) \cup TypeRows(X) PROVE r.file \in X /\ r.symbol \in 0..(SymbolsPerFile - 1)
  <2>1. PICK f \in X : r \in Prints(f) \/ r \in Shapes(f)
    BY DEF Rows, TypeRows
  <2>2. QED
    BY <2>1 DEF Prints, Shapes
<1>3. \A i \in 1..n : b[i].file \in X /\ b[i].symbol \in 0..(SymbolsPerFile - 1)
  BY <1>1, <1>2
<1>4. ASSUME NEW i \in 1..n PROVE SymbolId(b[i]) \in Nat
  <2>1. b[i].file \in X /\ b[i].symbol \in 0..(SymbolsPerFile - 1)
    BY <1>3
  <2>2. b[i].file \in Nat
    BY <2>1
  <2>3. b[i].symbol \in Nat
    BY <2>1, SymbolsAssumption
  <2>4. QED
    BY <2>2, <2>3, IdsAreNumbers DEF SymbolId
<1>5. Each(b, SymbolId) = [i \in 1..n |-> SymbolId(b[i])]
  BY <1>1 DEF Each
<1>6. Each(b, SymbolId) \in [1..n -> Nat]
  BY <1>4, <1>5
<1>7. Each(b, SymbolId) \in Seq(Nat) /\ Len(Each(b, SymbolId)) = n
  BY <1>6
<1>8. Each(b, LAMBDA p : p.file) \in [1..n -> X]
  BY <1>1, <1>3 DEF Each
<1>9. Each(b, LAMBDA p : p.file) \in Seq(X)
  BY <1>8
<1>10. Distinct(b) \in Seq(Nat)
  <2>1. PICK s \in Seq(Nat) : s = Each(b, SymbolId)
    BY <1>7
  <2>2. IsFiniteSet(ToSet(s)) /\ ToSet(s) \in SUBSET Nat
    BY EntriesAreFinite
  <2>3. ToSet(s) \in SUBSET Int
    BY <2>2
  <2>4. Sorted(ToSet(s)) \in Seq(ToSet(s))
    BY ONLY <2>2, <2>3, SortedFacts
  <2>5. Distinct(b) = Sorted(ToSet(s))
    BY <2>1 DEF Distinct, SortUniq
  <2>6. PICK t, T : t = Sorted(ToSet(s)) /\ T = ToSet(s)
    OBVIOUS
  <2>7. t \in Seq(Nat)
    <3>1. t \in Seq(T) /\ T \subseteq Nat
      BY <2>2, <2>4, <2>6
    <3>2. t \in [1..Len(t) -> T] /\ Len(t) \in Nat
      BY <3>1
    <3>3. t \in [1..Len(t) -> Nat]
      BY <3>1, <3>2
    <3>4. QED
      BY <3>2, <3>3
  <2>8. QED
    BY <2>5, <2>6, <2>7
<1>11. QED
  BY <1>1, <1>7, <1>9, <1>10

LEMMA FilesSorted ==
  ASSUME NEW X \in SUBSET Nat, NEW s \in Seq(X)
  PROVE  SortUniq(s) \in Seq(Nat) /\ \A i \in 1..Len(SortUniq(s)) : SortUniq(s)[i] \in X
<1>1. PICK T : T = ToSet(s)
  OBVIOUS
<1>2. IsFiniteSet(T) /\ T \subseteq X
  BY <1>1, EntriesAreFinite
<1>3. T \in SUBSET Int
  BY <1>2
<1>4. PICK t : t = Sorted(T)
  OBVIOUS
<1>5. t \in Seq(T)
  BY ONLY <1>2, <1>3, <1>4, SortedFacts
<1>6. t \in [1..Len(t) -> T] /\ Len(t) \in Nat
  BY <1>5
<1>7. t \in [1..Len(t) -> Nat] /\ \A i \in 1..Len(t) : t[i] \in X
  BY <1>2, <1>6
<1>8. t \in Seq(Nat)
  BY <1>6, <1>7
<1>9. QED
  BY <1>1, <1>4, <1>7, <1>8 DEF SortUniq

LEMMA Joined ==
  ASSUME NEW E, NEW s \in Seq(E), NEW t \in Seq(E)
  PROVE  s \o t \in Seq(E) /\ Len(s \o t) = Len(s) + Len(t)
OBVIOUS

LEMMA CloneIsFinding ==
  ASSUME NEW severity \in {Info, Warn, Error}, NEW confidence \in Int, NEW files \in Seq(Nat), NEW symbols \in Seq(Nat),
         NEW detector \in Nat
  PROVE  SemanticClone(severity, confidence, files, symbols, detector) \in AllFindings
<1>1. PICK k \in Seq(Nat) : k = PairKey(files, symbols)
  BY PairKeyIs
<1>2. <<4, detector>> \in Seq(Nat)
  OBVIOUS
<1>3. <<4, detector>> \o k \in Seq(Nat)
  BY ONLY <1>2, k \in Seq(Nat), Joined
<1>4. {} \in SUBSET Files
  OBVIOUS
<1>5. QED
  BY <1>1, <1>3, <1>4 DEF SemanticClone, AllFindings

(* The detectors of copies, by what they report.                           *)
ExactOf(b) ==
  LET files == SortUniq(Each(b, LAMBDA p : p.file))
  IN SemanticClone(IF Len(files) > 2 THEN Error ELSE Warn, 99, files, Each(b, SymbolId), 1)
TypeOf(b) ==
  [kind |-> "type_shape_duplicate", severity |-> Warn, confidence |-> 93, files |-> <<>>,
   symbols |-> Distinct(b), callers |-> {}, key |-> <<6>> \o Distinct(b)]
Big(prints) == Kept(prints, BigEnough)
Loud(shapes) == Kept(shapes, LAMBDA s : ~s.suppressed)
Twofold(rows, field) == Kept(Buckets(rows, field), LAMBDA b : Len(Distinct(b)) >= 2)
ExactReports(prints) == Each(Twofold(Big(prints), "tokens"), ExactOf)
TypeReports(shapes) == Each(Twofold(Loud(shapes), "members"), TypeOf)

LEMMA TwofoldAre ==
  ASSUME NEW E, NEW rows \in Seq(E), NEW field
  PROVE  /\ Twofold(rows, field) \in Seq(Seq(E))
         /\ \A b : In(Twofold(rows, field), b)
                   <=> \E i \in 1..Len(rows) : b = Alike(rows, field, i) /\ Len(Distinct(Alike(rows, field, i))) >= 2
<1>1. PICK bs : bs = Buckets(rows, field)
  OBVIOUS
<1>2. bs \in Seq(Seq(E)) /\ \A b : In(bs, b) <=> \E i \in 1..Len(rows) : b = Alike(rows, field, i)
  BY <1>1, BucketsAre
<1>3. PICK places : places = {k \in 1..Len(bs) : Len(Distinct(bs[k])) >= 2}
  OBVIOUS
<1>4. places \in SUBSET (1..Len(bs))
  BY <1>3
<1>5. Twofold(rows, field) = Picked(bs, places)
  <2>1. DOMAIN bs = 1..Len(bs)
    BY <1>2
  <2>2. QED
    BY <1>1, <1>3, <2>1 DEF Twofold, Kept
<1>6. Picked(bs, places) \in Seq(Seq(E)) /\ \A x : In(Picked(bs, places), x) <=> \E k \in places : bs[k] = x
  <2>1. PICK D : D = Seq(E)
    OBVIOUS
  <2>2. bs \in Seq(D)
    BY <1>2, <2>1
  <2>3. Picked(bs, places) \in Seq(D) /\ \A x : In(Picked(bs, places), x) <=> \E k \in places : bs[k] = x
    BY ONLY <1>4, <2>2, PickedIn
  <2>4. QED
    BY <2>1, <2>3
<1>7. ASSUME NEW b
      PROVE  (\E k \in places : bs[k] = b)
             <=> \E i \in 1..Len(rows) : b = Alike(rows, field, i) /\ Len(Distinct(Alike(rows, field, i))) >= 2
  <2>1. (\E k \in places : bs[k] = b) <=> In(bs, b) /\ Len(Distinct(b)) >= 2
    BY <1>3 DEF In
  <2>2. QED
    BY <1>2, <2>1
<1>8. QED
  BY <1>5, <1>6, <1>7

LEMMA KeptRows ==
  ASSUME NEW E, NEW prints \in Seq(E)
  PROVE  Big(prints) \in Seq(E) /\ \A x : In(Big(prints), x) <=> In(prints, x) /\ BigEnough(x)
<1>1. PICK places : places = {i \in 1..Len(prints) : BigEnough(prints[i])}
  OBVIOUS
<1>2. places \in SUBSET (1..Len(prints)) /\ DOMAIN prints = 1..Len(prints)
  BY <1>1
<1>3. Big(prints) = Picked(prints, places)
  BY <1>1, <1>2 DEF Big, Kept
<1>4. Picked(prints, places) \in Seq(E) /\ \A x : In(Picked(prints, places), x) <=> \E i \in places : prints[i] = x
  BY ONLY <1>2, prints \in Seq(E), PickedIn
<1>5. \A x : (\E i \in places : prints[i] = x) <=> In(prints, x) /\ BigEnough(x)
  BY <1>1 DEF In
<1>6. QED
  BY <1>3, <1>4, <1>5

LEMMA LoudRows ==
  ASSUME NEW E, NEW shapes \in Seq(E)
  PROVE  Loud(shapes) \in Seq(E) /\ \A x : In(Loud(shapes), x) <=> In(shapes, x) /\ ~x.suppressed
<1>1. PICK places : places = {i \in 1..Len(shapes) : ~shapes[i].suppressed}
  OBVIOUS
<1>2. places \in SUBSET (1..Len(shapes)) /\ DOMAIN shapes = 1..Len(shapes)
  BY <1>1
<1>3. Loud(shapes) = Picked(shapes, places)
  BY <1>1, <1>2 DEF Loud, Kept
<1>4. Picked(shapes, places) \in Seq(E) /\ \A x : In(Picked(shapes, places), x) <=> \E i \in places : shapes[i] = x
  BY ONLY <1>2, shapes \in Seq(E), PickedIn
<1>5. \A x : (\E i \in places : shapes[i] = x) <=> In(shapes, x) /\ ~x.suppressed
  BY <1>1 DEF In
<1>6. QED
  BY <1>3, <1>4, <1>5

LEMMA ExactAre ==
  ASSUME NEW X \in SUBSET Nat, NEW prints \in Seq(Rows(X)), NEW max \in Nat
  PROVE  /\ ExactReports(prints) \in Seq(AllFindings)
         /\ DetectExact(prints, max) = Take(ExactReports(prints), IF max >= 1 THEN max ELSE 1)
         /\ \A x : In(ExactReports(prints), x)
                   <=> \E i \in 1..Len(Big(prints)) : /\ x = ExactOf(Alike(Big(prints), "tokens", i))
                                                      /\ Len(Distinct(Alike(Big(prints), "tokens", i))) >= 2
<1>1. PICK big, bs : big = Big(prints) /\ bs = Twofold(big, "tokens")
  OBVIOUS
<1>2. PICK E : E = Rows(X)
  OBVIOUS
<1>3. big \in Seq(E)
  BY <1>1, <1>2, KeptRows
<1>4. bs \in Seq(Seq(E)) /\ \A b : In(bs, b) <=> \E i \in 1..Len(big) : b = Alike(big, "tokens", i) /\ Len(Distinct(Alike(big, "tokens", i))) >= 2
  BY <1>1, <1>3, TwofoldAre
<1>5. PICK n \in Nat : n = Len(bs) /\ DOMAIN bs = 1..n /\ \A k \in 1..n : bs[k] \in Seq(E)
  BY <1>4
<1>6. ASSUME NEW b \in Seq(E) PROVE ExactOf(b) \in AllFindings
  <2>1. b \in Seq(Rows(X) \cup TypeRows(X))
    <3>1. Len(b) \in Nat /\ b \in [1..Len(b) -> E]
      OBVIOUS
    <3>2. b \in [1..Len(b) -> Rows(X) \cup TypeRows(X)]
      BY <1>2, <3>1
    <3>3. QED
      BY <3>1, <3>2
  <2>2. PICK s \in Seq(Nat) : s = Each(b, SymbolId)
    BY <2>1, SymbolIds
  <2>3. PICK fs \in Seq(X) : fs = Each(b, LAMBDA p : p.file)
    BY <2>1, SymbolIds
  <2>4. PICK files \in Seq(Nat) : files = SortUniq(fs)
    BY FilesSorted
  <2>5. PICK sev \in {Info, Warn, Error} : sev = IF Len(files) > 2 THEN Error ELSE Warn
    OBVIOUS
  <2>6. ExactOf(b) = SemanticClone(sev, 99, files, s, 1)
    BY <2>2, <2>3, <2>4, <2>5 DEF ExactOf
  <2>7. 99 \in Int /\ 1 \in Nat
    OBVIOUS
  <2>8. QED
    BY <2>6, <2>7, CloneIsFinding
<1>7. PICK reps : reps = [k \in 1..n |-> ExactOf(bs[k])]
  OBVIOUS
<1>8. ExactReports(prints) = reps
  BY <1>1, <1>5, <1>7 DEF ExactReports, Each
<1>9. reps \in Seq(AllFindings) /\ Len(reps) = n /\ \A k \in 1..n : reps[k] = ExactOf(bs[k])
  <2>1. reps \in [1..n -> AllFindings]
    BY <1>5, <1>6, <1>7
  <2>2. QED
    BY <1>7, <2>1
<1>10. DetectExact(prints, max) = Take(reps, IF max >= 1 THEN max ELSE 1)
  <2>1. Max({max, 1}) = IF max >= 1 THEN max ELSE 1
    <3>1. max \in Int /\ 1 \in Int
      OBVIOUS
    <3>2. QED
      BY ONLY <3>1, GreaterOfTwo
  <2>2. DetectExact(prints, max) = Take(Each(bs, ExactOf), Max({max, 1}))
    BY <1>1 DEF DetectExact, ExactOf, Twofold, Big, Each
  <2>3. Each(bs, ExactOf) = reps
    BY <1>5, <1>7 DEF Each
  <2>4. QED
    BY ONLY <2>1, <2>2, <2>3
<1>11. ASSUME NEW x
       PROVE  In(reps, x) <=> \E i \in 1..Len(big) : x = ExactOf(Alike(big, "tokens", i)) /\ Len(Distinct(Alike(big, "tokens", i))) >= 2
  <2>1. In(reps, x) <=> \E b : In(bs, b) /\ x = ExactOf(b)
    BY <1>5, <1>9 DEF In
  <2>2. QED
    BY <1>4, <2>1
<1>12. QED
  BY <1>1, <1>8, <1>9, <1>10, <1>11

LEMMA TypesAre ==
  ASSUME NEW X \in SUBSET Nat, NEW shapes \in Seq(TypeRows(X)), NEW max \in Nat
  PROVE  /\ TypeReports(shapes) \in Seq(AllFindings)
         /\ DetectTypes(shapes, max) = Take(TypeReports(shapes), IF max >= 1 THEN max ELSE 1)
         /\ \A x : In(TypeReports(shapes), x)
                   <=> \E i \in 1..Len(Loud(shapes)) : /\ x = TypeOf(Alike(Loud(shapes), "members", i))
                                                       /\ Len(Distinct(Alike(Loud(shapes), "members", i))) >= 2
<1>1. PICK loud, bs : loud = Loud(shapes) /\ bs = Twofold(loud, "members")
  OBVIOUS
<1>2. PICK E : E = TypeRows(X)
  OBVIOUS
<1>3. loud \in Seq(E)
  BY <1>1, <1>2, LoudRows
<1>4. bs \in Seq(Seq(E)) /\ \A b : In(bs, b) <=> \E i \in 1..Len(loud) : b = Alike(loud, "members", i) /\ Len(Distinct(b)) >= 2
  BY <1>1, <1>3, TwofoldAre
<1>5. PICK n \in Nat : n = Len(bs) /\ DOMAIN bs = 1..n /\ \A k \in 1..n : bs[k] \in Seq(E)
  BY <1>4
<1>6. ASSUME NEW b \in Seq(E) PROVE TypeOf(b) \in AllFindings
  <2>1. b \in Seq(Rows(X) \cup TypeRows(X))
    <3>1. Len(b) \in Nat /\ b \in [1..Len(b) -> E]
      OBVIOUS
    <3>2. b \in [1..Len(b) -> Rows(X) \cup TypeRows(X)]
      BY <1>2, <3>1
    <3>3. QED
      BY <3>1, <3>2
  <2>2. PICK s \in Seq(Nat) : s = Distinct(b)
    BY <2>1, SymbolIds
  <2>3. <<6>> \in Seq(Nat)
    OBVIOUS
  <2>4. <<6>> \o s \in Seq(Nat)
    BY ONLY <2>3, s \in Seq(Nat), Joined
  <2>5. QED
    BY <2>2, <2>4 DEF TypeOf, AllFindings
<1>7. PICK reps : reps = [k \in 1..n |-> TypeOf(bs[k])]
  OBVIOUS
<1>8. TypeReports(shapes) = reps
  BY <1>1, <1>5, <1>7 DEF TypeReports, Each
<1>9. reps \in Seq(AllFindings) /\ Len(reps) = n /\ \A k \in 1..n : reps[k] = TypeOf(bs[k])
  <2>1. reps \in [1..n -> AllFindings]
    BY <1>5, <1>6, <1>7
  <2>2. QED
    BY <1>7, <2>1
<1>10. DetectTypes(shapes, max) = Take(reps, IF max >= 1 THEN max ELSE 1)
  <2>1. Max({max, 1}) = IF max >= 1 THEN max ELSE 1
    <3>1. max \in Int /\ 1 \in Int
      OBVIOUS
    <3>2. QED
      BY ONLY <3>1, GreaterOfTwo
  <2>2. DetectTypes(shapes, max) = Take(Each(bs, TypeOf), Max({max, 1}))
    BY <1>1 DEF DetectTypes, TypeOf, Twofold, Loud, Each
  <2>3. Each(bs, TypeOf) = reps
    BY <1>5, <1>7 DEF Each
  <2>4. QED
    BY ONLY <2>1, <2>2, <2>3
<1>11. ASSUME NEW x
       PROVE  In(reps, x) <=> \E i \in 1..Len(loud) : x = TypeOf(Alike(loud, "members", i)) /\ Len(Distinct(Alike(loud, "members", i))) >= 2
  <2>1. In(reps, x) <=> \E b : In(bs, b) /\ x = TypeOf(b)
    BY <1>5, <1>9 DEF In
  <2>2. QED
    BY <1>4, <2>1
<1>12. QED
  BY <1>1, <1>8, <1>9, <1>10, <1>11

(* Near copies: the pairs in the order of the buckets.                     *)
PairPlace(prints, c) == FirstBucket(prints[c[1]], prints[c[2]]) \o c
NearPairs(prints) == {c \in Candidates(prints) : Similar(prints[c[1]], prints[c[2]])}
NearOf(p, q) == SemanticClone(Warn, Confidence(p, q), <<p.file, q.file>>, <<SymbolId(p), SymbolId(q)>>, 2)

LEMMA BandFound ==
  ASSUME NEW p, NEW q, SameBand(p, q)
  PROVE  Min({k \in 1..Bands : p.simhash \cap Band(k) = q.simhash \cap Band(k)}) \in Nat
<1> DEFINE T == {k \in 1..Bands : p.simhash \cap Band(k) = q.simhash \cap Band(k)}
<1>1. T \in SUBSET Nat /\ T # {}
  BY DEF SameBand
<1> HIDE DEF T
<1>2. \E m \in T : \A n \in T : m <= n
  BY ONLY <1>1, SmallestOf
<1>3. Min(T) \in T
  BY <1>2 DEF Min
<1>4. QED
  BY <1>1, <1>3 DEF T

LEMMA Widths == SimhashBits \div Bands \in Nat /\ SimhashBits \in Nat /\ Bands \in Nat \ {0}
BY SimhashAssumption

LEMMA FirstBucketIs ==
  ASSUME NEW p, NEW q, SameBand(p, q)
  PROVE  FirstBucket(p, q) \in Seq(Int) /\ Len(FirstBucket(p, q)) = 1 + SimhashBits \div Bands
<1>1. PICK w \in Nat : w = SimhashBits \div Bands
  BY Widths
<1>2. PICK band \in Nat : band = Min({k \in 1..Bands : p.simhash \cap Band(k) = q.simhash \cap Band(k)})
  BY BandFound
<1>3. PICK bits : bits = [i \in 1..w |-> IF band * w - i \in p.simhash THEN 1 ELSE 0]
  OBVIOUS
<1>4. bits \in [1..w -> Int]
  BY <1>3
<1>5. bits \in Seq(Int) /\ Len(bits) = w
  BY <1>3, <1>4
<1>6. <<band>> \in Seq(Int) /\ Len(<<band>>) = 1
  OBVIOUS
<1>7. FirstBucket(p, q) = <<band>> \o bits
  BY <1>1, <1>2, <1>3 DEF FirstBucket
<1>8. <<band>> \o bits \in Seq(Int) /\ Len(<<band>> \o bits) = 1 + w
  BY ONLY <1>5, <1>6, Joined
<1>9. QED
  BY <1>1, <1>7, <1>8

LEMMA NearPairsListed ==
  ASSUME NEW E, NEW prints \in Seq(E)
  PROVE  /\ IsFiniteSet(NearPairs(prints))
         /\ Enumerates(SortedBy(NearPairs(prints), LAMBDA c, d : KeyLess(PairPlace(prints, c), PairPlace(prints, d))),
                       NearPairs(prints))
<1> DEFINE Ahead(c, d) == KeyLess(PairPlace(prints, c), PairPlace(prints, d))
<1>1. PICK n \in Nat : n = Len(prints) /\ DOMAIN prints = 1..n
  OBVIOUS
<1>2. PICK S, R : S = NearPairs(prints) /\ R = {p \in S \X S : Ahead(p[1], p[2])}
  OBVIOUS
<1>3. S \subseteq (1..n) \X (1..n) /\ \A c \in S : SameBand(prints[c[1]], prints[c[2]])
  BY <1>1, <1>2 DEF NearPairs, Candidates
<1>4. IsFiniteSet(S)
  <2>1. IsFiniteSet(1..n)
    BY IntervalIsFinite
  <2>2. IsFiniteSet((1..n) \X (1..n))
    BY ONLY <2>1, FS_Product
  <2>3. QED
    BY ONLY <1>3, <2>2, FS_Subset
<1>5. PICK m \in Nat : m = 1 + SimhashBits \div Bands
  BY Widths
<1>6. ASSUME NEW c \in S
      PROVE  /\ PairPlace(prints, c) \in Seq(Int)
             /\ \E s \in Seq(Int) : \E i, j \in Int : Len(s) = m /\ c = <<i, j>> /\ PairPlace(prints, c) = s \o <<i, j>>
  <2>1. PICK i \in 1..n, j \in 1..n : c = <<i, j>>
    BY <1>3
  <2>2. PICK s \in Seq(Int) : s = FirstBucket(prints[c[1]], prints[c[2]]) /\ Len(s) = m
    BY <1>3, <1>5, FirstBucketIs
  <2>3. PairPlace(prints, c) = s \o <<i, j>>
    BY <2>1, <2>2 DEF PairPlace
  <2>4. <<i, j>> \in Seq(Int) /\ i \in Int /\ j \in Int
    OBVIOUS
  <2>5. s \o <<i, j>> \in Seq(Int)
    BY ONLY s \in Seq(Int), <2>4, Joined
  <2>6. QED
    BY <2>1, <2>2, <2>3, <2>4, <2>5
<1>7. ASSUME NEW c \in S, NEW d \in S, PairPlace(prints, c) = PairPlace(prints, d) PROVE c = d
  <2>1. PICK s \in Seq(Int) : \E i, j \in Int : Len(s) = m /\ c = <<i, j>> /\ PairPlace(prints, c) = s \o <<i, j>>
    BY <1>6
  <2>2. PICK i \in Int, j \in Int : Len(s) = m /\ c = <<i, j>> /\ PairPlace(prints, c) = s \o <<i, j>>
    BY <2>1
  <2>3. PICK t \in Seq(Int) : \E k, l \in Int : Len(t) = m /\ d = <<k, l>> /\ PairPlace(prints, d) = t \o <<k, l>>
    BY <1>6
  <2>4. PICK k \in Int, l \in Int : Len(t) = m /\ d = <<k, l>> /\ PairPlace(prints, d) = t \o <<k, l>>
    BY <2>3
  <2>5. s \o <<i, j>> = t \o <<k, l>>
    BY <1>7, <2>2, <2>4
  <2>6. i = k /\ j = l
    <3>1. Len(s) = m /\ Len(t) = m /\ m \in Nat /\ s \in Seq(Int) /\ t \in Seq(Int)
          /\ i \in Int /\ j \in Int /\ k \in Int /\ l \in Int
      BY <2>2, <2>4
    <3>2. QED
      <4>1. (s \o <<i, j>>)[m + 1] = i /\ (s \o <<i, j>>)[m + 2] = j
        BY ONLY <3>1
      <4>2. (t \o <<k, l>>)[m + 1] = k /\ (t \o <<k, l>>)[m + 2] = l
        BY ONLY <3>1
      <4>3. QED
        BY ONLY <2>5, <4>1, <4>2
  <2>7. QED
    BY <2>2, <2>4, <2>6
<1>8. \A c, d \in S : <<c, d>> \in R <=> Ahead(c, d)
  BY <1>2
<1>9. StrictOrder(R, S)
  <2>1. ASSUME NEW c \in S PROVE <<c, c>> \notin R
    BY <1>6, <1>8, KeyLessStrict
  <2>2. ASSUME NEW c \in S, NEW d \in S, NEW e \in S, <<c, d>> \in R, <<d, e>> \in R PROVE <<c, e>> \in R
    BY <1>6, <1>8, <2>2, KeyLessTransitive
  <2>3. ASSUME NEW c \in S, NEW d \in S PROVE c = d \/ <<c, d>> \in R \/ <<d, c>> \in R
    BY <1>6, <1>7, <1>8, KeyLessTotal
  <2>4. QED
    BY <2>1, <2>2, <2>3 DEF StrictOrder
<1>10. PICK e : e = [i \in 1..Cardinality(S) |-> CHOOSE x \in S : Cardinality({y \in S : Ahead(y, x)}) = i - 1]
  OBVIOUS
<1>11. SortedBy(S, Ahead) = e
  BY <1>10 DEF SortedBy
<1> HIDE DEF Ahead
<1>12. \A x \in S : {y \in S : Ahead(y, x)} = {y \in S : <<y, x>> \in R}
  BY <1>8
<1>13. \A i : (CHOOSE x \in S : Cardinality({y \in S : Ahead(y, x)}) = i - 1)
             = (CHOOSE x \in S : Cardinality({y \in S : <<y, x>> \in R}) = i - 1)
  BY <1>12, Zenon
<1>14. e = InOrder(S, R)
  <2> DEFINE At(i) == CHOOSE x \in S : Cardinality({y \in S : Ahead(y, x)}) = i - 1
             To(i) == CHOOSE x \in S : Cardinality({y \in S : <<y, x>> \in R}) = i - 1
  <2>1. e = [i \in 1..Cardinality(S) |-> At(i)] /\ InOrder(S, R) = [i \in 1..Cardinality(S) |-> To(i)]
    BY <1>10 DEF InOrder
  <2>2. \A i : At(i) = To(i)
    BY <1>13
  <2> HIDE DEF At, To
  <2>3. QED
    BY <2>1, <2>2
<1>15. EnumeratesBy(e, S, R)
  BY <1>4, <1>9, <1>14, Enumeration
<1>16. Enumerates(e, S)
  BY <1>15 DEF EnumeratesBy, Enumerates, Bijection, Injection, Surjection
<1>17. QED
  BY <1>2, <1>4, <1>11, <1>16 DEF Ahead

LEMMA DivisionIsInt == ASSUME NEW a \in Int, NEW b \in Nat \ {0} PROVE a \div b \in Int
OBVIOUS

LEMMA DistanceIsNat ==
  ASSUME NEW X \in SUBSET Nat, NEW p \in Rows(X), NEW q \in Rows(X)
  PROVE  Hamming(p, q) \in Nat /\ Jaccard(p, q) \in Int /\ Confidence(p, q) \in Int
<1>1. p.simhash \subseteq 0..(SimhashBits - 1) /\ q.simhash \subseteq 0..(SimhashBits - 1)
      /\ p.tokens \in Seq(Nat) /\ q.tokens \in Seq(Nat)
  <2>1. ASSUME NEW r \in Rows(X) PROVE r.simhash \subseteq 0..(SimhashBits - 1) /\ r.tokens \in Seq(Nat)
    <3>1. PICK f \in X : r \in Prints(f)
      BY DEF Rows
    <3>2. QED
      BY <3>1 DEF Prints
  <2>2. QED
    BY <2>1
<1>2. Hamming(p, q) \in Nat
  <2>1. 0 \in Int /\ SimhashBits - 1 \in Int
    BY SimhashAssumption
  <2>2. IsFiniteSet(0..(SimhashBits - 1))
    BY <2>1, FS_Interval
  <2>3. SymDiff(p.simhash, q.simhash) \subseteq 0..(SimhashBits - 1)
    BY <1>1 DEF SymDiff
  <2>4. IsFiniteSet(SymDiff(p.simhash, q.simhash))
    BY ONLY <2>2, <2>3, FS_Subset
  <2>5. QED
    BY <2>4, FS_CardinalityType DEF Hamming
<1>3. Jaccard(p, q) \in Int
  <2>1. PICK a, b : a = ToSet(p.tokens) /\ b = ToSet(q.tokens)
    OBVIOUS
  <2>2. IsFiniteSet(a) /\ IsFiniteSet(b)
    BY <1>1, <2>1, EntriesAreFinite
  <2>3. IsFiniteSet(a \cup b) /\ IsFiniteSet(a \cap b)
    <3>1. IsFiniteSet(a \cup b)
      BY ONLY <2>2, FS_Union
    <3>2. a \cap b \subseteq a
      OBVIOUS
    <3>3. IsFiniteSet(a \cap b)
      BY ONLY <2>2, <3>2, FS_Subset
    <3>4. QED
      BY <3>1, <3>3
  <2>4. PICK c \in Nat, d \in Nat : c = Cardinality(a \cap b) /\ d = Cardinality(a \cup b)
    BY <2>3, FS_CardinalityType
  <2>5. Jaccard(p, q) = IF a \cup b = {} THEN 0 ELSE (100 * c) \div d
    BY <2>1, <2>4 DEF Jaccard
  <2>6. CASE a \cup b = {}
    BY <2>5, <2>6
  <2>7. CASE a \cup b # {}
    <3>1. d # 0
      BY <2>3, <2>4, <2>7, FS_EmptySet
    <3>2. 100 * c \in Int /\ d \in Nat \ {0}
      BY <3>1
    <3>3. (100 * c) \div d \in Int
      BY ONLY <3>2, DivisionIsInt
    <3>4. QED
      BY <2>5, <2>7, <3>3
  <2>8. QED
    BY <2>6, <2>7
<1>4. PICK h \in Nat, j \in Int : h = Hamming(p, q) /\ j = Jaccard(p, q)
  BY <1>2, <1>3
<1>5. Confidence(p, q) = (55 * (64 - h)) \div 64 + (45 * j) \div 100
  BY <1>4 DEF Confidence
<1>6. Confidence(p, q) \in Int
  <2>1. 55 * (64 - h) \in Int /\ 45 * j \in Int /\ 64 \in Nat \ {0} /\ 100 \in Nat \ {0}
    OBVIOUS
  <2>2. (55 * (64 - h)) \div 64 \in Int /\ (45 * j) \div 100 \in Int
    BY ONLY <2>1, DivisionIsInt
  <2>3. QED
    BY <1>5, <2>2
<1>7. QED
  BY <1>2, <1>3, <1>6

NearReports(prints) ==
  Each(SortedBy(NearPairs(prints), LAMBDA c, d : KeyLess(PairPlace(prints, c), PairPlace(prints, d))),
       LAMBDA c : NearOf(prints[c[1]], prints[c[2]]))

LEMMA RowIds ==
  ASSUME NEW X \in SUBSET Nat, NEW r \in Rows(X) \cup TypeRows(X)
  PROVE  r.file \in X /\ r.symbol \in 0..(SymbolsPerFile - 1) /\ SymbolId(r) \in Nat /\ SymbolId(r) = SymbolsPerFile * r.file + r.symbol
<1>1. PICK f \in X : r \in Prints(f) \/ r \in Shapes(f)
  BY DEF Rows, TypeRows
<1>2. r.file = f /\ r.symbol \in 0..(SymbolsPerFile - 1)
  BY <1>1 DEF Prints, Shapes
<1>3. PICK s \in 0..(SymbolsPerFile - 1) : s = r.symbol
  BY <1>2
<1>4. f \in Nat /\ SymbolsPerFile * f + s \in Nat
  <2>1. s \in Nat /\ f \in Nat
    BY SymbolsAssumption
  <2>2. QED
    BY ONLY <2>1, IdsAreNumbers
<1>5. SymbolId(r) = SymbolsPerFile * f + s
  BY <1>2, <1>3 DEF SymbolId
<1>6. QED
  BY <1>2, <1>3, <1>4, <1>5

LEMMA NearAre ==
  ASSUME NEW X \in SUBSET Nat, NEW prints \in Seq(Rows(X))
  PROVE  /\ NearReports(prints) \in Seq(AllFindings)
         /\ \A max : DetectNearMiss(prints, max) = Take(NearReports(prints), max)
         /\ \A x : In(NearReports(prints), x) <=> \E c \in NearPairs(prints) : x = NearOf(prints[c[1]], prints[c[2]])
<1>1. PICK S, e : /\ S = NearPairs(prints)
                  /\ e = SortedBy(S, LAMBDA c, d : KeyLess(PairPlace(prints, c), PairPlace(prints, d)))
  OBVIOUS
<1>2. Enumerates(e, S)
  BY <1>1, NearPairsListed
<1>3. PICK n \in Nat : DOMAIN e = 1..n /\ Len(e) = n /\ (\A i \in 1..n : e[i] \in S) /\ \A c \in S : \E i \in 1..n : e[i] = c
  BY <1>2 DEF Enumerates
<1>4. ASSUME NEW c \in S PROVE NearOf(prints[c[1]], prints[c[2]]) \in AllFindings
  <2>1. c[1] \in DOMAIN prints /\ c[2] \in DOMAIN prints
    BY <1>1 DEF NearPairs, Candidates
  <2>2. PICK p \in Rows(X), q \in Rows(X) : p = prints[c[1]] /\ q = prints[c[2]]
    BY <2>1
  <2>3. PICK cc \in Int : cc = Confidence(p, q)
    BY DistanceIsNat
  <2>4. p.file \in Nat /\ q.file \in Nat /\ SymbolId(p) \in Nat /\ SymbolId(q) \in Nat
    BY RowIds
  <2>5. PICK fs \in Seq(Nat), ss \in Seq(Nat) : fs = <<p.file, q.file>> /\ ss = <<SymbolId(p), SymbolId(q)>>
    <3>1. PICK i \in Nat, j \in Nat, k \in Nat, l \in Nat : i = p.file /\ j = q.file /\ k = SymbolId(p) /\ l = SymbolId(q)
      BY <2>4
    <3>2. <<i, j>> \in Seq(Nat) /\ <<k, l>> \in Seq(Nat)
      OBVIOUS
    <3>3. QED
      BY <3>1, <3>2
  <2>6. NearOf(p, q) = SemanticClone(Warn, cc, fs, ss, 2)
    BY <2>3, <2>5 DEF NearOf
  <2>7. Warn \in {Info, Warn, Error} /\ 2 \in Nat
    OBVIOUS
  <2>8. SemanticClone(Warn, cc, fs, ss, 2) \in AllFindings
    BY <2>7, CloneIsFinding
  <2>9. QED
    BY <2>2, <2>6, <2>8
<1>5. PICK reps : reps = [i \in 1..n |-> NearOf(prints[e[i][1]], prints[e[i][2]])]
  OBVIOUS
<1>6. NearReports(prints) = reps
  BY <1>1, <1>3, <1>5 DEF NearReports, Each
<1>7. reps \in Seq(AllFindings) /\ Len(reps) = n
  <2>1. reps \in [1..n -> AllFindings]
    BY <1>3, <1>4, <1>5
  <2>2. QED
    BY <1>5, <2>1
<1>8. ASSUME NEW max PROVE DetectNearMiss(prints, max) = Take(reps, max)
  <2>1. DetectNearMiss(prints, max) = Take(Each(e, LAMBDA c : NearOf(prints[c[1]], prints[c[2]])), max)
    BY <1>1 DEF DetectNearMiss, NearPairs, PairPlace, NearOf, Each
  <2>2. QED
    BY <1>1, <1>6, <2>1 DEF NearReports
<1>9. ASSUME NEW x PROVE In(reps, x) <=> \E c \in S : x = NearOf(prints[c[1]], prints[c[2]])
  BY <1>3, <1>5, <1>7 DEF In
<1>10. QED
  BY <1>1, <1>6, <1>7, <1>8, <1>9

LEMMA InJoined ==
  ASSUME NEW E, NEW s \in Seq(E), NEW t \in Seq(E), NEW x
  PROVE  In(s \o t, x) <=> In(s, x) \/ In(t, x)
<1>1. PICK m \in Nat, n \in Nat : m = Len(s) /\ n = Len(t)
  OBVIOUS
<1>2. Len(s \o t) = m + n /\ (\A i \in 1..m : (s \o t)[i] = s[i]) /\ \A i \in 1..n : (s \o t)[m + i] = t[i]
  BY <1>1
<1>3. PICK u : u = s \o t
  OBVIOUS
<1>4. Len(u) = m + n /\ (\A i \in 1..m : u[i] = s[i]) /\ \A i \in 1..n : u[m + i] = t[i]
  BY <1>2, <1>3
<1>5. ASSUME NEW k \in 1..(m + n), u[k] = x PROVE In(s, x) \/ In(t, x)
  <2>1. CASE k <= m
    <3>1. k \in 1..m
      BY <2>1
    <3>2. QED
      BY <1>1, <1>4, <1>5, <3>1 DEF In
  <2>2. CASE m < k
    <3>1. k - m \in 1..n /\ m + (k - m) = k
      BY <2>2
    <3>2. t[k - m] = x
      BY <1>4, <1>5, <3>1
    <3>3. QED
      BY <1>1, <3>1, <3>2 DEF In
  <2>3. QED
    BY <2>1, <2>2
<1>6. ASSUME NEW k \in 1..m, s[k] = x PROVE In(u, x)
  <2>1. k \in 1..(m + n)
    OBVIOUS
  <2>2. QED
    BY <1>4, <1>6, <2>1 DEF In
<1>7. ASSUME NEW k \in 1..n, t[k] = x PROVE In(u, x)
  <2>1. m + k \in 1..(m + n)
    OBVIOUS
  <2>2. QED
    BY <1>4, <1>7, <2>1 DEF In
<1>8. QED
  BY <1>1, <1>3, <1>4, <1>5, <1>6, <1>7 DEF In

(* A capped list holds nothing that is not in the whole one, and all of it   *)
(* when it stays below the cap.                                            *)
CutFrom(capped, all, max) ==
  /\ capped \in Seq(AllFindings) /\ Len(capped) <= max
  /\ \A x : In(capped, x) => x \in all
  /\ Len(capped) < max => \A x \in all : In(capped, x)

LEMMA InIsToSet == ASSUME NEW E, NEW s \in Seq(E), NEW x PROVE In(s, x) <=> x \in ToSet(s)
BY DEF In, ToSet

Copies(prints) == ToSet(ExactReports(prints)) \cup ToSet(NearReports(prints))

LEMMA ClonesAre ==
  ASSUME NEW X \in SUBSET Nat, NEW prints \in Seq(Rows(X)), NEW max \in Nat \ {0}
  PROVE  CutFrom(DetectClones(prints, max), Copies(prints), max)
<1>1. PICK all, near, exact : all = ExactReports(prints) /\ near = NearReports(prints) /\ exact = DetectExact(prints, max)
  OBVIOUS
<1>0. \A x : x \in Copies(prints) <=> In(all, x) \/ In(near, x)
  <2>1. all \in Seq(AllFindings) /\ near \in Seq(AllFindings)
    BY <1>1, ExactAre, NearAre
  <2>2. QED
    BY <1>1, <2>1, InIsToSet DEF Copies
<1>2. all \in Seq(AllFindings) /\ exact = Take(all, max)
  BY <1>1, ExactAre
<1>3. near \in Seq(AllFindings) /\ \A m : DetectNearMiss(prints, m) = Take(near, m)
  BY <1>1, NearAre
<1>4. /\ exact \in Seq(AllFindings) /\ Len(exact) = (IF max <= Len(all) THEN max ELSE Len(all))
      /\ \A x : In(exact, x) => In(all, x)
      /\ Len(all) <= max => exact = all
  BY <1>2, TakenIn
<1>5. PICK m \in Nat : m = Len(exact) /\ m <= max
  BY <1>2, <1>4
<1>6. PICK out : out = DetectClones(prints, max)
  OBVIOUS
<1>7. CASE m >= max
  <2>1. out = Take(exact, max)
    BY <1>1, <1>5, <1>6, <1>7 DEF DetectClones
  <2>2. out = exact
    BY <1>4, <1>5, <2>1, TakenIn
  <2>3. QED
    BY <1>0, <1>1, <1>4, <1>5, <1>6, <1>7, <2>2 DEF CutFrom
<1>8. CASE m < max
  <2>1. PICK some : some = Take(near, max - m)
    OBVIOUS
  <2>2. max - m \in Nat
    BY <1>8
  <2>3. /\ some \in Seq(AllFindings) /\ Len(some) = (IF max - m <= Len(near) THEN max - m ELSE Len(near))
        /\ \A x : In(some, x) => In(near, x)
        /\ Len(near) <= max - m => some = near
    BY <1>3, <2>1, <2>2, TakenIn
  <2>4. PICK both : both = exact \o some
    OBVIOUS
  <2>5. both \in Seq(AllFindings) /\ Len(both) = m + Len(some)
    BY <1>4, <1>5, <2>3, <2>4, Joined
  <2>6. \A x : In(both, x) <=> In(exact, x) \/ In(some, x)
    BY <1>4, <2>3, <2>4, InJoined
  <2>7. PICK sorted : sorted = Arranged(both, Before)
    OBVIOUS
  <2>8. sorted \in Seq(AllFindings) /\ Len(sorted) = Len(both) /\ \A x : In(sorted, x) <=> In(both, x)
    BY <2>5, <2>7, ArrangedIn
  <2>9. out = Take(sorted, max)
    BY <1>1, <1>3, <1>5, <1>6, <1>8, <2>1, <2>4, <2>7 DEF DetectClones
  <2>10. Len(some) <= max - m /\ Len(some) \in Nat
    BY <2>2, <2>3
  <2>11. Len(sorted) <= max
    BY <2>5, <2>8, <2>10
  <2>12. out = sorted
    BY <2>8, <2>9, <2>11, TakenIn
  <2>13. ASSUME Len(out) < max PROVE exact = all /\ some = near
    <3>1. Len(all) \in Nat /\ Len(near) \in Nat
      BY <1>2, <1>3
    <3>2. Len(some) < max - m
      BY <2>5, <2>8, <2>10, <2>12, <2>13
    <3>3. QED
      BY <1>4, <1>5, <1>8, <2>3, <3>1, <3>2
  <2>14. QED
    BY <1>0, <1>1, <1>4, <1>6, <2>3, <2>6, <2>8, <2>11, <2>12, <2>13 DEF CutFrom
<1>9. QED
  BY <1>5, <1>7, <1>8

LEMMA TakenIsCut ==
  ASSUME NEW all \in Seq(AllFindings), NEW max \in Nat \ {0} PROVE CutFrom(Take(all, max), ToSet(all), max)
<1>1. PICK out : out = Take(all, max)
  OBVIOUS
<1>2. /\ out \in Seq(AllFindings) /\ Len(out) = (IF max <= Len(all) THEN max ELSE Len(all))
      /\ \A x : In(out, x) => In(all, x)
      /\ Len(all) <= max => out = all
  BY <1>1, TakenIn
<1>3. Len(all) \in Nat /\ \A x : In(all, x) <=> x \in ToSet(all)
  BY InIsToSet
<1>4. QED
  BY <1>1, <1>2, <1>3 DEF CutFrom

LEMMA ShapesAre ==
  ASSUME NEW X \in SUBSET Nat, NEW shapes \in Seq(TypeRows(X)), NEW max \in Nat \ {0}
  PROVE  CutFrom(DetectTypes(shapes, max), ToSet(TypeReports(shapes)), max)
<1>1. TypeReports(shapes) \in Seq(AllFindings) /\ DetectTypes(shapes, max) = Take(TypeReports(shapes), max)
  BY TypesAre
<1>2. QED
  BY <1>1, TakenIsCut

(***************************************************************************)
(* The rows of a set of files.                                             *)
(***************************************************************************)
LEMMA RowsOfAFile ==
  ASSUME DocsInv, NEW f \in Files
  PROVE  /\ docs[f].clones \in Seq(Prints(f)) /\ docs[f].types \in Seq(Shapes(f))
         /\ \A i \in 1..Len(docs[f].clones) : BigEnough(docs[f].clones[i])
<1>1. docs[f] \in Projects[project][f] \cup {NoDoc} /\ project \in DOMAIN Projects
  BY DEF DocsInv, TypeOK
<1>2. CASE docs[f] = NoDoc
  <2>1. docs[f].clones = <<>> /\ docs[f].types = <<>>
    BY <1>2 DEF NoDoc
  <2>2. PICK s : s = <<>>
    OBVIOUS
  <2>3. s \in Seq(Prints(f)) /\ s \in Seq(Shapes(f)) /\ Len(s) = 0
    BY <2>2
  <2>4. QED
    BY <2>1, <2>2, <2>3
<1>3. CASE docs[f] # NoDoc
  <2>1. PICK d \in Projects[project][f] : d = docs[f]
    BY <1>1, <1>3
  <2>2. /\ d.clones \in Seq(Prints(f)) /\ (\A i \in DOMAIN d.clones : BigEnough(d.clones[i]))
        /\ d.types \in Seq(Shapes(f))
    BY <1>1, RowsAssumption
  <2>3. DOMAIN d.clones = 1..Len(d.clones)
    BY <2>2
  <2>4. QED
    BY <2>1, <2>2, <2>3
<1>4. QED
  BY <1>2, <1>3

LEMMA WidenedSeq ==
  ASSUME NEW D, NEW E, D \subseteq E, NEW s \in Seq(D) PROVE s \in Seq(E)
<1>1. s \in [1..Len(s) -> D] /\ Len(s) \in Nat
  OBVIOUS
<1>2. s \in [1..Len(s) -> E]
  BY <1>1
<1>3. QED
  BY <1>1, <1>2

(* The rows of the files of X, one file behind the other.                   *)
LEMMA RowsAre ==
  ASSUME DocsInv, NEW X \in SUBSET Files, NEW column, NEW E,
         \A f \in X : docs[f][column] \in Seq(E)
  PROVE  /\ RowsOf(X, column) \in Seq(E)
         /\ \A x : In(RowsOf(X, column), x) <=> \E f \in X : In(docs[f][column], x)
<1>1. PICK fs : fs = Sorted(X)
  OBVIOUS
<1>2. fs \in Seq(Files) /\ (\A i \in 1..Len(fs) : fs[i] \in X) /\ \A x \in X : \E i \in 1..Len(fs) : fs[i] = x
  BY <1>1, SortedFiles
<1>3. PICK n \in Nat : n = Len(fs) /\ DOMAIN fs = 1..n
  BY <1>2
<1>4. PICK seqs : seqs = [i \in 1..n |-> docs[fs[i]][column]]
  OBVIOUS
<1>5. seqs \in Seq(Seq(E)) /\ Len(seqs) = n
  <2>1. seqs \in [1..n -> Seq(E)]
    BY <1>2, <1>3, <1>4
  <2>2. QED
    BY <1>4, <2>1
<1>6. RowsOf(X, column) = FlattenSeq(seqs)
  BY <1>1, <1>3, <1>4 DEF RowsOf, Each
<1>7. PICK F : F = FlattenSeq(seqs)
  OBVIOUS
<1>8. F \in Seq(E)
  BY <1>5, <1>7, FlattenLists
<1>9. ASSUME NEW x PROVE In(F, x) <=> \E i \in 1..n : In(seqs[i], x)
  BY <1>5, <1>7, FlattenEntries
<1>10. ASSUME NEW x PROVE In(F, x) <=> \E f \in X : In(docs[f][column], x)
  <2>1. \A i \in 1..n : fs[i] \in X /\ seqs[i] = docs[fs[i]][column]
    BY <1>2, <1>3, <1>4
  <2>2. \A f \in X : \E i \in 1..n : fs[i] = f
    BY <1>2, <1>3
  <2>3. QED
    BY <1>9, <2>1, <2>2
<1>11. QED
  BY <1>6, <1>7, <1>8, <1>10

LEMMA CloneRowsAre ==
  ASSUME DocsInv, NEW X \in SUBSET Files
  PROVE  /\ ClonesOf(X) \in Seq(Rows(X)) /\ TypesOf(X) \in Seq(TypeRows(X))
         /\ \A x : In(ClonesOf(X), x) <=> \E f \in X : In(docs[f].clones, x)
         /\ \A x : In(TypesOf(X), x) <=> \E f \in X : In(docs[f].types, x)
         /\ \A x : In(ClonesOf(X), x) => BigEnough(x)
<1>1. \A f \in X : docs[f].clones \in Seq(Rows(X)) /\ docs[f].types \in Seq(TypeRows(X))
  <2>1. TAKE f \in X
  <2>2. docs[f].clones \in Seq(Prints(f)) /\ docs[f].types \in Seq(Shapes(f))
    BY RowsOfAFile
  <2>3. Prints(f) \subseteq Rows(X) /\ Shapes(f) \subseteq TypeRows(X)
    BY DEF Rows, TypeRows
  <2>4. QED
    BY <2>2, <2>3, WidenedSeq
<1>2. \A f \in X : docs[f]["clones"] \in Seq(Rows(X)) /\ docs[f]["types"] \in Seq(TypeRows(X))
  BY <1>1
<1>3. /\ RowsOf(X, "clones") \in Seq(Rows(X))
      /\ \A x : In(RowsOf(X, "clones"), x) <=> \E f \in X : In(docs[f]["clones"], x)
  BY <1>2, RowsAre
<1>4. /\ RowsOf(X, "types") \in Seq(TypeRows(X))
      /\ \A x : In(RowsOf(X, "types"), x) <=> \E f \in X : In(docs[f]["types"], x)
  BY <1>2, RowsAre
<1>5. ASSUME NEW f \in X, NEW x, In(docs[f].clones, x) PROVE BigEnough(x)
  BY <1>5, RowsOfAFile DEF In
<1>6. QED
  BY <1>3, <1>4, <1>5 DEF ClonesOf, TypesOf

(***************************************************************************)
(* Close copies are found.                                                 *)
(***************************************************************************)
LEMMA BandsAreApart ==
  ASSUME NEW k \in 1..Bands, NEW l \in 1..Bands, k < l, NEW x \in Band(k)
  PROVE  x \notin Band(l)
<1>1. PICK w \in Nat : w = SimhashBits \div Bands
  BY Widths
<1>2. k \in Nat /\ l \in Nat /\ (l - 1) - k \in Nat
  BY Widths
<1>3. PICK j \in Nat : j = (l - 1) - k
  BY <1>2
<1>4. j * w \in Nat /\ k * w \in Nat /\ (l - 1) * w = k * w + j * w
  BY <1>2, <1>3
<1>5. x \in Int /\ x <= k * w - 1
  BY <1>1, <1>4 DEF Band
<1>6. ASSUME x \in Band(l) PROVE (l - 1) * w <= x
  <2>1. x \in ((l - 1) * w)..(l * w - 1)
    BY <1>1, <1>6 DEF Band
  <2>2. (l - 1) * w \in Int /\ l * w - 1 \in Int
    BY <1>2
  <2>3. QED
    BY <2>1, <2>2
<1>7. QED
  BY <1>4, <1>5, <1>6

LEMMA CloseShareBand ==
  ASSUME NEW X \in SUBSET Nat, NEW p \in Rows(X), NEW q \in Rows(X), Hamming(p, q) < Bands
  PROVE  SameBand(p, q)
<1>1. PICK D : D = SymDiff(p.simhash, q.simhash)
  OBVIOUS
<1>2. p.simhash \subseteq 0..(SimhashBits - 1) /\ q.simhash \subseteq 0..(SimhashBits - 1)
  <2>1. ASSUME NEW r \in Rows(X) PROVE r.simhash \subseteq 0..(SimhashBits - 1)
    <3>1. PICK f \in X : r \in Prints(f)
      BY DEF Rows
    <3>2. QED
      BY <3>1 DEF Prints
  <2>2. QED
    BY <2>1
<1>3. IsFiniteSet(D)
  <2>1. 0 \in Int /\ SimhashBits - 1 \in Int
    BY SimhashAssumption
  <2>2. IsFiniteSet(0..(SimhashBits - 1))
    BY <2>1, FS_Interval
  <2>3. D \subseteq 0..(SimhashBits - 1)
    BY <1>1, <1>2 DEF SymDiff
  <2>4. QED
    BY ONLY <2>2, <2>3, FS_Subset
<1>4. SUFFICES ASSUME ~SameBand(p, q) PROVE FALSE
  OBVIOUS
<1>5. \A k \in 1..Bands : \E x \in D : x \in Band(k)
  <2>1. TAKE k \in 1..Bands
  <2>2. p.simhash \cap Band(k) # q.simhash \cap Band(k)
    BY <1>4 DEF SameBand
  <2>3. QED
    BY <1>1, <2>2 DEF SymDiff
<1>6. PICK f : f = [k \in 1..Bands |-> CHOOSE x \in D : x \in Band(k)]
  OBVIOUS
<1>7. \A k \in 1..Bands : f[k] \in D /\ f[k] \in Band(k)
  BY <1>5, <1>6
<1>8. ASSUME NEW k \in 1..Bands, NEW l \in 1..Bands, f[k] = f[l] PROVE k = l
  <2>1. k \in Int /\ l \in Int
    OBVIOUS
  <2>2. ~(k < l) /\ ~(l < k)
    BY <1>7, <1>8, BandsAreApart
  <2>3. QED
    BY <2>1, <2>2
<1>9. f \in Injection(1..Bands, D)
  <2>1. f \in [1..Bands -> D]
    BY <1>6, <1>7
  <2>2. QED
    BY <1>6, <2>1, <1>8 DEF Injection, IsInjective
<1>10. Cardinality(1..Bands) <= Cardinality(D)
  BY ONLY <1>3, <1>9, FS_Injection
<1>11. Cardinality(1..Bands) = Bands /\ Bands \in Nat
  BY Widths, IntervalIsFinite
<1>12. Cardinality(D) \in Nat
  BY <1>3, FS_CardinalityType
<1>13. Hamming(p, q) = Cardinality(D)
  BY <1>1 DEF Hamming
<1>14. QED
  BY <1>10, <1>11, <1>12, <1>13

LEMMA SimilarBothWays == ASSUME NEW p, NEW q, Similar(p, q) PROVE Similar(q, p)
<1>1. SymDiff(q.simhash, p.simhash) = SymDiff(p.simhash, q.simhash)
  BY DEF SymDiff
<1>2. Hamming(q, p) = Hamming(p, q)
  BY <1>1 DEF Hamming
<1>3. Jaccard(q, p) = Jaccard(p, q)
  <2>1. PICK a, b : a = ToSet(p.tokens) /\ b = ToSet(q.tokens)
    OBVIOUS
  <2>2. a \cup b = b \cup a /\ a \cap b = b \cap a
    OBVIOUS
  <2>3. /\ Jaccard(p, q) = IF a \cup b = {} THEN 0 ELSE (100 * Cardinality(a \cap b)) \div Cardinality(a \cup b)
        /\ Jaccard(q, p) = IF b \cup a = {} THEN 0 ELSE (100 * Cardinality(b \cap a)) \div Cardinality(b \cup a)
    BY <2>1 DEF Jaccard
  <2>4. PICK c, d : c = Cardinality(a \cap b) /\ d = Cardinality(a \cup b)
    OBVIOUS
  <2>5. c = Cardinality(b \cap a) /\ d = Cardinality(b \cup a)
    BY <2>2, <2>4, Zenon
  <2>6. a \cup b = {} <=> b \cup a = {}
    OBVIOUS
  <2>7. /\ Jaccard(p, q) = IF a \cup b = {} THEN 0 ELSE (100 * c) \div d
        /\ Jaccard(q, p) = IF b \cup a = {} THEN 0 ELSE (100 * c) \div d
    BY <2>3, <2>4, <2>5
  <2>8. QED
    BY <2>6, <2>7
<1>4. Ratio(q, p) = Ratio(p, q)
  <2>1. PICK m, n : m = Len(p.tokens) /\ n = Len(q.tokens)
    OBVIOUS
  <2>2. {m, n} = {n, m}
    OBVIOUS
  <2>3. /\ Ratio(p, q) = IF m = 0 \/ n = 0 THEN 0 ELSE (100 * Min({m, n})) \div Max({m, n})
        /\ Ratio(q, p) = IF n = 0 \/ m = 0 THEN 0 ELSE (100 * Min({n, m})) \div Max({n, m})
    BY <2>1 DEF Ratio
  <2>4. PICK c, d : c = Min({m, n}) /\ d = Max({m, n})
    OBVIOUS
  <2>5. c = Min({n, m}) /\ d = Max({n, m})
    BY <2>2, <2>4, Zenon
  <2>6. /\ Ratio(p, q) = IF m = 0 \/ n = 0 THEN 0 ELSE (100 * c) \div d
        /\ Ratio(q, p) = IF n = 0 \/ m = 0 THEN 0 ELSE (100 * c) \div d
    BY <2>3, <2>4, <2>5
  <2>7. QED
    BY <2>6
<1>5. Confidence(q, p) = Confidence(p, q)
  BY <1>2, <1>3 DEF Confidence
<1>6. QED
  BY <1>2, <1>3, <1>4, <1>5 DEF Similar

LEMMA AlikeIn ==
  ASSUME NEW E, NEW rows \in Seq(E), NEW field, NEW i \in 1..Len(rows)
  PROVE  /\ Alike(rows, field, i) \in Seq(E)
         /\ \A x : In(Alike(rows, field, i), x) <=> In(rows, x) /\ x[field] = rows[i][field]
<1>1. PICK places : places = {j \in 1..Len(rows) : rows[j][field] = rows[i][field]}
  OBVIOUS
<1>2. places \in SUBSET (1..Len(rows))
  BY <1>1
<1>3. Picked(rows, places) \in Seq(E) /\ \A x : In(Picked(rows, places), x) <=> \E j \in places : rows[j] = x
  BY ONLY <1>2, rows \in Seq(E), PickedIn
<1>4. ASSUME NEW x PROVE (\E j \in places : rows[j] = x) <=> In(rows, x) /\ x[field] = rows[i][field]
  BY <1>1 DEF In
<1>5. QED
  BY <1>1, <1>3, <1>4 DEF Alike

LEMMA TwoNames ==
  ASSUME NEW X \in SUBSET Nat, NEW b \in Seq(Rows(X) \cup TypeRows(X)), NEW p, NEW q, In(b, p), In(b, q),
         SymbolId(p) # SymbolId(q)
  PROVE  /\ Len(Distinct(b)) >= 2
         /\ SymbolId(p) \in ToSet(Each(b, SymbolId)) /\ SymbolId(q) \in ToSet(Each(b, SymbolId))
         /\ SymbolId(p) \in ToSet(Distinct(b)) /\ SymbolId(q) \in ToSet(Distinct(b))
<1>1. PICK s \in Seq(Nat) : s = Each(b, SymbolId) /\ Len(s) = Len(b)
  BY SymbolIds
<1>2. PICK n \in Nat : n = Len(b) /\ DOMAIN b = 1..n
  OBVIOUS
<1>3. DOMAIN s = 1..n /\ \A i \in 1..n : s[i] = SymbolId(b[i])
  BY <1>1, <1>2 DEF Each
<1>4. SymbolId(p) \in ToSet(s) /\ SymbolId(q) \in ToSet(s)
  BY <1>2, <1>3 DEF In, ToSet
<1>5. IsFiniteSet(ToSet(s)) /\ ToSet(s) \subseteq Nat
  BY EntriesAreFinite
<1>6. PICK T, t : T = ToSet(s) /\ t = Sorted(T)
  OBVIOUS
<1>7. T \in SUBSET Int
  BY <1>5, <1>6
<1>8. t \in Seq(T) /\ \A x \in T : \E i \in 1..Len(t) : t[i] = x
  BY ONLY <1>5, <1>6, <1>7, SortedFacts
<1>9. t = Distinct(b)
  BY <1>1, <1>6 DEF Distinct, SortUniq
<1>10. PICK i \in 1..Len(t), j \in 1..Len(t) : t[i] = SymbolId(p) /\ t[j] = SymbolId(q)
  BY <1>4, <1>6, <1>8
<1>11. i # j /\ Len(t) \in Nat
  BY <1>8, <1>10
<1>12. Len(t) >= 2
  BY <1>11
<1>13. DOMAIN t = 1..Len(t)
  BY <1>8
<1>14. SymbolId(p) \in ToSet(t) /\ SymbolId(q) \in ToSet(t)
  BY <1>10, <1>13 DEF ToSet
<1>15. QED
  BY <1>1, <1>4, <1>9, <1>12, <1>14

(* A finding of copies names both.                                         *)
Names(x, p, q) == SymbolId(p) \in ToSet(x.symbols) /\ SymbolId(q) \in ToSet(x.symbols)

LEMMA SameTokensReported ==
  ASSUME NEW X \in SUBSET Nat, NEW rows \in Seq(Rows(X)), NEW p, NEW q, In(rows, p), In(rows, q),
         BigEnough(p), BigEnough(q), p.tokens = q.tokens, SymbolId(p) # SymbolId(q)
  PROVE  \E x : In(ExactReports(rows), x) /\ Names(x, p, q)
<1>1. PICK big, E : big = Big(rows) /\ E = Rows(X)
  OBVIOUS
<1>2. big \in Seq(E) /\ In(big, p) /\ In(big, q)
  BY <1>1, KeptRows
<1>3. PICK i \in 1..Len(big) : big[i] = p
  BY <1>2 DEF In
<1>4. PICK b : b = Alike(big, "tokens", i)
  OBVIOUS
<1>5. b \in Seq(E) /\ \A x : In(b, x) <=> In(big, x) /\ x["tokens"] = big[i]["tokens"]
  BY <1>2, <1>4, AlikeIn
<1>6. In(b, p) /\ In(b, q)
  BY <1>2, <1>3, <1>5
<1>7. b \in Seq(Rows(X) \cup TypeRows(X))
  <2>1. PICK D : D = Rows(X) \cup TypeRows(X)
    OBVIOUS
  <2>2. E \subseteq D
    BY <1>1, <2>1
  <2>3. b \in Seq(D)
    BY <1>5, <2>2, WidenedSeq
  <2>4. QED
    BY <2>1, <2>3
<1>8. /\ Len(Distinct(b)) >= 2
      /\ SymbolId(p) \in ToSet(Each(b, SymbolId)) /\ SymbolId(q) \in ToSet(Each(b, SymbolId))
  BY <1>6, <1>7, TwoNames
<1>9. In(ExactReports(rows), ExactOf(b))
  <2>1. 1 \in Nat
    OBVIOUS
  <2>2. \A x : In(ExactReports(rows), x)
               <=> \E k \in 1..Len(Big(rows)) : /\ x = ExactOf(Alike(Big(rows), "tokens", k))
                                                /\ Len(Distinct(Alike(Big(rows), "tokens", k))) >= 2
    BY ONLY <2>1, X \in SUBSET Nat, rows \in Seq(Rows(X)), ExactAre
  <2>3. QED
    BY <1>1, <1>4, <1>8, <2>2
<1>10. ExactOf(b).symbols = Each(b, SymbolId)
  BY DEF ExactOf, SemanticClone
<1>11. QED
  BY <1>8, <1>9, <1>10 DEF Names

LEMMA SimilarReported ==
  ASSUME NEW X \in SUBSET Nat, NEW rows \in Seq(Rows(X)), NEW p, NEW q, In(rows, p), In(rows, q),
         BigEnough(p), BigEnough(q), Similar(p, q), Hamming(p, q) < Bands
  PROVE  \E x : In(NearReports(rows), x) /\ Names(x, p, q)
<1>1. PICK n \in Nat : n = Len(rows) /\ DOMAIN rows = 1..n /\ \A i \in 1..n : rows[i] \in Rows(X)
  OBVIOUS
<1>2. PICK i \in 1..n, j \in 1..n : rows[i] = p /\ rows[j] = q
  BY <1>1 DEF In
<1>3. i # j
  BY <1>2 DEF Similar
<1>4. Similar(q, p) /\ Hamming(q, p) = Hamming(p, q)
  <2>1. SymDiff(q.simhash, p.simhash) = SymDiff(p.simhash, q.simhash)
    BY DEF SymDiff
  <2>2. QED
    BY <2>1, SimilarBothWays DEF Hamming
<1>5. SameBand(p, q) /\ SameBand(q, p)
  BY <1>1, <1>2, <1>4, CloseShareBand
<1>6. PICK c \in NearPairs(rows) : (rows[c[1]] = p /\ rows[c[2]] = q) \/ (rows[c[1]] = q /\ rows[c[2]] = p)
  <2>1. CASE i < j
    <3>1. PICK c : c = <<i, j>>
      OBVIOUS
    <3>2. c \in NearPairs(rows)
      BY <1>1, <1>2, <1>5, <2>1, <3>1 DEF NearPairs, Candidates
    <3>3. QED
      BY <1>2, <3>1, <3>2
  <2>2. CASE j < i
    <3>1. PICK c : c = <<j, i>>
      OBVIOUS
    <3>2. c \in NearPairs(rows)
      BY <1>1, <1>2, <1>4, <1>5, <2>2, <3>1 DEF NearPairs, Candidates
    <3>3. QED
      BY <1>2, <3>1, <3>2
  <2>3. QED
    BY <1>3, <2>1, <2>2
<1>7. PICK x : x = NearOf(rows[c[1]], rows[c[2]])
  OBVIOUS
<1>8. In(NearReports(rows), x)
  BY <1>7, NearAre
<1>9. x.symbols = <<SymbolId(p), SymbolId(q)>> \/ x.symbols = <<SymbolId(q), SymbolId(p)>>
  BY <1>6, <1>7 DEF NearOf, SemanticClone
<1>10. \A a, b : a \in ToSet(<<a, b>>) /\ b \in ToSet(<<a, b>>)
  <2>1. TAKE a, b
  <2>2. PICK s : s = <<a, b>>
    OBVIOUS
  <2>3. DOMAIN s = 1..2 /\ s[1] = a /\ s[2] = b
    BY <2>2
  <2>4. QED
    BY <2>2, <2>3 DEF ToSet
<1>11. QED
  BY <1>8, <1>9, <1>10 DEF Names

Close(p, q) == p.tokens = q.tokens \/ (Similar(p, q) /\ Hamming(p, q) < Bands)
CloseFound(max) ==
  LET rows == ClonesOf(Indexed)
      reports == DetectClones(rows, max)
  IN Len(reports) < max => \A i, j \in DOMAIN rows :
       SymbolId(rows[i]) < SymbolId(rows[j]) /\ Close(rows[i], rows[j])
       => \E k \in DOMAIN reports : {SymbolId(rows[i]), SymbolId(rows[j])} \subseteq ToSet(reports[k].symbols)

LEMMA CloseAreReported == ASSUME DocsInv, NEW max \in Nat \ {0} PROVE CloseFound(max)
<1>1. PICK X, rows, reports : X = Indexed /\ rows = ClonesOf(X) /\ reports = DetectClones(rows, max)
  OBVIOUS
<1>2. X \in SUBSET Files /\ X \in SUBSET Nat
  BY <1>1 DEF Indexed, Files
<1>3. rows \in Seq(Rows(X)) /\ \A x : In(rows, x) => BigEnough(x)
  BY <1>1, <1>2, CloneRowsAre
<1>4. CutFrom(reports, Copies(rows), max)
  BY ONLY <1>1, <1>2, <1>3, max \in Nat \ {0}, ClonesAre
<1>5. reports \in Seq(AllFindings) /\ (Len(reports) < max => \A x \in Copies(rows) : In(reports, x))
  BY <1>4 DEF CutFrom
<1>6. ASSUME Len(reports) < max, NEW i \in DOMAIN rows, NEW j \in DOMAIN rows,
             SymbolId(rows[i]) < SymbolId(rows[j]), Close(rows[i], rows[j])
      PROVE  \E k \in DOMAIN reports : {SymbolId(rows[i]), SymbolId(rows[j])} \subseteq ToSet(reports[k].symbols)
  <2>1. PICK p \in Rows(X), q \in Rows(X) : p = rows[i] /\ q = rows[j] /\ In(rows, p) /\ In(rows, q)
    BY <1>3 DEF In
  <2>2. SymbolId(p) # SymbolId(q)
    <3>1. SymbolId(p) \in Nat /\ SymbolId(q) \in Nat
      BY <1>2, RowIds
    <3>2. QED
      BY <1>6, <2>1, <3>1
  <2>3. BigEnough(p) /\ BigEnough(q) /\ Close(p, q)
    BY <1>3, <1>6, <2>1
  <2>4. PICK x \in Copies(rows) : Names(x, p, q)
    <3>0. ExactReports(rows) \in Seq(AllFindings) /\ NearReports(rows) \in Seq(AllFindings)
      BY <1>2, <1>3, ExactAre, NearAre
    <3>1. CASE p.tokens = q.tokens
      <4>1. \E x : In(ExactReports(rows), x) /\ Names(x, p, q)
        BY <1>2, <1>3, <2>1, <2>2, <2>3, <3>1, SameTokensReported
      <4>2. QED
        BY <3>0, <4>1, InIsToSet DEF Copies
    <3>2. CASE Similar(p, q) /\ Hamming(p, q) < Bands
      <4>1. \E x : In(NearReports(rows), x) /\ Names(x, p, q)
        BY <1>2, <1>3, <2>1, <2>3, <3>2, SimilarReported
      <4>2. QED
        BY <3>0, <4>1, InIsToSet DEF Copies
    <3>3. QED
      BY <2>3, <3>1, <3>2 DEF Close
  <2>5. PICK k \in 1..Len(reports) : reports[k] = x
    BY <1>5, <1>6, <2>4 DEF In
  <2>6. DOMAIN reports = 1..Len(reports)
    BY <1>5
  <2>7. QED
    BY <2>1, <2>4, <2>5, <2>6 DEF Names
<1>7. QED
  BY <1>1, <1>6 DEF CloseFound

(* Of two copies - the same tokens, or similar ones whose simhashes differ   *)
(* in fewer bits than there are bands - one report names both, under every   *)
(* cap the detector stays below.                                            *)
THEOREM CloseFoundUnderAnyCap == Spec => [](\A max \in Nat \ {0} : CloseFound(max))
<1>1. DocsInv => \A max \in Nat \ {0} : CloseFound(max)
  BY CloseAreReported
<1>2. QED
  BY <1>1, SpecDocs, PTL

(* Under the cap the check uses.                                           *)
THEOREM CloseClonesAreFoundCorrect == Spec => []CloseClonesAreFound
<1>1. DocsInv => CloseClonesAreFound
  <2>1. SUFFICES ASSUME DocsInv PROVE CloseClonesAreFound
    OBVIOUS
  <2>2. Many \in Nat \ {0}
    BY DEF Many
  <2>3. CloseFound(Many)
    BY <2>1, <2>2, CloseAreReported
  <2>4. QED
    BY <2>3 DEF CloseFound, Close, CloseClonesAreFound
<1>2. QED
  BY <1>1, SpecDocs, PTL

(***************************************************************************)
(* What the detectors read of the tables besides the rows.                 *)
(***************************************************************************)
ExportRecords == [file : Files, name : Nat, signature : Nat]
Unique(S) == IsFiniteSet(S) /\ \A x, y \in S : x.file = y.file /\ x.name = y.name => x = y
AnswerInv ==
  /\ DocsInv
  /\ conflicts \in Seq(AllFindings)
  /\ baseline \subseteq ExportRecords /\ Unique(baseline)

LEMMA ExportsAreRecords ==
  ASSUME DocsInv, NEW X \in SUBSET Files PROVE Exports(X) \subseteq ExportRecords /\ Unique(Exports(X))
<1>1. Unique(Exports(X))
  BY ExportRows DEF Unique
<1>2. ASSUME NEW x \in Exports(X) PROVE x \in ExportRecords
  <2>1. PICK f \in X : \E e \in docs[f].exports : x = [file |-> f, name |-> e.name, signature |-> e.signature]
    BY DEF Exports
  <2>2. PICK e \in docs[f].exports : x = [file |-> f, name |-> e.name, signature |-> e.signature]
    BY <2>1
  <2>3. docs[f] # NoDoc
    BY DEF NoDoc
  <2>4. docs[f] \in Projects[project][f] /\ project \in DOMAIN Projects
    BY <2>3 DEF DocsInv, TypeOK
  <2>5. e.name \in Nat /\ e.signature \in Nat
    BY <2>4, ProjectsAssumption
  <2>6. QED
    BY <2>2, <2>5 DEF ExportRecords
<1>3. QED
  BY <1>1, <1>2

LEMMA InitAnswers == Init => AnswerInv
<1>1. SUFFICES ASSUME Init PROVE AnswerInv
  OBVIOUS
<1>2. PICK s : s = <<>>
  OBVIOUS
<1>3. s \in Seq(AllFindings)
  BY <1>2
<1>4. IsFiniteSet({})
  BY FS_EmptySet
<1>5. QED
  BY <1>1, <1>2, <1>3, <1>4, InitDocs DEF Init, GraphInit, AnswerInv, Unique

LEMMA NextAnswers == ASSUME AnswerInv, [Next]_vars PROVE AnswerInv'
<1>0. DocsInv'
  BY NextDocs DEF AnswerInv
<1>1. conflicts' \in Seq(AllFindings)
  <2>1. CASE UNCHANGED conflicts
    BY <2>1 DEF AnswerInv
  <2>2. CASE conflicts' \in Conflicts
    BY <2>2, ConflictsAssumption
  <2>3. QED
    BY <2>1, <2>2 DEF Next, vars
<1>2. baseline' = baseline \/ baseline' = Exports(Indexed)
  BY DEF Next, GraphNext, UpsertFile, RemoveFile, EnsureApiBaseline, vars, graphVars
<1>3. Exports(Indexed) \subseteq ExportRecords /\ Unique(Exports(Indexed))
  <2>1. DocsInv /\ Indexed \in SUBSET Files
    BY DEF AnswerInv, Indexed
  <2>2. QED
    BY <2>1, ExportsAreRecords
<1>4. PICK b : b = baseline'
  OBVIOUS
<1>5. b \subseteq ExportRecords /\ Unique(b)
  BY <1>2, <1>3, <1>4 DEF AnswerInv
<1>6. QED
  BY <1>0, <1>1, <1>4, <1>5 DEF AnswerInv, Unique, ExportRecords

LEMMA SpecAnswers == Spec => []AnswerInv
<1>1. AnswerInv /\ [Next]_vars => AnswerInv'
  BY NextAnswers
<1>2. QED
  BY InitAnswers, <1>1, PTL DEF Spec

(***************************************************************************)
(* Cycles.                                                                 *)
(***************************************************************************)
LEMMA ComponentLists ==
  ASSUME NEW G, IsGraph(G), NEW N, DOMAIN G \subseteq N
  PROVE  Kept(TarjanScc(G), LAMBDA c : Len(c) >= 2) \in Seq(Seq(N))
<1>1. PICK cs : cs = TarjanScc(G)
  OBVIOUS
<1>2. cs \in Seq(Seq(DOMAIN G))
  BY <1>1, TarjanFindsComponents DEF AreTheComponents
<1>3. cs \in Seq(Seq(N))
  <2>1. PICK D : D = DOMAIN G
    OBVIOUS
  <2>2. Seq(D) \subseteq Seq(N)
    <3>1. D \subseteq N
      BY <2>1
    <3>2. ASSUME NEW s \in Seq(D) PROVE s \in Seq(N)
      BY ONLY <3>1, s \in Seq(D), WidenedSeq
    <3>3. QED
      BY ONLY <3>2
  <2>3. PICK A, B : A = Seq(D) /\ B = Seq(N)
    OBVIOUS
  <2>4. A \subseteq B /\ cs \in Seq(A)
    BY <1>2, <2>1, <2>2, <2>3
  <2>5. cs \in Seq(B)
    BY <2>4, WidenedSeq
  <2>6. QED
    BY <2>3, <2>5
<1>4. PICK places : places = {i \in 1..Len(cs) : Len(cs[i]) >= 2}
  OBVIOUS
<1>5. places \in SUBSET (1..Len(cs)) /\ DOMAIN cs = 1..Len(cs)
  BY <1>3, <1>4
<1>6. PICK B : B = Seq(N)
  OBVIOUS
<1>7. cs \in Seq(B)
  BY <1>3, <1>6
<1>8. Picked(cs, places) \in Seq(B)
  BY <1>5, <1>7, PickedIn
<1>9. Kept(cs, LAMBDA c : Len(c) >= 2) = Picked(cs, places)
  BY <1>4, <1>5 DEF Kept
<1>10. QED
  BY <1>1, <1>6, <1>8, <1>9

LEMMA PackagesAreGraph ==
  ASSUME DocsInv
  PROVE  PackageCycles \in Seq(Seq(Nat))
<1>1. PICK G : G = [p \in Packages |-> {q \in Packages : <<p, q>> \in {<<Package[e[1]], Package[e[2]]>> : e \in ImportPairs} /\ p # q}]
  OBVIOUS
<1>2. Packages \subseteq Nat
  BY PackagesAssumption DEF Packages
<1>3. IsFiniteSet(Packages)
  <2>1. PICK P : P = {Package[f] : f \in Files}
    OBVIOUS
  <2>2. PICK of : of = [f \in Files |-> Package[f]]
    OBVIOUS
  <2>3. of \in Surjection(Files, P) /\ IsFiniteSet(Files)
    BY <2>1, <2>2, FilesAreFinite DEF Surjection
  <2>4. IsFiniteSet(P)
    BY ONLY <2>3, FS_Surjection
  <2>5. Packages \subseteq P
    BY <2>1 DEF Packages
  <2>6. QED
    BY ONLY <2>4, <2>5, FS_Subset
<1>4. IsGraph(G) /\ DOMAIN G \subseteq Nat
  BY <1>1, <1>2, <1>3 DEF IsGraph
<1>5. PackageCycles = Kept(TarjanScc(G), LAMBDA c : Len(c) >= 2)
  BY <1>1 DEF PackageCycles
<1>6. QED
  BY <1>4, <1>5, ComponentLists

LEMMA FindingTyped ==
  ASSUME NEW kind \in {"cycle", "dead_code", "api_drift"}, NEW severity \in {Info, Warn, Error}, NEW confidence \in Int,
         NEW files \in Seq(Nat), NEW callers \in SUBSET Files, NEW key \in Seq(Nat)
  PROVE  Finding(kind, severity, confidence, files, callers, key) \in AllFindings
<1>1. PICK s : s = <<>>
  OBVIOUS
<1>2. s \in Seq(Nat)
  BY <1>1
<1>3. QED
  BY <1>1, <1>2 DEF Finding, AllFindings

(* Two lists, capped one after the other.                                  *)
LEMMA BothAreCut ==
  ASSUME NEW one \in Seq(AllFindings), NEW two \in Seq(AllFindings), NEW max \in Nat \ {0},
         NEW first, first = Take(one, max), NEW out,
         out = IF Len(first) >= max THEN first ELSE first \o Take(two, max - Len(first))
  PROVE  CutFrom(out, ToSet(one) \cup ToSet(two), max)
<1>1. /\ first \in Seq(AllFindings) /\ Len(first) = (IF max <= Len(one) THEN max ELSE Len(one))
      /\ \A x : In(first, x) => In(one, x)
      /\ Len(one) <= max => first = one
  BY TakenIn
<1>2. \A x : (In(one, x) <=> x \in ToSet(one)) /\ (In(two, x) <=> x \in ToSet(two))
  BY InIsToSet
<1>3. PICK m \in Nat : m = Len(first) /\ m <= max
  BY <1>1
<1>4. CASE m >= max
  BY <1>1, <1>2, <1>3, <1>4 DEF CutFrom
<1>5. CASE m < max
  <2>1. PICK some : some = Take(two, max - m)
    OBVIOUS
  <2>2. max - m \in Nat
    BY <1>5
  <2>3. /\ some \in Seq(AllFindings) /\ Len(some) = (IF max - m <= Len(two) THEN max - m ELSE Len(two))
        /\ \A x : In(some, x) => In(two, x)
        /\ Len(two) <= max - m => some = two
    BY <2>1, <2>2, TakenIn
  <2>4. out = first \o some
    BY <1>3, <1>5, <2>1
  <2>5. out \in Seq(AllFindings) /\ Len(out) = m + Len(some)
    BY <1>1, <1>3, <2>3, <2>4, Joined
  <2>6. \A x : In(out, x) <=> In(first, x) \/ In(some, x)
    <3>1. first \in Seq(AllFindings) /\ some \in Seq(AllFindings)
      BY <1>1, <2>3
    <3>2. \A x : In(first \o some, x) <=> In(first, x) \/ In(some, x)
      BY ONLY <3>1, InJoined
    <3>3. QED
      BY ONLY <2>4, <3>2
  <2>7. Len(some) <= max - m /\ Len(some) \in Nat
    BY <2>2, <2>3
  <2>8. Len(out) <= max
    BY <2>5, <2>7
  <2>9. ASSUME Len(out) < max PROVE first = one /\ some = two
    <3>1. Len(one) \in Nat /\ Len(two) \in Nat
      OBVIOUS
    <3>2. Len(some) < max - m
      BY <2>5, <2>7, <2>9
    <3>3. QED
      BY <1>1, <1>3, <1>5, <2>3, <3>1, <3>2
  <2>10. QED
    BY <1>1, <1>2, <2>3, <2>5, <2>6, <2>8, <2>9 DEF CutFrom
<1>6. QED
  BY <1>3, <1>4, <1>5

PackageCycleFinding(nodes) == Finding("cycle", Error, 98, nodes, {}, <<2, 1>> \o nodes)
AllFileCycles == Each(FileCycles, CycleFinding)
AllPackageCycles == Each(PackageCycles, PackageCycleFinding)
AllCycles == ToSet(AllFileCycles) \cup ToSet(AllPackageCycles)

LEMMA CyclesAreFindings ==
  ASSUME NEW nodes \in Seq(Nat)
  PROVE  CycleFinding(nodes) \in AllFindings /\ PackageCycleFinding(nodes) \in AllFindings
<1>1. PICK a \in Seq(Nat), b \in Seq(Nat) : a = <<2, 0>> /\ b = <<2, 1>>
  <2>1. <<2, 0>> \in Seq(Nat) /\ <<2, 1>> \in Seq(Nat)
    OBVIOUS
  <2>2. QED
    BY <2>1
<1>2. a \o nodes \in Seq(Nat) /\ b \o nodes \in Seq(Nat)
  BY Joined
<1>3. PICK sev \in {Info, Warn, Error} : sev = IF Len(nodes) > 3 THEN Error ELSE Warn
  OBVIOUS
<1>4. 95 \in Int /\ 98 \in Int /\ {} \in SUBSET Files /\ "cycle" \in {"cycle", "dead_code", "api_drift"}
      /\ Error \in {Info, Warn, Error}
  OBVIOUS
<1>5. Finding("cycle", sev, 95, nodes, {}, a \o nodes) \in AllFindings
  BY ONLY <1>2, <1>4, nodes \in Seq(Nat), sev \in {Info, Warn, Error}, FindingTyped
<1>6. Finding("cycle", Error, 98, nodes, {}, b \o nodes) \in AllFindings
  BY ONLY <1>2, <1>4, nodes \in Seq(Nat), FindingTyped
<1>7. QED
  BY <1>1, <1>3, <1>5, <1>6 DEF CycleFinding, PackageCycleFinding

LEMMA CyclesAreCut ==
  ASSUME DocsInv, NEW max \in Nat \ {0} PROVE CutFrom(CycleFindings(max), AllCycles, max)
<1>1. FileCycles \in Seq(Seq(Nat))
  <2>1. IsGraph(ForwardNeighbors) /\ DOMAIN ForwardNeighbors \subseteq Nat
    BY FilesAreGraph DEF Files
  <2>2. QED
    BY <2>1, ComponentLists DEF FileCycles
<1>2. PackageCycles \in Seq(Seq(Nat))
  BY PackagesAreGraph
<1>3. PICK n \in Nat : n = Len(FileCycles) /\ DOMAIN FileCycles = 1..n /\ \A i \in 1..n : FileCycles[i] \in Seq(Nat)
  BY <1>1
<1>4. PICK m \in Nat : m = Len(PackageCycles) /\ DOMAIN PackageCycles = 1..m /\ \A i \in 1..m : PackageCycles[i] \in Seq(Nat)
  BY <1>2
<1>5. AllFileCycles \in Seq(AllFindings)
  <2>1. \A i \in 1..n : CycleFinding(FileCycles[i]) \in AllFindings
    BY <1>3, CyclesAreFindings
  <2>2. AllFileCycles \in [1..n -> AllFindings]
    BY <1>3, <2>1 DEF AllFileCycles, Each
  <2>3. QED
    BY <2>2
<1>6. AllPackageCycles \in Seq(AllFindings)
  <2>1. \A i \in 1..m : PackageCycleFinding(PackageCycles[i]) \in AllFindings
    BY <1>4, CyclesAreFindings
  <2>2. AllPackageCycles \in [1..m -> AllFindings]
    BY <1>4, <2>1 DEF AllPackageCycles, Each
  <2>3. QED
    BY <2>2
<1>7. PICK first, out : first = Take(AllFileCycles, max) /\ out = CycleFindings(max)
  OBVIOUS
<1>8. \A k : PackageCycleFindings(k) = Take(AllPackageCycles, k)
  BY DEF PackageCycleFindings, AllPackageCycles, PackageCycleFinding, Each
<1>9. out = IF Len(first) >= max THEN first ELSE first \o Take(AllPackageCycles, max - Len(first))
  BY <1>7, <1>8 DEF CycleFindings, AllFileCycles
<1>10. CutFrom(out, ToSet(AllFileCycles) \cup ToSet(AllPackageCycles), max)
  BY <1>5, <1>6, <1>7, <1>9, BothAreCut
<1>11. QED
  BY <1>7, <1>10 DEF AllCycles

(***************************************************************************)
(* Dead exports and drifted ones.                                          *)
(***************************************************************************)
DeadFinding(e) ==
  LET risk == DynamicImportRisk(e.file)
  IN Finding("dead_code", IF risk THEN Info ELSE Warn, IF risk THEN 55 ELSE 86, <<e.file>>, {}, <<3, e.file, e.name>>)
DeadRows == {e \in Exports(Indexed) : e.file \notin ReachableFiles(LoadedGraph)}
AllDead == Each(ByFileThenName(DeadRows), DeadFinding)

LEMMA EnumeratedTyped ==
  ASSUME NEW S, NEW e, Enumerates(e, S), NEW E, NEW r, DOMAIN r = DOMAIN e, r = [i \in DOMAIN r |-> r[i]],
         \A i \in DOMAIN e : r[i] \in E
  PROVE  r \in Seq(E)
<1>1. PICK n \in Nat : DOMAIN e = 1..n
  BY DEF Enumerates
<1>2. r \in [1..n -> E]
  BY <1>1
<1>3. QED
  BY <1>2

LEMMA RecordKeys ==
  ASSUME NEW b \in ExportRecords
  PROVE  /\ <<b.file>> \in Seq(Nat) /\ <<3, b.file, b.name>> \in Seq(Nat) /\ <<1, b.file, b.name, b.signature>> \in Seq(Nat)
         /\ b.file \in Files
<1>1. PICK i \in Nat, j \in Nat, k \in Nat : i = b.file /\ j = b.name /\ k = b.signature
  BY DEF ExportRecords, Files
<1>2. <<i>> \in Seq(Nat) /\ <<3, i, j>> \in Seq(Nat) /\ <<1, i, j, k>> \in Seq(Nat)
  OBVIOUS
<1>3. QED
  BY <1>1, <1>2 DEF ExportRecords

LEMMA DeadAreCut ==
  ASSUME DocsInv, NEW max \in Nat \ {0} PROVE CutFrom(DeadCodeFindings(max), ToSet(AllDead), max)
<1>1. PICK S, e : S = DeadRows /\ e = ByFileThenName(S)
  OBVIOUS
<1>2. Indexed \in SUBSET Files /\ S \subseteq Exports(Indexed)
  BY <1>1 DEF Indexed, DeadRows
<1>3. Enumerates(e, S) /\ S \subseteq ExportRecords
  <2>1. KeyedRows(S)
    BY <1>2, ExportsAreKeyed, SomeAreKeyed
  <2>2. QED
    BY <1>1, <1>2, <2>1, RowsByFileThenName, ExportsAreRecords
<1>4. ASSUME NEW x \in S PROVE DeadFinding(x) \in AllFindings
  <2>1. <<x.file>> \in Seq(Nat) /\ <<3, x.file, x.name>> \in Seq(Nat)
    BY <1>3, RecordKeys
  <2>2. PICK sev \in {Info, Warn, Error}, conf \in Int :
          sev = (IF DynamicImportRisk(x.file) THEN Info ELSE Warn) /\ conf = (IF DynamicImportRisk(x.file) THEN 55 ELSE 86)
    OBVIOUS
  <2>3. DeadFinding(x) = Finding("dead_code", sev, conf, <<x.file>>, {}, <<3, x.file, x.name>>)
    BY <2>2 DEF DeadFinding
  <2>4. "dead_code" \in {"cycle", "dead_code", "api_drift"} /\ {} \in SUBSET Files
    OBVIOUS
  <2>5. Finding("dead_code", sev, conf, <<x.file>>, {}, <<3, x.file, x.name>>) \in AllFindings
    BY ONLY <2>1, <2>4, sev \in {Info, Warn, Error}, conf \in Int, FindingTyped
  <2>6. QED
    BY ONLY <2>3, <2>5
<1>5. PICK r : r = [i \in DOMAIN e |-> DeadFinding(e[i])]
  OBVIOUS
<1>6. r \in Seq(AllFindings)
  <2>1. \A i \in DOMAIN e : e[i] \in S
    BY <1>3 DEF Enumerates
  <2>2. DOMAIN r = DOMAIN e /\ r = [i \in DOMAIN r |-> r[i]] /\ \A i \in DOMAIN e : r[i] \in AllFindings
    BY <1>4, <1>5, <2>1
  <2>3. QED
    BY ONLY <1>3, <2>2, EnumeratedTyped
<1>7. r = AllDead
  BY <1>1, <1>5 DEF AllDead, Each
<1>8. DeadCodeFindings(max) = Take(r, max)
  BY <1>7 DEF DeadCodeFindings, DeadCode, DynamicImportRisk, LoadedGraph, AllDead, DeadRows, DeadFinding, Each
<1>9. QED
  BY <1>6, <1>7, <1>8, TakenIsCut

DriftFinding(b) ==
  Finding("api_drift", Error, IF Removed(b) THEN 98 ELSE 97, <<b.file>>, ReverseDependentsOf(b.file, 12),
          <<1, b.file, b.name, b.signature>>)
Drifts == SortedBy({b \in baseline : Drifted(b)}, LAMBDA a, b : KeyLess(<<a.name, a.file>>, <<b.name, b.file>>))
AllDrifts == Each(Drifts, DriftFinding)

LEMMA DriftsAreListed ==
  ASSUME AnswerInv PROVE Enumerates(Drifts, {b \in baseline : Drifted(b)})
<1> DEFINE Ahead(a, b) == KeyLess(<<a.name, a.file>>, <<b.name, b.file>>)
<1>1. PICK S, R : S = {b \in baseline : Drifted(b)} /\ R = {p \in S \X S : Ahead(p[1], p[2])}
  OBVIOUS
<1>2. /\ IsFiniteSet(S)
      /\ \A x \in S : x.file \in Nat /\ x.name \in Nat
      /\ \A x, y \in S : x.file = y.file /\ x.name = y.name => x = y
  <2>1. S \subseteq baseline
    BY <1>1
  <2>2. IsFiniteSet(baseline) /\ baseline \subseteq ExportRecords
    BY DEF AnswerInv, Unique
  <2>3. IsFiniteSet(S)
    BY ONLY <2>1, <2>2, FS_Subset
  <2>4. \A x \in S : x.file \in Nat /\ x.name \in Nat
    BY <2>1, <2>2 DEF ExportRecords, Files
  <2>5. \A x, y \in S : x.file = y.file /\ x.name = y.name => x = y
    BY <2>1 DEF AnswerInv, Unique
  <2>6. QED
    BY <2>3, <2>4, <2>5
<1>3. \A x, y \in S : Ahead(x, y) <=> x.name < y.name \/ (x.name = y.name /\ x.file < y.file)
  BY <1>2, PairLess
<1>4. \A x, y \in S : <<x, y>> \in R <=> Ahead(x, y)
  BY <1>1
<1>5. PICK e : e = [i \in 1..Cardinality(S) |-> CHOOSE x \in S : Cardinality({y \in S : Ahead(y, x)}) = i - 1]
  OBVIOUS
<1>6. Drifts = e
  BY <1>1, <1>5 DEF Drifts, SortedBy
<1> HIDE DEF Ahead
<1>7. \A x \in S : {y \in S : Ahead(y, x)} = {y \in S : <<y, x>> \in R}
  BY <1>4
<1>8. \A i : (CHOOSE x \in S : Cardinality({y \in S : Ahead(y, x)}) = i - 1)
             = (CHOOSE x \in S : Cardinality({y \in S : <<y, x>> \in R}) = i - 1)
  BY <1>7, Zenon
<1>9. e = InOrder(S, R)
  <2> DEFINE At(i) == CHOOSE x \in S : Cardinality({y \in S : Ahead(y, x)}) = i - 1
             To(i) == CHOOSE x \in S : Cardinality({y \in S : <<y, x>> \in R}) = i - 1
  <2>1. e = [i \in 1..Cardinality(S) |-> At(i)] /\ InOrder(S, R) = [i \in 1..Cardinality(S) |-> To(i)]
    BY <1>5 DEF InOrder
  <2>2. \A i : At(i) = To(i)
    BY <1>8
  <2> HIDE DEF At, To
  <2>3. QED
    BY <2>1, <2>2
<1>10. StrictOrder(R, S)
  <2>1. ASSUME NEW x \in S PROVE <<x, x>> \notin R
    BY <1>2, <1>3, <1>4
  <2>2. ASSUME NEW x \in S, NEW y \in S, NEW z \in S, <<x, y>> \in R, <<y, z>> \in R PROVE <<x, z>> \in R
    <3>1. Ahead(x, y) /\ Ahead(y, z)
      BY <1>4, <2>2
    <3>2. Ahead(x, z)
      BY <1>2, <1>3, <3>1
    <3>3. QED
      BY <1>4, <3>2
  <2>3. ASSUME NEW x \in S, NEW y \in S PROVE x = y \/ <<x, y>> \in R \/ <<y, x>> \in R
    <3>1. x = y \/ x.file # y.file \/ x.name # y.name
      BY <1>2
    <3>2. x = y \/ Ahead(x, y) \/ Ahead(y, x)
      BY <1>2, <1>3, <3>1
    <3>3. QED
      BY <1>4, <3>2
  <2>4. QED
    BY <2>1, <2>2, <2>3 DEF StrictOrder
<1>11. EnumeratesBy(e, S, R)
  BY <1>2, <1>9, <1>10, Enumeration
<1>12. Enumerates(e, S)
  BY <1>11 DEF EnumeratesBy, Enumerates, Bijection, Injection, Surjection
<1>13. QED
  BY <1>1, <1>6, <1>12

LEMMA DriftsAreCut ==
  ASSUME AnswerInv, NEW max \in Nat \ {0} PROVE CutFrom(ApiDriftFindings(max), ToSet(AllDrifts), max)
<1>1. PICK S, e : S = {b \in baseline : Drifted(b)} /\ e = Drifts
  OBVIOUS
<1>2. Enumerates(e, S) /\ S \subseteq ExportRecords
  BY <1>1, DriftsAreListed DEF AnswerInv
<1>3. ASSUME NEW b \in S PROVE DriftFinding(b) \in AllFindings
  <2>1. <<b.file>> \in Seq(Nat) /\ <<1, b.file, b.name, b.signature>> \in Seq(Nat) /\ b.file \in Files
    BY <1>2, RecordKeys
  <2>2. ReverseDependentsOf(b.file, 12) \in SUBSET Files
    <3>1. 12 \in Nat \ {0} /\ DocsInv
      BY DEF AnswerInv
    <3>2. ReverseDependentsOf(b.file, 12) \subseteq ImportersOf(b.file)
      BY <2>1, <3>1, DependentsFound DEF AllOrLimit
    <3>3. ReverseNeighbors \in [Files -> SUBSET Files] /\ NFiles \in Nat
      BY <3>1, NeighborsAreFiles, PathsAssumption
    <3>4. ReverseNeighbors[b.file] \in SUBSET Files
      BY <2>1, <3>3
    <3>5. ImportersOf(b.file) \in SUBSET Files
      BY <3>3, <3>4, BallSteps DEF ImportersOf
    <3>6. QED
      BY <3>2, <3>5
  <2>3. PICK conf \in Int : conf = IF Removed(b) THEN 98 ELSE 97
    OBVIOUS
  <2>4. DriftFinding(b) = Finding("api_drift", Error, conf, <<b.file>>, ReverseDependentsOf(b.file, 12),
                                  <<1, b.file, b.name, b.signature>>)
    BY <2>3 DEF DriftFinding
  <2>5. "api_drift" \in {"cycle", "dead_code", "api_drift"} /\ Error \in {Info, Warn, Error}
    OBVIOUS
  <2>6. QED
    BY <2>1, <2>2, <2>4, <2>5, FindingTyped
<1>4. PICK r : r = [i \in DOMAIN e |-> DriftFinding(e[i])]
  OBVIOUS
<1>5. r \in Seq(AllFindings)
  <2>1. \A i \in DOMAIN e : e[i] \in S
    BY <1>2 DEF Enumerates
  <2>2. DOMAIN r = DOMAIN e /\ r = [i \in DOMAIN r |-> r[i]] /\ \A i \in DOMAIN e : r[i] \in AllFindings
    BY <1>3, <1>4, <2>1
  <2>3. QED
    BY ONLY <1>2, <2>2, EnumeratedTyped
<1>6. r = AllDrifts
  BY <1>1, <1>4 DEF AllDrifts, Each
<1>7. ApiDriftFindings(max) = Take(r, max)
  BY <1>6 DEF ApiDriftFindings, AllDrifts, Drifts, DriftFinding, Each
<1>8. QED
  BY <1>5, <1>6, <1>7, TakenIsCut

(***************************************************************************)
(* All detectors together.                                                 *)
(***************************************************************************)
(* What each of them would report without a cap, of the rows of X.          *)
Whole(X) ==
  <<Copies(ClonesOf(X)), ToSet(TypeReports(TypesOf(X))), AllCycles, ToSet(AllDead), ToSet(AllDrifts), ToSet(conflicts)>>

LEMMA DetectedAreCut ==
  ASSUME AnswerInv, NEW X \in SUBSET Files, NEW max \in Nat \ {0}
  PROVE  /\ Detected(X, max) \in Seq(Seq(AllFindings)) /\ Len(Detected(X, max)) = 6
         /\ \A d \in 1..6 : CutFrom(Detected(X, max)[d], Whole(X)[d], max)
<1>1. DocsInv /\ X \in SUBSET Nat /\ conflicts \in Seq(AllFindings)
  BY DEF AnswerInv, Files
<1>2. CutFrom(DetectClones(ClonesOf(X), max), Copies(ClonesOf(X)), max)
  BY <1>1, CloneRowsAre, ClonesAre
<1>3. CutFrom(DetectTypes(TypesOf(X), max), ToSet(TypeReports(TypesOf(X))), max)
  BY <1>1, CloneRowsAre, ShapesAre
<1>4. CutFrom(CycleFindings(max), AllCycles, max)
  BY <1>1, CyclesAreCut
<1>5. CutFrom(DeadCodeFindings(max), ToSet(AllDead), max)
  BY <1>1, DeadAreCut
<1>6. CutFrom(ApiDriftFindings(max), ToSet(AllDrifts), max)
  BY DriftsAreCut
<1>7. CutFrom(Take(conflicts, max), ToSet(conflicts), max)
  BY <1>1, TakenIsCut
<1>8. PICK D, W : D = Detected(X, max) /\ W = Whole(X)
  OBVIOUS
<1>9. D = <<DetectClones(ClonesOf(X), max), DetectTypes(TypesOf(X), max), CycleFindings(max),
            DeadCodeFindings(max), ApiDriftFindings(max), Take(conflicts, max)>>
  BY <1>8 DEF Detected
<1>10. \A d \in 1..6 : CutFrom(D[d], W[d], max)
  BY <1>2, <1>3, <1>4, <1>5, <1>6, <1>7, <1>8, <1>9 DEF Whole
<1>11. DOMAIN D = 1..6 /\ Len(D) = 6 /\ \A d \in 1..6 : D[d] \in Seq(AllFindings)
  BY <1>9, <1>10 DEF CutFrom
<1>12. D \in Seq(Seq(AllFindings))
  BY <1>9, <1>11
<1>13. QED
  BY <1>8, <1>10, <1>11, <1>12

LEMMA KeysAreKept ==
  ASSUME NEW fs \in Seq(AllFindings)
  PROVE  /\ DedupAdjacent(fs) \in Seq(AllFindings)
         /\ \A x : In(DedupAdjacent(fs), x) => In(fs, x)
         /\ \A x : In(fs, x) => \E y : In(DedupAdjacent(fs), y) /\ y.key = x.key
<1>1. PICK n \in Nat : n = Len(fs) /\ DOMAIN fs = 1..n
  OBVIOUS
<1>2. PICK places : places = {j \in 1..n : j = 1 \/ fs[j].key # fs[j - 1].key}
  OBVIOUS
<1>3. places \in SUBSET (1..Len(fs))
  BY <1>1, <1>2
<1>4. DedupAdjacent(fs) = Picked(fs, places)
  BY <1>1, <1>2 DEF DedupAdjacent
<1>5. Picked(fs, places) \in Seq(AllFindings) /\ \A x : In(Picked(fs, places), x) <=> \E j \in places : fs[j] = x
  BY ONLY <1>3, fs \in Seq(AllFindings), PickedIn
<1>6. ASSUME NEW i \in 1..n PROVE \E j \in places : fs[j].key = fs[i].key
  <2>1. PICK T : T = {j \in 1..n : fs[j].key = fs[i].key}
    OBVIOUS
  <2>2. T \in SUBSET Nat /\ T # {}
    BY <2>1
  <2>3. PICK m \in T : \A j \in T : m <= j
    BY ONLY <2>2, SmallestOf
  <2>4. m = 1 \/ (m - 1 \in 1..n /\ m - 1 \notin T)
    BY <2>1, <2>3
  <2>5. QED
    BY <1>2, <2>1, <2>4
<1>7. ASSUME NEW x, In(fs, x) PROVE \E j \in places : fs[j].key = x.key
  BY <1>1, <1>6, <1>7 DEF In
<1>8. ASSUME NEW x, In(Picked(fs, places), x) PROVE In(fs, x)
  BY <1>3, <1>5, <1>8 DEF In
<1>9. ASSUME NEW x, In(fs, x) PROVE \E y : In(Picked(fs, places), y) /\ y.key = x.key
  <2>1. PICK j \in places : fs[j].key = x.key
    BY <1>7, <1>9
  <2>2. In(Picked(fs, places), fs[j])
    BY <1>5
  <2>3. QED
    BY <2>1, <2>2
<1>10. QED
  BY <1>4, <1>5, <1>8, <1>9

LEMMA OrderedKeeps ==
  ASSUME NEW fs \in Seq(AllFindings), NEW max \in Nat
  PROVE  /\ Ordered(fs, max) \in Seq(AllFindings) /\ \A x : In(Ordered(fs, max), x) => In(fs, x)
         /\ Len(Ordered(fs, max)) <= 2 * max
         /\ Len(Ordered(fs, max)) < 2 * max => \A x : In(fs, x) => \E y : In(Ordered(fs, max), y) /\ y.key = x.key
<1>1. PICK sorted, kept, out : sorted = Arranged(fs, Before) /\ kept = DedupAdjacent(sorted) /\ out = Take(kept, 2 * max)
  OBVIOUS
<1>2. sorted \in Seq(AllFindings) /\ \A x : In(sorted, x) <=> In(fs, x)
  BY <1>1, ArrangedIn
<1>3. /\ kept \in Seq(AllFindings) /\ \A x : In(kept, x) => In(sorted, x)
      /\ \A x : In(sorted, x) => \E y : In(kept, y) /\ y.key = x.key
  BY <1>1, <1>2, KeysAreKept
<1>4. 2 * max \in Nat /\ Len(kept) \in Nat
  BY <1>3
<1>5. /\ out \in Seq(AllFindings) /\ Len(out) = (IF 2 * max <= Len(kept) THEN 2 * max ELSE Len(kept))
      /\ \A x : In(out, x) => In(kept, x)
      /\ Len(kept) <= 2 * max => out = kept
  BY <1>1, <1>3, <1>4, TakenIn
<1>6. Len(out) <= 2 * max /\ (Len(out) < 2 * max => out = kept)
  BY <1>4, <1>5
<1>7. Ordered(fs, max) = out
  BY <1>1 DEF Ordered
<1>8. QED
  BY <1>2, <1>3, <1>5, <1>6, <1>7

LEMMA CollectedAre ==
  ASSUME AnswerInv, NEW X \in SUBSET Files, NEW max \in Nat \ {0}
  PROVE  /\ FlattenSeq(Detected(X, max)) \in Seq(AllFindings)
         /\ \A x : In(FlattenSeq(Detected(X, max)), x) <=> \E d \in 1..6 : In(Detected(X, max)[d], x)
<1>1. PICK D : D = Detected(X, max)
  OBVIOUS
<1>2. D \in Seq(Seq(AllFindings)) /\ Len(D) = 6
  BY <1>1, DetectedAreCut
<1>3. FlattenSeq(D) \in Seq(AllFindings)
  BY <1>2, FlattenLists
<1>4. \A x : In(FlattenSeq(D), x) <=> \E d \in 1..6 : In(D[d], x)
  BY <1>2, FlattenEntries
<1>5. QED
  BY <1>1, <1>3, <1>4

Touching(fs, paths) == Kept(fs, LAMBDA f : TouchesPaths(f, paths))
LEMMA TouchingIn ==
  ASSUME NEW fs \in Seq(AllFindings), NEW paths
  PROVE  /\ Touching(fs, paths) \in Seq(AllFindings)
         /\ \A x : In(Touching(fs, paths), x) <=> In(fs, x) /\ TouchesPaths(x, paths)
<1>1. PICK places : places = {i \in 1..Len(fs) : TouchesPaths(fs[i], paths)}
  OBVIOUS
<1>2. places \in SUBSET (1..Len(fs)) /\ DOMAIN fs = 1..Len(fs)
  BY <1>1
<1>3. Touching(fs, paths) = Picked(fs, places)
  BY <1>1, <1>2 DEF Touching, Kept
<1>4. Picked(fs, places) \in Seq(AllFindings) /\ \A x : In(Picked(fs, places), x) <=> \E i \in places : fs[i] = x
  BY ONLY <1>2, fs \in Seq(AllFindings), PickedIn
<1>5. \A x : (\E i \in places : fs[i] = x) <=> In(fs, x) /\ TouchesPaths(x, paths)
  BY <1>1 DEF In
<1>6. QED
  BY <1>3, <1>4, <1>5

LEMMA CollectedTyped ==
  ASSUME AnswerInv, NEW max \in Nat \ {0}
  PROVE  CollectAll(max) \in Seq(AllFindings) /\ \A X \in SUBSET Files : CollectFor(X, max) \in Seq(AllFindings)
<1>1. Indexed \in SUBSET Files /\ max \in Nat
  BY DEF Indexed
<1>2. CollectAll(max) \in Seq(AllFindings)
  <2>1. FlattenSeq(Detected(Indexed, max)) \in Seq(AllFindings)
    BY <1>1, CollectedAre
  <2>2. QED
    BY <1>1, <2>1, OrderedKeeps DEF CollectAll
<1>3. ASSUME NEW X \in SUBSET Files PROVE CollectFor(X, max) \in Seq(AllFindings)
  <2>1. PICK fs \in Seq(AllFindings) : fs = FlattenSeq(Detected(X, max))
    BY CollectedAre
  <2>2. PICK gs \in Seq(AllFindings) : gs = Touching(fs, X)
    BY TouchingIn
  <2>3. CollectFor(X, max) = Ordered(gs, max)
    BY <2>1, <2>2 DEF CollectFor, Touching
  <2>4. QED
    BY <1>1, <2>3, OrderedKeeps
<1>4. QED
  BY <1>2, <1>3

(***************************************************************************)
(* The drift map.                                                          *)
(***************************************************************************)
LEMMA SeverityCovers ==
  ASSUME NEW fs \in Seq(AllFindings), NEW f, In(fs, f)
  PROVE  f.severity <= HighestSeverity(fs)
<1>1. PICK S : S = {Info} \cup {fs[i].severity : i \in DOMAIN fs}
  OBVIOUS
<1>2. \A i \in DOMAIN fs : fs[i].severity \in {Info, Warn, Error}
  <2>1. \A i \in DOMAIN fs : fs[i] \in AllFindings
    OBVIOUS
  <2>2. \A x \in AllFindings : x.severity \in {Info, Warn, Error}
    BY DEF AllFindings
  <2>3. QED
    BY <2>1, <2>2
<1>3. S \in SUBSET (0..2) /\ S # {}
  BY <1>1, <1>2 DEF Info, Warn, Error
<1>4. f.severity \in S
  BY <1>1 DEF In
<1>5. HighestSeverity(fs) = Max(S)
  BY <1>1 DEF HighestSeverity
<1>6. 2 \in Nat
  OBVIOUS
<1>7. QED
  BY <1>3, <1>4, <1>5, <1>6, MaxOf

Kinds == {"file", "package", "type", "session"}
Ids == (Kinds \X Nat) \cup ({"export"} \X Seq(Nat))
Severities == {NoSeverity, Info, Warn, Error}
MapNodes == [id : Ids, severity : Severities]
Kind(f) == IF f.kind = "cycle" /\ ToSet(f.files) \cap Files = {} THEN "package" ELSE "file"

LEMMA NodesAre ==
  ASSUME NEW kind \in Kinds, NEW s \in Seq(Nat), NEW severity \in Severities, NEW t,
         t = [i \in DOMAIN s |-> [id |-> <<kind, s[i]>>, severity |-> severity]]
  PROVE  /\ t \in Seq(MapNodes)
         /\ \A y : In(t, y) <=> \E x \in ToSet(s) : y = [id |-> <<kind, x>>, severity |-> severity]
<1>1. PICK n : n = Len(s)
  OBVIOUS
<1>2. n \in Nat /\ DOMAIN s = 1..n /\ \A i \in 1..n : s[i] \in Nat
  BY ONLY s \in Seq(Nat), <1>1
<1>3. DOMAIN t = 1..n /\ \A i \in 1..n : t[i] = [id |-> <<kind, s[i]>>, severity |-> severity]
  BY <1>2
<1>4. \A i \in 1..n : t[i] \in MapNodes
  <2>1. TAKE i \in 1..n
  <2>2. PICK x \in Nat : x = s[i]
    BY <1>2
  <2>3. <<kind, x>> \in Ids
    BY DEF Ids
  <2>4. [id |-> <<kind, x>>, severity |-> severity] \in MapNodes
    BY <2>3 DEF MapNodes
  <2>5. t[i] = [id |-> <<kind, x>>, severity |-> severity]
    BY <1>3, <2>2
  <2>6. QED
    BY <2>4, <2>5
<1>5. t \in Seq(MapNodes) /\ Len(t) = n
  <2>1. t \in [1..n -> MapNodes]
    <3>1. t = [i \in 1..n |-> t[i]]
      BY <1>2
    <3>2. QED
      BY ONLY <1>3, <1>4, <3>1
  <2>2. QED
    BY ONLY <1>2, <2>1
<1>6. ToSet(s) = {s[i] : i \in 1..n}
  BY <1>2 DEF ToSet
<1>7. ASSUME NEW y PROVE In(t, y) <=> \E x \in ToSet(s) : y = [id |-> <<kind, x>>, severity |-> severity]
  <2>1. In(t, y) <=> \E i \in 1..n : t[i] = y
    BY <1>3, <1>5 DEF In
  <2>2. In(t, y) <=> \E i \in 1..n : y = [id |-> <<kind, s[i]>>, severity |-> severity]
    BY ONLY <1>3, <2>1
  <2>3. QED
    BY ONLY <1>6, <2>2
<1>8. QED
  BY <1>5, <1>7

NodeOf(f, y) ==
  \/ \E x \in ToSet(SessionsOf(f)) : y = [id |-> <<"session", x>>, severity |-> f.severity]
  \/ \E x \in ToSet(f.files) : y = [id |-> <<Kind(f), x>>, severity |-> IF f.kind = "session_conflict" THEN NoSeverity ELSE f.severity]
  \/ \E x \in ToSet(f.symbols) : y = [id |-> <<"type", x>>, severity |-> f.severity]
  \/ f.kind = "api_drift" /\ y = [id |-> <<"export", f.key>>, severity |-> f.severity]
  \/ \E x \in f.callers : y = [id |-> <<"file", x>>, severity |-> NoSeverity]

LEMMA NodesOfFinding ==
  ASSUME NEW f \in AllFindings
  PROVE  NodesOf(f) \in Seq(MapNodes) /\ \A y : In(NodesOf(f), y) <=> NodeOf(f, y)
<1>1. PICK sev \in Severities, low \in Severities, own \in Kinds :
        /\ sev = f.severity /\ low = (IF f.kind = "session_conflict" THEN NoSeverity ELSE f.severity)
        /\ own = Kind(f)
  BY DEF AllFindings, Severities, Kinds, Kind
<1>2. f.files \in Seq(Nat) /\ f.symbols \in Seq(Nat) /\ f.callers \in SUBSET Files /\ f.key \in Seq(Nat)
  BY DEF AllFindings
<1>2a. PICK ss : ss = SessionsOf(f)
  OBVIOUS
<1>2b. ss \in Seq(Nat)
  <2>1. SubSeq(f.key, 2, Len(f.key)) \in Seq(Nat)
    <3>1. PICK k \in Seq(Nat) : k = f.key
      BY <1>2
    <3>2. SubSeq(k, 2, Len(k)) \in Seq(Nat)
      BY ONLY k \in Seq(Nat)
    <3>3. QED
      BY <3>1, <3>2
  <2>2. <<>> \in Seq(Nat)
    OBVIOUS
  <2>3. QED
    BY ONLY <1>2a, <2>1, <2>2 DEF SessionsOf
<1>3. PICK cs : cs = Sorted(f.callers)
  OBVIOUS
<1>4. cs \in Seq(Nat) /\ ToSet(cs) = f.callers
  <2>1. /\ cs \in Seq(Files) /\ (\A i \in 1..Len(cs) : cs[i] \in f.callers)
        /\ \A x \in f.callers : \E i \in 1..Len(cs) : cs[i] = x
    BY <1>2, <1>3, SortedFiles
  <2>2. Files \subseteq Nat
    BY DEF Files
  <2>3. cs \in Seq(Nat)
    BY <2>1, <2>2, WidenedSeq
  <2>4. DOMAIN cs = 1..Len(cs)
    BY ONLY <2>1
  <2>5. ToSet(cs) = {cs[i] : i \in 1..Len(cs)}
    BY <2>4 DEF ToSet
  <2>6. ToSet(cs) = f.callers
    BY ONLY <2>1, <2>5
  <2>7. QED
    BY <2>3, <2>6
<1>5. PICK e, a, b, c, d :
        /\ e = [i \in DOMAIN ss |-> [id |-> <<"session", ss[i]>>, severity |-> sev]]
        /\ a = [i \in DOMAIN f.files |-> [id |-> <<own, f.files[i]>>, severity |-> low]]
        /\ b = [i \in DOMAIN f.symbols |-> [id |-> <<"type", f.symbols[i]>>, severity |-> sev]]
        /\ c = (IF f.kind = "api_drift" THEN <<[id |-> <<"export", f.key>>, severity |-> f.severity]>> ELSE <<>>)
        /\ d = [i \in DOMAIN cs |-> [id |-> <<"file", cs[i]>>, severity |-> NoSeverity]]
  OBVIOUS
<1>6. NodesOf(f) = (((e \o a) \o b) \o c) \o d
  <2>0. e = [i \in DOMAIN SessionsOf(f) |-> [id |-> <<"session", SessionsOf(f)[i]>>, severity |-> f.severity]]
    BY <1>1, <1>2a, <1>5, Zenon
  <2>1. a = [i \in DOMAIN f.files |->
               [id |-> <<IF f.kind = "cycle" /\ ToSet(f.files) \cap Files = {} THEN "package" ELSE "file", f.files[i]>>,
                severity |-> IF f.kind = "session_conflict" THEN NoSeverity ELSE f.severity]]
    BY <1>1, <1>5, Zenon DEF Kind
  <2>2. b = [i \in DOMAIN f.symbols |-> [id |-> <<"type", f.symbols[i]>>, severity |-> f.severity]]
    BY <1>1, <1>5, Zenon
  <2>3. d = [i \in DOMAIN Sorted(f.callers) |-> [id |-> <<"file", Sorted(f.callers)[i]>>, severity |-> NoSeverity]]
    BY <1>3, <1>5, Zenon
  <2>4. c = IF f.kind = "api_drift" THEN <<[id |-> <<"export", f.key>>, severity |-> f.severity]>> ELSE <<>>
    BY <1>5
  <2>5. QED
    BY ONLY <2>0, <2>1, <2>2, <2>3, <2>4, Zenon DEF NodesOf, Each
<1>7. "type" \in Kinds /\ "file" \in Kinds /\ "session" \in Kinds /\ NoSeverity \in Severities
  BY DEF Kinds, Severities
<1>8. a \in Seq(MapNodes) /\ \A y : In(a, y) <=> \E x \in ToSet(f.files) : y = [id |-> <<own, x>>, severity |-> low]
  <2>1. PICK s : s = f.files
    OBVIOUS
  <2>2. a = [i \in DOMAIN s |-> [id |-> <<own, s[i]>>, severity |-> low]]
    BY <1>5, <2>1, Zenon
  <2>3. own \in Kinds /\ low \in Severities /\ s \in Seq(Nat)
    BY <1>1, <1>2, <2>1
  <2>4. a \in Seq(MapNodes) /\ \A y : In(a, y) <=> \E x \in ToSet(s) : y = [id |-> <<own, x>>, severity |-> low]
    BY ONLY <2>2, <2>3, NodesAre
  <2>5. QED
    BY ONLY <2>1, <2>4, Zenon
<1>9. b \in Seq(MapNodes) /\ \A y : In(b, y) <=> \E x \in ToSet(f.symbols) : y = [id |-> <<"type", x>>, severity |-> sev]
  <2>1. PICK s : s = f.symbols
    OBVIOUS
  <2>2. PICK kind : kind = "type"
    OBVIOUS
  <2>3. b = [i \in DOMAIN s |-> [id |-> <<kind, s[i]>>, severity |-> sev]]
    BY <1>5, <2>1, <2>2, Zenon
  <2>4. sev \in Severities /\ s \in Seq(Nat) /\ kind \in Kinds
    BY <1>1, <1>2, <1>7, <2>1, <2>2
  <2>5. b \in Seq(MapNodes) /\ \A y : In(b, y) <=> \E x \in ToSet(s) : y = [id |-> <<kind, x>>, severity |-> sev]
    BY ONLY <2>3, <2>4, NodesAre
  <2>6. QED
    BY ONLY <2>1, <2>2, <2>5, Zenon
<1>10. d \in Seq(MapNodes) /\ \A y : In(d, y) <=> \E x \in ToSet(cs) : y = [id |-> <<"file", x>>, severity |-> NoSeverity]
  <2>1. PICK kind, none : kind = "file" /\ none = NoSeverity
    OBVIOUS
  <2>2. d = [i \in DOMAIN cs |-> [id |-> <<kind, cs[i]>>, severity |-> none]]
    BY <1>5, <2>1, Zenon
  <2>3. none \in Severities /\ cs \in Seq(Nat) /\ kind \in Kinds
    BY <1>4, <1>7, <2>1
  <2>4. d \in Seq(MapNodes) /\ \A y : In(d, y) <=> \E x \in ToSet(cs) : y = [id |-> <<kind, x>>, severity |-> none]
    BY ONLY <2>2, <2>3, NodesAre
  <2>5. QED
    BY ONLY <2>1, <2>4, Zenon
<1>11. /\ c \in Seq(MapNodes)
       /\ \A y : In(c, y) <=> f.kind = "api_drift" /\ y = [id |-> <<"export", f.key>>, severity |-> f.severity]
  <2>1. PICK v : v = [id |-> <<"export", f.key>>, severity |-> f.severity]
    OBVIOUS
  <2>2. v \in MapNodes
    <3>1. <<"export", f.key>> \in Ids
      BY <1>2 DEF Ids
    <3>2. QED
      BY <1>1, <2>1, <3>1 DEF MapNodes
  <2>3. CASE f.kind = "api_drift"
    <3>1. c = <<v>>
      BY <1>5, <2>1, <2>3
    <3>2. c \in Seq(MapNodes) /\ Len(c) = 1 /\ c[1] = v
      BY <2>2, <3>1
    <3>3. \A y : In(c, y) <=> y = v
      BY ONLY <3>2 DEF In
    <3>4. QED
      BY ONLY <2>1, <2>3, <3>2, <3>3
  <2>4. CASE f.kind # "api_drift"
    <3>1. c = <<>>
      BY <1>5, <2>4
    <3>2. c \in Seq(MapNodes) /\ Len(c) = 0
      BY <3>1
    <3>3. \A y : ~In(c, y)
      BY ONLY <3>2 DEF In
    <3>4. QED
      BY ONLY <2>4, <3>2, <3>3
  <2>5. QED
    BY <2>3, <2>4
<1>11a. e \in Seq(MapNodes) /\ \A y : In(e, y) <=> \E x \in ToSet(SessionsOf(f)) : y = [id |-> <<"session", x>>, severity |-> sev]
  <2>1. PICK kind : kind = "session"
    OBVIOUS
  <2>2. e = [i \in DOMAIN ss |-> [id |-> <<kind, ss[i]>>, severity |-> sev]]
    BY <1>5, <2>1, Zenon
  <2>3. sev \in Severities /\ ss \in Seq(Nat) /\ kind \in Kinds
    BY <1>1, <1>2b, <1>7, <2>1
  <2>4. e \in Seq(MapNodes) /\ \A y : In(e, y) <=> \E x \in ToSet(ss) : y = [id |-> <<kind, x>>, severity |-> sev]
    BY ONLY <2>2, <2>3, NodesAre
  <2>5. QED
    BY ONLY <1>2a, <2>1, <2>4, Zenon
<1>11b. PICK ea : ea = e \o a
  OBVIOUS
<1>11c. ea \in Seq(MapNodes) /\ \A y : In(ea, y) <=> In(e, y) \/ In(a, y)
  <2>1. e \in Seq(MapNodes) /\ a \in Seq(MapNodes)
    BY <1>8, <1>11a
  <2>2. ea \in Seq(MapNodes)
    BY ONLY <1>11b, <2>1, Joined
  <2>3. \A y : In(e \o a, y) <=> In(e, y) \/ In(a, y)
    BY ONLY <2>1, InJoined
  <2>4. QED
    BY ONLY <1>11b, <2>2, <2>3
<1>12. PICK ab : ab = ea \o b
  OBVIOUS
<1>13. ab \in Seq(MapNodes) /\ \A y : In(ab, y) <=> In(ea, y) \/ In(b, y)
  <2>1. ea \in Seq(MapNodes) /\ b \in Seq(MapNodes)
    BY <1>9, <1>11c
  <2>2. ab \in Seq(MapNodes)
    BY ONLY <1>12, <2>1, Joined
  <2>3. \A y : In(ea \o b, y) <=> In(ea, y) \/ In(b, y)
    BY ONLY <2>1, InJoined
  <2>4. QED
    BY ONLY <1>12, <2>2, <2>3
<1>14. PICK abc : abc = ab \o c
  OBVIOUS
<1>15. abc \in Seq(MapNodes) /\ \A y : In(abc, y) <=> In(ab, y) \/ In(c, y)
  <2>1. ab \in Seq(MapNodes) /\ c \in Seq(MapNodes)
    BY <1>11, <1>13
  <2>2. abc \in Seq(MapNodes)
    BY ONLY <1>14, <2>1, Joined
  <2>3. \A y : In(ab \o c, y) <=> In(ab, y) \/ In(c, y)
    BY ONLY <2>1, InJoined
  <2>4. QED
    BY ONLY <1>14, <2>2, <2>3
<1>16. PICK all : all = abc \o d
  OBVIOUS
<1>17. all \in Seq(MapNodes) /\ \A y : In(all, y) <=> In(abc, y) \/ In(d, y)
  <2>1. abc \in Seq(MapNodes) /\ d \in Seq(MapNodes)
    BY <1>10, <1>15
  <2>2. all \in Seq(MapNodes)
    BY ONLY <1>16, <2>1, Joined
  <2>3. \A y : In(abc \o d, y) <=> In(abc, y) \/ In(d, y)
    BY ONLY <2>1, InJoined
  <2>4. QED
    BY ONLY <1>16, <2>2, <2>3
<1>18. NodesOf(f) = all
  BY ONLY <1>6, <1>11b, <1>12, <1>14, <1>16
<1>19. \A y : In(all, y) <=> NodeOf(f, y)
  <2>1. TAKE y
  <2>2. In(all, y) <=> In(e, y) \/ In(a, y) \/ In(b, y) \/ In(c, y) \/ In(d, y)
    BY ONLY <1>11c, <1>13, <1>15, <1>17
  <2>2a. In(e, y) <=> \E x \in ToSet(SessionsOf(f)) : y = [id |-> <<"session", x>>, severity |-> f.severity]
    BY ONLY <1>1, <1>11a, Zenon
  <2>3. In(a, y) <=> \E x \in ToSet(f.files) : y = [id |-> <<Kind(f), x>>, severity |-> IF f.kind = "session_conflict" THEN NoSeverity ELSE f.severity]
    BY ONLY <1>1, <1>8, Zenon
  <2>4. In(b, y) <=> \E x \in ToSet(f.symbols) : y = [id |-> <<"type", x>>, severity |-> f.severity]
    BY ONLY <1>1, <1>9, Zenon
  <2>5. In(d, y) <=> \E x \in f.callers : y = [id |-> <<"file", x>>, severity |-> NoSeverity]
    BY ONLY <1>4, <1>10, Zenon
  <2>6. In(c, y) <=> f.kind = "api_drift" /\ y = [id |-> <<"export", f.key>>, severity |-> f.severity]
    BY ONLY <1>11
  <2>7. QED
    BY ONLY <2>2, <2>2a, <2>3, <2>4, <2>5, <2>6, Zenon DEF NodeOf
<1>20. QED
  BY <1>17, <1>18, <1>19

(* What is inserted for some findings, and the node an id gets.            *)
Inserted(fs) == FlattenSeq(Each(fs, NodesOf))
Nodes(fs) == DriftMap(fs).nodes

LEMMA InsertedAre ==
  ASSUME NEW fs \in Seq(AllFindings)
  PROVE  /\ Inserted(fs) \in Seq(MapNodes)
         /\ \A y : In(Inserted(fs), y) <=> \E i \in 1..Len(fs) : In(NodesOf(fs[i]), y)
<1>1. PICK n : n = Len(fs)
  OBVIOUS
<1>2. n \in Nat /\ DOMAIN fs = 1..n /\ \A i \in 1..n : fs[i] \in AllFindings
  BY ONLY fs \in Seq(AllFindings), <1>1
<1>3. PICK e : e = Each(fs, NodesOf)
  OBVIOUS
<1>4. e = [i \in 1..n |-> NodesOf(fs[i])]
  BY <1>2, <1>3 DEF Each
<1>5. PICK D : D = Seq(MapNodes)
  OBVIOUS
<1>6. \A i \in 1..n : NodesOf(fs[i]) \in D
  BY <1>2, <1>5, NodesOfFinding
<1>7. e \in Seq(D) /\ Len(e) = n /\ \A i \in 1..n : e[i] = NodesOf(fs[i])
  <2>1. e \in [1..n -> D]
    BY ONLY <1>4, <1>6
  <2>2. QED
    BY ONLY <1>2, <1>4, <2>1
<1>8. e \in Seq(Seq(MapNodes))
  BY <1>5, <1>7
<1>9. FlattenSeq(e) \in Seq(MapNodes)
  BY ONLY <1>8, FlattenLists
<1>10. \A y : In(FlattenSeq(e), y) <=> \E i \in 1..Len(e) : In(e[i], y)
  BY ONLY <1>8, FlattenEntries
<1>11. QED
  BY <1>1, <1>3, <1>7, <1>9, <1>10 DEF Inserted

LEMMA LastHasTheId ==
  ASSUME NEW t \in Seq(MapNodes), NEW id, id \in {y.id : y \in ToSet(t)}
  PROVE  LET m == Max({i \in DOMAIN t : t[i].id = id}) IN In(t, t[m]) /\ t[m].id = id
<1>1. PICK n : n = Len(t)
  OBVIOUS
<1>2. n \in Nat /\ DOMAIN t = 1..n
  BY ONLY t \in Seq(MapNodes), <1>1
<1>3. PICK S : S = {i \in DOMAIN t : t[i].id = id}
  OBVIOUS
<1>4. S \in SUBSET (0..n) /\ S # {}
  BY <1>2, <1>3 DEF ToSet
<1>5. PICK m : m = Max(S)
  OBVIOUS
<1>6. m \in S
  BY ONLY <1>2, <1>4, <1>5, MaxOf
<1>7. m \in 1..n /\ t[m].id = id
  BY ONLY <1>2, <1>3, <1>6
<1>8. In(t, t[m])
  BY <1>1, <1>7 DEF In
<1>9. QED
  BY ONLY <1>3, <1>5, <1>7, <1>8

LEMMA NodesOnTheMap ==
  ASSUME NEW fs \in Seq(AllFindings)
  PROVE  /\ \A id : id \in DOMAIN Nodes(fs) <=> \E y : In(Inserted(fs), y) /\ y.id = id
         /\ \A id \in DOMAIN Nodes(fs) : \E y : In(Inserted(fs), y) /\ y.id = id /\ y.severity = Nodes(fs)[id]
<1>1. PICK t : t = Inserted(fs)
  OBVIOUS
<1>2. t \in Seq(MapNodes)
  BY <1>1, InsertedAre
<1>3. Nodes(fs) = [id \in {y.id : y \in ToSet(t)} |-> t[Max({i \in DOMAIN t : t[i].id = id})].severity]
  BY <1>1 DEF Nodes, DriftMap, Inserted
<1>4. \A y : y \in ToSet(t) <=> In(t, y)
  BY ONLY <1>2, InIsToSet
<1>5. \A id : id \in DOMAIN Nodes(fs) <=> \E y : In(t, y) /\ y.id = id
  BY ONLY <1>3, <1>4
<1>6. ASSUME NEW id \in DOMAIN Nodes(fs)
      PROVE  \E y : In(t, y) /\ y.id = id /\ y.severity = Nodes(fs)[id]
  <2>1. id \in {y.id : y \in ToSet(t)}
    BY <1>3
  <2>2. PICK m : m = Max({i \in DOMAIN t : t[i].id = id})
    OBVIOUS
  <2>3. In(t, t[m]) /\ t[m].id = id
    BY ONLY <1>2, <2>1, <2>2, LastHasTheId
  <2>4. Nodes(fs)[id] = t[m].severity
    BY <1>3, <2>1, <2>2
  <2>5. QED
    BY ONLY <2>3, <2>4
<1>7. QED
  BY ONLY <1>1, <1>5, <1>6

About(f) == {n.id : n \in ToSet(NodesOf(f))}

LEMMA AboutIs ==
  ASSUME NEW f \in AllFindings
  PROVE  /\ \A x \in ToSet(f.files) : <<Kind(f), x>> \in About(f)
         /\ \A x \in ToSet(f.symbols) : <<"type", x>> \in About(f)
         /\ f.kind = "api_drift" => <<"export", f.key>> \in About(f)
         /\ \A x \in f.callers : <<"file", x>> \in About(f)
<1>1. PICK t : t = NodesOf(f)
  OBVIOUS
<1>2. t \in Seq(MapNodes) /\ \A y : In(t, y) <=> NodeOf(f, y)
  BY <1>1, NodesOfFinding
<1>3. \A y : y \in ToSet(t) <=> In(t, y)
  BY ONLY <1>2, InIsToSet
<1>4. ASSUME NEW y, NodeOf(f, y) PROVE y.id \in About(f)
  <2>1. y \in ToSet(t)
    BY ONLY <1>2, <1>3, <1>4
  <2>2. QED
    BY ONLY <1>1, <2>1 DEF About
<1>5. ASSUME NEW x \in ToSet(f.files) PROVE <<Kind(f), x>> \in About(f)
  <2>1. PICK sev : sev = IF f.kind = "session_conflict" THEN NoSeverity ELSE f.severity
    OBVIOUS
  <2>2. PICK y : y = [id |-> <<Kind(f), x>>, severity |-> sev]
    OBVIOUS
  <2>3. NodeOf(f, y)
    BY ONLY <1>5, <2>1, <2>2, Zenon DEF NodeOf
  <2>4. y.id = <<Kind(f), x>>
    BY ONLY <2>2
  <2>5. QED
    BY <1>4, <2>3, <2>4
<1>6. ASSUME NEW x \in ToSet(f.symbols) PROVE <<"type", x>> \in About(f)
  <2>1. PICK y : y = [id |-> <<"type", x>>, severity |-> f.severity]
    OBVIOUS
  <2>2. NodeOf(f, y)
    BY ONLY <1>6, <2>1, Zenon DEF NodeOf
  <2>3. y.id = <<"type", x>>
    BY ONLY <2>1
  <2>4. QED
    BY <1>4, <2>2, <2>3
<1>7. ASSUME f.kind = "api_drift" PROVE <<"export", f.key>> \in About(f)
  <2>1. PICK y : y = [id |-> <<"export", f.key>>, severity |-> f.severity]
    OBVIOUS
  <2>2. NodeOf(f, y)
    BY ONLY <1>7, <2>1, Zenon DEF NodeOf
  <2>3. y.id = <<"export", f.key>>
    BY ONLY <2>1
  <2>4. QED
    BY <1>4, <2>2, <2>3
<1>8. ASSUME NEW x \in f.callers PROVE <<"file", x>> \in About(f)
  <2>1. PICK y : y = [id |-> <<"file", x>>, severity |-> NoSeverity]
    OBVIOUS
  <2>2. NodeOf(f, y)
    BY ONLY <1>8, <2>1, Zenon DEF NodeOf
  <2>3. y.id = <<"file", x>>
    BY ONLY <2>1
  <2>4. QED
    BY <1>4, <2>2, <2>3
<1>9. QED
  BY <1>5, <1>6, <1>7, <1>8

LEMMA EdgesJoinNodes ==
  ASSUME NEW f \in AllFindings, NEW e \in EdgesOf(f)
  PROVE  {e[1], e[2]} \subseteq About(f)
<1>1. /\ \A x \in ToSet(f.files) : <<Kind(f), x>> \in About(f)
      /\ \A x \in ToSet(f.symbols) : <<"type", x>> \in About(f)
      /\ f.kind = "api_drift" => <<"export", f.key>> \in About(f)
      /\ \A x \in f.callers : <<"file", x>> \in About(f)
  BY AboutIs
<1>2. /\ f.files \in Seq(Nat) /\ f.symbols \in Seq(Nat)
      /\ f.kind \in {"semantic_clone", "type_shape_duplicate", "cycle", "dead_code", "api_drift", "session_conflict"}
  BY DEF AllFindings
<1>3. f.kind # "cycle" => Kind(f) = "file"
  BY DEF Kind
<1>4. CASE f.kind = "semantic_clone"
  <2>1. EdgesOf(f) = IF Len(f.files) >= 2 THEN {<<<<"file", f.files[1]>>, <<"file", f.files[2]>>>>} ELSE {}
    BY <1>4 DEF EdgesOf
  <2>2. Len(f.files) >= 2 /\ e = <<<<"file", f.files[1]>>, <<"file", f.files[2]>>>>
    BY <2>1
  <2>3. f.files[1] \in ToSet(f.files) /\ f.files[2] \in ToSet(f.files)
    <3>1. PICK s, n : s = f.files /\ n = Len(f.files)
      OBVIOUS
    <3>2. DOMAIN s = 1..n /\ n \in Nat /\ n >= 2
      BY <1>2, <2>2, <3>1
    <3>3. 1 \in DOMAIN s /\ 2 \in DOMAIN s
      BY ONLY <3>2
    <3>4. QED
      BY ONLY <3>1, <3>3 DEF ToSet
  <2>4. Kind(f) = "file"
    BY <1>3, <1>4
  <2>5. <<"file", f.files[1]>> \in About(f) /\ <<"file", f.files[2]>> \in About(f)
    BY ONLY <1>1, <2>3, <2>4
  <2>6. QED
    BY ONLY <2>2, <2>5
<1>5. CASE f.kind = "type_shape_duplicate"
  <2>1. EdgesOf(f) = IF Len(f.symbols) >= 2 THEN {<<<<"type", f.symbols[1]>>, <<"type", f.symbols[2]>>>>} ELSE {}
    BY <1>5 DEF EdgesOf
  <2>2. Len(f.symbols) >= 2 /\ e = <<<<"type", f.symbols[1]>>, <<"type", f.symbols[2]>>>>
    BY <2>1
  <2>3. f.symbols[1] \in ToSet(f.symbols) /\ f.symbols[2] \in ToSet(f.symbols)
    <3>1. PICK s, n : s = f.symbols /\ n = Len(f.symbols)
      OBVIOUS
    <3>2. DOMAIN s = 1..n /\ n \in Nat /\ n >= 2
      BY <1>2, <2>2, <3>1
    <3>3. 1 \in DOMAIN s /\ 2 \in DOMAIN s
      BY ONLY <3>2
    <3>4. QED
      BY ONLY <3>1, <3>3 DEF ToSet
  <2>4. <<"type", f.symbols[1]>> \in About(f) /\ <<"type", f.symbols[2]>> \in About(f)
    BY ONLY <1>1, <2>3
  <2>5. QED
    BY ONLY <2>2, <2>4
<1>6. CASE f.kind = "api_drift"
  <2>1. EdgesOf(f) = {<<<<"file", x>>, <<"export", f.key>>>> : x \in ToSet(f.files) \cup f.callers}
    BY <1>6 DEF EdgesOf
  <2>2. PICK x \in ToSet(f.files) \cup f.callers : e = <<<<"file", x>>, <<"export", f.key>>>>
    BY <2>1
  <2>3. Kind(f) = "file"
    BY <1>3, <1>6
  <2>4. <<"file", x>> \in About(f) /\ <<"export", f.key>> \in About(f)
    BY <1>1, <1>6, <2>3
  <2>5. QED
    BY ONLY <2>2, <2>4
<1>7. CASE f.kind = "cycle"
  <2>1. PICK s, n : s = f.files /\ n = Len(s)
    OBVIOUS
  <2>2. DOMAIN s = 1..n /\ n \in Nat
    BY <1>2, <2>1
  <2>3. EdgesOf(f) = {<<<<Kind(f), s[i]>>, <<Kind(f), s[i + 1]>>>> : i \in 1..(n - 1)}
    BY <1>7, <2>1 DEF EdgesOf, Kind
  <2>4. PICK i \in 1..(n - 1) : e = <<<<Kind(f), s[i]>>, <<Kind(f), s[i + 1]>>>>
    BY <2>3
  <2>5. i \in DOMAIN s /\ i + 1 \in DOMAIN s
    BY ONLY <2>2, i \in 1..(n - 1)
  <2>6. s[i] \in ToSet(s) /\ s[i + 1] \in ToSet(s)
    BY ONLY <2>5 DEF ToSet
  <2>7. <<Kind(f), s[i]>> \in About(f) /\ <<Kind(f), s[i + 1]>> \in About(f)
    BY ONLY <1>1, <2>1, <2>6
  <2>8. QED
    BY ONLY <2>4, <2>7
<1>8. CASE f.kind \in {"dead_code", "session_conflict"}
  <2>1. EdgesOf(f) = {}
    BY <1>8 DEF EdgesOf
  <2>2. QED
    BY <2>1
<1>9. QED
  BY <1>2, <1>4, <1>5, <1>6, <1>7, <1>8

(* A node has the severity of a finding about it, or none.                 *)
LEMMA NodeHasCause ==
  ASSUME NEW f \in AllFindings, NEW y, NodeOf(f, y)
  PROVE  y.severity \in {f.severity, NoSeverity}
<1>1. CASE \E x \in ToSet(f.files) : y = [id |-> <<Kind(f), x>>, severity |-> IF f.kind = "session_conflict" THEN NoSeverity ELSE f.severity]
  BY <1>1
<1>2. CASE \E x \in ToSet(f.symbols) : y = [id |-> <<"type", x>>, severity |-> f.severity]
  BY <1>2
<1>3. CASE f.kind = "api_drift" /\ y = [id |-> <<"export", f.key>>, severity |-> f.severity]
  BY <1>3
<1>4. CASE \E x \in f.callers : y = [id |-> <<"file", x>>, severity |-> NoSeverity]
  BY <1>4
<1>5. CASE \E x \in ToSet(SessionsOf(f)) : y = [id |-> <<"session", x>>, severity |-> f.severity]
  BY <1>5
<1>6. QED
  BY <1>1, <1>2, <1>3, <1>4, <1>5 DEF NodeOf

LEMMA HighestOf ==
  ASSUME NEW fs, \A i \in DOMAIN fs : fs[i].severity \in {Info, Warn, Error}
  PROVE  HighestSeverity(fs) \in {Info, Warn, Error}
<1>1. PICK S : S = {Info} \cup {fs[i].severity : i \in DOMAIN fs}
  OBVIOUS
<1>2. S \in SUBSET (0..2) /\ S # {}
  BY <1>1 DEF Info, Warn, Error
<1>3. HighestSeverity(fs) = Max(S)
  BY <1>1 DEF HighestSeverity
<1>4. 2 \in Nat
  OBVIOUS
<1>5. Max(S) \in S
  BY ONLY <1>2, <1>4, MaxOf
<1>6. S \subseteq {Info, Warn, Error}
  BY <1>1
<1>7. QED
  BY <1>3, <1>5, <1>6

LEMMA HighestIsOne ==
  ASSUME NEW fs \in Seq(AllFindings) PROVE HighestSeverity(fs) \in 0..2
<1>1. \A i \in DOMAIN fs : fs[i] \in AllFindings
  OBVIOUS
<1>2. \A x \in AllFindings : x.severity \in {Info, Warn, Error}
  BY DEF AllFindings
<1>3. HighestSeverity(fs) \in {Info, Warn, Error}
  BY <1>1, <1>2, HighestOf
<1>4. QED
  BY <1>3 DEF Info, Warn, Error

(* The drift map of any findings.                                          *)
ClosedMap(fs, map) ==
  /\ \A e \in map.edges : {e[1], e[2]} \subseteq DOMAIN map.nodes
  /\ \A f \in ToSet(fs) : About(f) \subseteq DOMAIN map.nodes
  /\ \A n \in DOMAIN map.nodes : map.nodes[n] <= HighestSeverity(Kept(fs, LAMBDA f : n \in About(f)))

LEMMA EveryMapIsClosed ==
  ASSUME NEW fs \in Seq(AllFindings) PROVE ClosedMap(fs, DriftMap(fs))
<1>1. PICK nodes : nodes = Nodes(fs)
  OBVIOUS
<1>2. PICK len : len = Len(fs)
  OBVIOUS
<1>3. len \in Nat /\ DOMAIN fs = 1..len /\ \A i \in 1..len : fs[i] \in AllFindings
  BY ONLY fs \in Seq(AllFindings), <1>2
<1>4. DriftMap(fs).nodes = nodes
  BY <1>1 DEF Nodes
<1>5. DriftMap(fs).edges = (UNION {EdgesOf(f) : f \in ToSet(fs)}) \cup ImportEdges(nodes)
  BY <1>1 DEF Nodes, DriftMap
<1>6. \A f \in ToSet(fs) : f \in AllFindings /\ \E i \in 1..len : fs[i] = f
  BY ONLY <1>3 DEF ToSet
<1>7. \A y : In(Inserted(fs), y) <=> \E i \in 1..len : In(NodesOf(fs[i]), y)
  BY <1>2, InsertedAre
<1>8. ASSUME NEW f \in ToSet(fs) PROVE About(f) \subseteq DOMAIN nodes
  <2>1. PICK i \in 1..len : fs[i] = f
    BY <1>6
  <2>2. NodesOf(f) \in Seq(MapNodes)
    BY <1>6, NodesOfFinding
  <2>3. ASSUME NEW id \in About(f) PROVE id \in DOMAIN nodes
    <3>1. PICK y \in ToSet(NodesOf(f)) : id = y.id
      BY <2>3 DEF About
    <3>2. In(NodesOf(f), y)
      BY ONLY <2>2, <3>1, InIsToSet
    <3>3. In(Inserted(fs), y)
      BY ONLY <1>7, <2>1, <3>2
    <3>4. QED
      BY <1>1, <3>1, <3>3, NodesOnTheMap
  <2>4. QED
    BY <2>3
<1>9. ASSUME NEW e \in DriftMap(fs).edges PROVE {e[1], e[2]} \subseteq DOMAIN nodes
  <2>1. CASE e \in ImportEdges(nodes)
    <3>1. PICK p \in ImportPairs : {<<"file", p[1]>>, <<"file", p[2]>>} \subseteq DOMAIN nodes /\ e = <<<<"file", p[1]>>, <<"file", p[2]>>>>
      BY <2>1 DEF ImportEdges
    <3>2. QED
      BY ONLY <3>1
  <2>2. CASE e \notin ImportEdges(nodes)
    <3>1. PICK f \in ToSet(fs) : e \in EdgesOf(f)
      BY <1>5, <1>9, <2>2
    <3>2. {e[1], e[2]} \subseteq About(f)
      BY <1>6, <3>1, EdgesJoinNodes
    <3>3. QED
      BY <1>8, <3>1, <3>2
  <2>3. QED
    BY <2>1, <2>2
<1>10. ASSUME NEW n \in DOMAIN nodes PROVE nodes[n] <= HighestSeverity(Kept(fs, LAMBDA f : n \in About(f)))
  <2>1. PICK y : In(Inserted(fs), y) /\ y.id = n /\ y.severity = nodes[n]
    BY <1>1, NodesOnTheMap
  <2>2. PICK i \in 1..len : In(NodesOf(fs[i]), y)
    BY <1>7, <2>1
  <2>3. PICK f \in AllFindings : f = fs[i]
    BY <1>3
  <2>4. PICK P : P = {k \in DOMAIN fs : n \in About(fs[k])}
    OBVIOUS
  <2>5. PICK ks : ks = Picked(fs, P)
    OBVIOUS
  <2>6. Kept(fs, LAMBDA g : n \in About(g)) = ks
    BY <2>4, <2>5 DEF Kept
  <2>7. P \in SUBSET (1..Len(fs))
    BY ONLY <1>2, <1>3, <2>4
  <2>8. ks \in Seq(AllFindings) /\ \A x : In(ks, x) <=> \E k \in P : fs[k] = x
    BY ONLY fs \in Seq(AllFindings), <2>5, <2>7, PickedIn
  <2>9. NodesOf(f) \in Seq(MapNodes) /\ NodeOf(f, y)
    BY <2>2, <2>3, NodesOfFinding
  <2>10. y \in ToSet(NodesOf(f))
    BY ONLY <2>2, <2>3, <2>9, InIsToSet
  <2>11. n \in About(f)
    BY ONLY <2>1, <2>10 DEF About
  <2>12. i \in P
    BY <1>3, <2>3, <2>4, <2>11
  <2>13. In(ks, f)
    BY ONLY <2>3, <2>8, <2>12
  <2>14. f.severity <= HighestSeverity(ks)
    BY ONLY <2>8, <2>13, SeverityCovers
  <2>15. HighestSeverity(ks) \in 0..2
    BY ONLY <2>8, HighestIsOne
  <2>16. y.severity \in {f.severity, NoSeverity}
    BY <2>9, NodeHasCause
  <2>17. NoSeverity <= HighestSeverity(ks)
    BY ONLY <2>15 DEF NoSeverity
  <2>18. nodes[n] <= HighestSeverity(ks)
    BY ONLY <2>1, <2>14, <2>16, <2>17
  <2>19. QED
    BY <2>6, <2>18
<1>11. QED
  BY <1>4, <1>8, <1>9, <1>10 DEF ClosedMap

(* The map of a check, whatever the tables hold: its edges join its nodes,  *)
(* each file, symbol and session of a finding has a node, and a node looks *)
(* no worse than the worst finding about it, although driftMap inserts     *)
(* nodes finding by finding and a later one replaces an earlier one.       *)
THEOREM EveryDriftMapIsClosed == ASSUME AnswerInv PROVE MapIsClosed
<1>1. PICK all : all = CollectAll(MaxFindings)
  OBVIOUS
<1>2. MaxFindings \in Nat \ {0} /\ MaxFindings \in Nat
  BY CapsAssumption
<1>3. all \in Seq(AllFindings)
  BY <1>1, <1>2, CollectedTyped
<1>4. PICK fs : fs = Take(all, MaxFindings)
  OBVIOUS
<1>5. fs \in Seq(AllFindings)
  BY ONLY <1>2, <1>3, <1>4, TakenIn
<1>6. CheckAll.findings = fs
  BY <1>1, <1>4 DEF CheckAll, Summary
<1>7. ClosedMap(fs, DriftMap(fs))
  BY ONLY <1>5, EveryMapIsClosed
<1>8. QED
  BY ONLY <1>6, <1>7, Zenon DEF MapIsClosed, ClosedMap, About

(* MapIsClosed in every state: driftMap (indexer.rs) is closed under the    *)
(* answers of the tracker, the baseline and the tables of the moment.      *)
THEOREM MapIsClosedCorrect == Spec => []MapIsClosed
<1>1. Spec => []AnswerInv
  BY SpecAnswers
<1>2. AnswerInv => MapIsClosed
  BY EveryDriftMapIsClosed
<1>3. QED
  BY <1>1, <1>2, PTL

(***************************************************************************)
(* The score of some reasons.                                              *)
(***************************************************************************)
(* sum[k] is the sum of the first k numbers.                               *)
Sums(sum, a, n) ==
  /\ sum[0] = 0 /\ \A k \in 0..n : sum[k] \in Nat
  /\ \A k \in 1..n : sum[k] = sum[k - 1] + a[k]

LEMMA SumsExist ==
  ASSUME NEW n \in Nat, NEW a \in [1..n -> Nat]
  PROVE  \E sum \in [0..n -> Nat] : Sums(sum, a, n)
<1> DEFINE S == [i : Nat, s : Nat]
           On(t) == [i |-> t.i + 1, s |-> IF t.i + 1 \in 1..n THEN t.s + a[t.i + 1] ELSE t.s]
           step == [t \in S |-> On(t)]
           start == [i |-> 0, s |-> 0]
<1>1. start \in S
  OBVIOUS
<1>2. step \in [S -> S]
  <2>1. ASSUME NEW t \in S PROVE On(t) \in S
    <3>1. t.i + 1 \in Nat /\ t.s \in Nat
      OBVIOUS
    <3>2. t.i + 1 \in 1..n => t.s + a[t.i + 1] \in Nat
      OBVIOUS
    <3>3. QED
      BY <3>1, <3>2
  <2> HIDE DEF On, S
  <2>2. QED
    BY <2>1
<1>3. PICK f : Iteration(f, S, start, step)
  <2> HIDE DEF S, step, start
  <2>1. QED
    BY ONLY <1>1, <1>2, Iterated, Zenon
<1>4. f \in [Nat -> S] /\ f[0] = start /\ \A k \in Nat : f[k] \in S /\ f[k + 1] = On(f[k])
  <2> HIDE DEF S, On
  <2>1. QED
    BY <1>3 DEF Iteration
<1>5. /\ \A t : On(t).i = t.i + 1
      /\ \A t : t.i + 1 \in 1..n => On(t).s = t.s + a[t.i + 1]
      /\ start.i = 0 /\ start.s = 0 /\ \A t \in S : t.s \in Nat
  OBVIOUS
<1> HIDE DEF On, start, step, S
<1>6. \A k \in Nat : f[k].i = k
  <2> DEFINE T == {k \in Nat : f[k].i = k}
  <2>1. T \subseteq Nat /\ 0 \in T
    BY <1>4, <1>5
  <2>2. ASSUME NEW k \in T PROVE k + 1 \in T
    <3>1. f[k].i = k /\ f[k + 1] = On(f[k]) /\ k \in Nat
      BY <1>4
    <3>2. f[k + 1].i = f[k].i + 1
      BY <3>1, <1>5
    <3>3. QED
      BY <3>1, <3>2
  <2> HIDE DEF T
  <2>3. T = Nat
    BY <2>1, <2>2, AllNumbers
  <2>4. QED
    BY <2>3 DEF T
<1>7. PICK sum : sum = [k \in 0..n |-> f[k].s]
  OBVIOUS
<1>8. \A k \in 0..n : sum[k] = f[k].s /\ f[k].s \in Nat
  BY <1>4, <1>5, <1>7
<1>9. ASSUME NEW k \in 1..n PROVE sum[k] = sum[k - 1] + a[k]
  <2>1. k - 1 \in Nat /\ (k - 1) + 1 = k /\ k \in 0..n /\ k - 1 \in 0..n
    OBVIOUS
  <2>2. f[k] = On(f[k - 1]) /\ f[k - 1].i = k - 1
    BY <1>4, <1>6, <2>1
  <2>3. f[k].s = f[k - 1].s + a[k]
    BY <1>5, <2>1, <2>2
  <2>4. QED
    BY <1>8, <2>1, <2>3
<1>10. sum[0] = 0
  <2>1. 0 \in 0..n
    OBVIOUS
  <2>2. QED
    BY <1>4, <1>5, <1>8, <2>1
<1>11. sum \in [0..n -> Nat]
  BY <1>7, <1>8
<1>12. QED
  BY <1>8, <1>9, <1>10, <1>11 DEF Sums

LEMMA TotalIs ==
  ASSUME NEW n \in Nat, NEW rs, n = Len(rs), NEW a \in [1..n -> Nat], \A i \in 1..n : rs[i].score = a[i]
  PROVE  \E sum : Sums(sum, a, n) /\ Total(rs) = sum[n]
<1> DEFINE At(g, k) == IF k = 0 THEN 0 ELSE g[k - 1] + rs[k].score
           Body(g) == [k \in 0..n |-> At(g, k)]
<1>1. PICK g \in [0..n -> Nat] : Sums(g, a, n)
  BY SumsExist
<1>2. g = Body(g)
  <2>1. ASSUME NEW k \in 0..n PROVE g[k] = At(g, k)
    <3>1. CASE k = 0
      BY <1>1, <3>1 DEF Sums
    <3>2. CASE k # 0
      <4>1. k \in 1..n
        BY <3>2
      <4>2. QED
        BY <1>1, <3>2, <4>1 DEF Sums
    <3>3. QED
      BY <3>1, <3>2
  <2>2. g = [k \in 0..n |-> g[k]]
    OBVIOUS
  <2> HIDE DEF At
  <2>3. QED
    BY <2>1, <2>2
<1> DEFINE sum == CHOOSE h : h = Body(h)
<1>3. sum = Body(sum)
  <2> HIDE DEF Body
  <2>1. QED
    BY <1>2, Zenon
<1>4. Total(rs) = sum[n]
  BY DEF Total
<1> HIDE DEF sum
<1>5. \A k \in 0..n : sum[k] = At(sum, k)
  <2> HIDE DEF At
  <2>1. QED
    BY <1>3
<1>6. sum[0] = 0 /\ \A k \in 1..n : sum[k] = sum[k - 1] + a[k]
  BY <1>5
<1>7. \A k \in 0..n : sum[k] \in Nat
  <2> DEFINE T == {k \in Nat : k \in 0..n => sum[k] \in Nat}
  <2>1. T \subseteq Nat /\ 0 \in T
    BY <1>6
  <2>2. ASSUME NEW k \in T PROVE k + 1 \in T
    <3>1. SUFFICES ASSUME k + 1 \in 0..n PROVE sum[k + 1] \in Nat
      OBVIOUS
    <3>2. k \in 0..n /\ k + 1 \in 1..n /\ (k + 1) - 1 = k /\ sum[k] \in Nat
      BY <3>1
    <3>3. sum[k + 1] = sum[k] + a[k + 1] /\ a[k + 1] \in Nat
      BY <1>6, <3>2
    <3>4. QED
      BY <3>2, <3>3
  <2> HIDE DEF T
  <2>3. T = Nat
    BY <2>1, <2>2, AllNumbers
  <2>4. QED
    BY <2>3 DEF T
<1>8. QED
  BY <1>4, <1>6, <1>7 DEF Sums

(* A sum only grows.                                                       *)
LEMMA SumsGrow ==
  ASSUME NEW n \in Nat, NEW a \in [1..n -> Nat], NEW sum, Sums(sum, a, n), NEW i \in 0..n, NEW j \in i..n
  PROVE  sum[i] <= sum[j]
<1> DEFINE T == {d \in Nat : i + d \in 0..n => sum[i] <= sum[i + d]}
<1>1. (\A k \in 0..n : sum[k] \in Nat) /\ \A k \in 1..n : sum[k] = sum[k - 1] + a[k]
  BY DEF Sums
<1>2. T \subseteq Nat /\ 0 \in T
  BY <1>1
<1>3. ASSUME NEW d \in T PROVE d + 1 \in T
  <2>1. SUFFICES ASSUME i + (d + 1) \in 0..n PROVE sum[i] <= sum[i + (d + 1)]
    OBVIOUS
  <2>2. PICK k : k = i + (d + 1)
    OBVIOUS
  <2>3. k \in 1..n /\ k - 1 = i + d /\ i + d \in 0..n /\ sum[i] <= sum[i + d]
    BY <2>1, <2>2
  <2>4. sum[k] = sum[i + d] + a[k] /\ a[k] \in Nat /\ sum[i + d] \in Nat /\ sum[i] \in Nat
    BY <1>1, <2>3
  <2>5. QED
    BY <2>2, <2>3, <2>4
<1> HIDE DEF T
<1>4. T = Nat
  BY <1>2, <1>3, AllNumbers
<1>5. j - i \in T /\ i + (j - i) = j /\ j \in 0..n
  BY <1>4
<1>6. QED
  BY <1>5 DEF T

(* The entries of a sequence of numbers at rising places sum to no more     *)
(* than the whole.                                                         *)
LEMMA PartSumsToLess ==
  ASSUME NEW n \in Nat, NEW a \in [1..n -> Nat], NEW sum, Sums(sum, a, n),
         NEW c \in Nat, NEW p \in [1..c -> 1..n], \A i, j \in 1..c : i < j => p[i] < p[j],
         NEW part, Sums(part, [i \in 1..c |-> a[p[i]]], c)
  PROVE  part[c] <= sum[n]
<1>1. /\ \A k \in 0..n : sum[k] \in Nat
      /\ \A k \in 1..n : sum[k] = sum[k - 1] + a[k]
      /\ sum[0] = 0
  BY DEF Sums
<1>2. /\ \A k \in 0..c : part[k] \in Nat
      /\ \A k \in 1..c : part[k] = part[k - 1] + a[p[k]]
      /\ part[0] = 0
  BY DEF Sums
<1>3. \A i \in 0..n : \A j \in i..n : sum[i] <= sum[j]
  BY SumsGrow
<1> DEFINE T == {k \in Nat : k \in 1..c => part[k] <= sum[p[k]]}
<1>4. T \subseteq Nat /\ 0 \in T
  OBVIOUS
<1>5. ASSUME NEW k \in T PROVE k + 1 \in T
  <2>1. SUFFICES ASSUME k + 1 \in 1..c PROVE part[k + 1] <= sum[p[k + 1]]
    OBVIOUS
  <2>2. PICK q : q = p[k + 1]
    OBVIOUS
  <2>3. q \in 1..n /\ q - 1 \in 0..n /\ sum[q] = sum[q - 1] + a[q] /\ a[q] \in Nat /\ sum[q - 1] \in Nat
    <3>1. q \in 1..n
      BY ONLY p \in [1..c -> 1..n], <2>1, <2>2
    <3>2. q - 1 \in 0..n /\ a[q] \in Nat
      BY <3>1
    <3>3. QED
      BY <1>1, <3>1, <3>2
  <2>4. part[k + 1] = part[k] + a[q] /\ part[k] \in Nat
    <3>1. (k + 1) - 1 = k /\ k \in 0..c
      BY <2>1
    <3>2. QED
      BY <1>2, <2>1, <2>2, <3>1
  <2>5. part[k] <= sum[q - 1]
    <3>1. CASE k = 0
      BY <1>2, <2>3, <3>1
    <3>2. CASE k # 0
      <4>1. k \in 1..c /\ k < k + 1
        BY <2>1, <3>2
      <4>2. part[k] <= sum[p[k]] /\ p[k] < q /\ p[k] \in 1..n
        BY <2>1, <2>2, <4>1
      <4>3. p[k] \in 0..n /\ q - 1 \in p[k]..n
        BY <2>3, <4>2
      <4>4. sum[p[k]] <= sum[q - 1] /\ sum[p[k]] \in Nat
        BY <1>1, <1>3, <4>3
      <4>5. PICK x \in Nat, y \in Nat, z \in Nat : x = part[k] /\ y = sum[p[k]] /\ z = sum[q - 1]
        BY ONLY <2>3, <2>4, <4>4
      <4>6. x <= y /\ y <= z
        BY ONLY <4>2, <4>4, <4>5
      <4>7. QED
        BY ONLY <4>5, <4>6, x \in Nat, y \in Nat, z \in Nat
    <3>3. QED
      BY <3>1, <3>2
  <2>6. PICK x \in Nat, z \in Nat, d \in Nat : x = part[k] /\ z = sum[q - 1] /\ d = a[q]
    BY ONLY <2>3, <2>4
  <2>7. part[k + 1] = x + d /\ sum[q] = z + d /\ x <= z
    BY ONLY <2>3, <2>4, <2>5, <2>6
  <2>8. QED
    BY ONLY <2>2, <2>7, x \in Nat, z \in Nat, d \in Nat
<1> HIDE DEF T
<1>6. T = Nat
  BY <1>4, <1>5, AllNumbers
<1>7. CASE c = 0
  <2>1. n \in 0..n
    OBVIOUS
  <2>2. QED
    BY <1>1, <1>2, <1>7, <2>1
<1>8. CASE c # 0
  <2>1. c \in 1..c /\ c \in T
    BY <1>6, <1>8
  <2>2. part[c] <= sum[p[c]] /\ p[c] \in 1..n
    BY <2>1 DEF T
  <2>3. p[c] \in 0..n /\ n \in p[c]..n /\ n \in 0..n
    BY <2>2
  <2>4. sum[p[c]] <= sum[n] /\ sum[p[c]] \in Nat /\ sum[n] \in Nat /\ part[c] \in Nat
    BY <1>1, <1>2, <1>3, <1>8, <2>3
  <2>5. QED
    BY <2>2, <2>4
<1>9. QED
  BY <1>7, <1>8

ReasonRecords ==
  [kind : Nat, severity : {Info, Warn, Error}, count : Nat, score : Nat, files : Seq(Nat)]

LEMMA PickedTotal ==
  ASSUME NEW rs \in Seq(ReasonRecords), NEW places \in SUBSET (1..Len(rs))
  PROVE  /\ Total(rs) \in Nat /\ Total(Picked(rs, places)) \in Nat
         /\ Total(Picked(rs, places)) <= Total(rs)
<1>1. PICK n : n = Len(rs)
  OBVIOUS
<1>2. n \in Nat /\ \A i \in 1..n : rs[i] \in ReasonRecords
  BY ONLY <1>1, rs \in Seq(ReasonRecords)
<1>3. PICK a : a = [i \in 1..n |-> rs[i].score]
  OBVIOUS
<1>4. a \in [1..n -> Nat] /\ \A i \in 1..n : rs[i].score = a[i]
  <2>1. \A x \in ReasonRecords : x.score \in Nat
    BY DEF ReasonRecords
  <2>2. QED
    BY ONLY <1>2, <1>3, <2>1
<1>5. PICK sum : Sums(sum, a, n) /\ Total(rs) = sum[n]
  BY ONLY <1>1, <1>2, <1>4, TotalIs
<1>6. PICK p, c, t : p = Sorted(places) /\ c = Cardinality(places) /\ t = Picked(rs, places)
  OBVIOUS
<1>7. places \in SUBSET (1..n)
  BY <1>1
<1>8. IsFiniteSet(places) /\ c \in Nat /\ Len(t) = c /\ DOMAIN t = 1..c
  BY ONLY <1>2, <1>6, <1>7, PickedFacts
<1>9. places \in SUBSET Int
  BY ONLY <1>2, <1>7
<1>10. /\ p \in Seq(places) /\ Len(p) = c
       /\ \A i, j \in 1..Len(p) : i < j => p[i] < p[j]
  BY ONLY <1>6, <1>8, <1>9, SortedFacts
<1>11. p \in [1..c -> 1..n] /\ DOMAIN p = 1..c
  <2>1. p \in [1..c -> places]
    BY ONLY <1>8, <1>10
  <2>2. QED
    BY ONLY <1>7, <2>1
<1>12. t = [i \in 1..c |-> rs[p[i]]]
  BY <1>6, <1>11 DEF Picked, Each
<1>13. PICK b : b = [i \in 1..c |-> a[p[i]]]
  OBVIOUS
<1>14. b \in [1..c -> Nat] /\ \A i \in 1..c : t[i].score = b[i]
  BY ONLY <1>4, <1>11, <1>12, <1>13
<1>15. PICK part : Sums(part, b, c) /\ Total(t) = part[c]
  <2>1. c = Len(t)
    BY <1>8
  <2>2. QED
    BY ONLY <1>8, <1>14, <2>1, TotalIs
<1>16. Sums(part, [i \in 1..c |-> a[p[i]]], c)
  BY ONLY <1>13, <1>15
<1>17. \A i, j \in 1..c : i < j => p[i] < p[j]
  BY ONLY <1>10
<1>18. part[c] <= sum[n]
  BY ONLY <1>2, <1>4, <1>5, <1>8, <1>11, <1>16, <1>17, PartSumsToLess
<1>19. part[c] \in Nat /\ sum[n] \in Nat
  <2>1. c \in 0..c /\ n \in 0..n
    BY <1>2, <1>8
  <2>2. QED
    BY <1>5, <1>15, <2>1 DEF Sums
<1>20. QED
  BY ONLY <1>5, <1>6, <1>15, <1>18, <1>19

LEMMA CappedScores ==
  ASSUME NEW rs, NEW part, Total(rs) \in Nat, Total(part) \in Nat, Total(part) <= Total(rs)
  PROVE  RiskScore(part) <= RiskScore(rs) /\ RiskScore(part) \in Int /\ RiskScore(rs) \in Int
<1>1. PICK a, b : a = Total(rs) /\ b = Total(part)
  OBVIOUS
<1>2. a \in Int /\ b \in Int /\ 100 \in Int
  BY <1>1
<1>3. RiskScore(rs) = (IF a <= 100 THEN a ELSE 100) /\ RiskScore(part) = (IF b <= 100 THEN b ELSE 100)
  <2>1. Min({a, 100}) = (IF a <= 100 THEN a ELSE 100) /\ Min({b, 100}) = (IF b <= 100 THEN b ELSE 100)
    BY ONLY <1>2, LesserOfTwo
  <2>2. QED
    BY ONLY <1>1, <2>1 DEF RiskScore
<1>4. QED
  BY <1>1, <1>2, <1>3

(***************************************************************************)
(* The ranking of the files some reasons name.                             *)
(***************************************************************************)
FocusItems == [target : Nat, severity : Int, score : Int]
FocusItem(rs, f) ==
  LET item == FocusOf(rs, f)
  IN item \in FocusItems /\ item.target = f /\ item.score <= RiskScore(rs)

LEMMA FocusOfIs ==
  ASSUME NEW rs \in Seq(ReasonRecords), NEW f \in Nat
  PROVE  FocusItem(rs, f)
<1>1. PICK P : P = {i \in DOMAIN rs : Contains(rs[i].files, f)}
  OBVIOUS
<1>2. PICK mine : mine = Picked(rs, P)
  OBVIOUS
<1>3. FocusOf(rs, f) = [target |-> f, severity |-> HighestSeverity(mine), score |-> RiskScore(mine)]
  BY <1>1, <1>2 DEF FocusOf, Kept
<1>4. P \in SUBSET (1..Len(rs))
  <2>1. DOMAIN rs = 1..Len(rs)
    BY ONLY rs \in Seq(ReasonRecords)
  <2>2. QED
    BY ONLY <1>1, <2>1
<1>5. mine \in Seq(ReasonRecords)
  BY ONLY <1>2, <1>4, rs \in Seq(ReasonRecords), PickedIn
<1>6. \A i \in DOMAIN mine : mine[i].severity \in {Info, Warn, Error}
  <2>1. \A i \in DOMAIN mine : mine[i] \in ReasonRecords
    BY ONLY <1>5
  <2>2. \A x \in ReasonRecords : x.severity \in {Info, Warn, Error}
    BY DEF ReasonRecords
  <2>3. QED
    BY ONLY <2>1, <2>2
<1>7. HighestSeverity(mine) \in Int
  <2>1. HighestSeverity(mine) \in {Info, Warn, Error}
    BY ONLY <1>6, HighestOf
  <2>2. QED
    BY <2>1 DEF Info, Warn, Error
<1>8. Total(rs) \in Nat /\ Total(mine) \in Nat /\ Total(mine) <= Total(rs)
  BY ONLY <1>2, <1>4, rs \in Seq(ReasonRecords), PickedTotal
<1>9. RiskScore(mine) <= RiskScore(rs) /\ RiskScore(mine) \in Int
  BY ONLY <1>8, CappedScores
<1>10. QED
  BY <1>3, <1>7, <1>9 DEF FocusItem, FocusItems

LEMMA NamedAreFinite ==
  ASSUME NEW rs \in Seq(ReasonRecords)
  PROVE  IsFiniteSet(NamedFiles(rs)) /\ NamedFiles(rs) \subseteq Nat
<1>1. PICK n : n = Len(rs)
  OBVIOUS
<1>2. n \in Nat /\ DOMAIN rs = 1..n /\ \A i \in 1..n : rs[i] \in ReasonRecords
  BY ONLY <1>1, rs \in Seq(ReasonRecords)
<1>3. \A i \in 1..n : rs[i].files \in Seq(Nat)
  BY <1>2 DEF ReasonRecords
<1>4. PICK T : T = [i \in 1..n |-> ToSet(rs[i].files)]
  OBVIOUS
<1>5. \A i \in 1..n : IsFiniteSet(T[i]) /\ T[i] \subseteq Nat
  BY <1>3, <1>4, EntriesAreFinite
<1>6. PICK U : U = {T[i] : i \in 1..n}
  OBVIOUS
<1>7. IsFiniteSet(U)
  <2>1. T \in Surjection(1..n, U)
    BY <1>4, <1>6 DEF Surjection
  <2>2. IsFiniteSet(1..n)
    BY <1>2, IntervalIsFinite
  <2>3. QED
    BY <2>1, <2>2, FS_Surjection
<1>8. NamedFiles(rs) = UNION U
  BY <1>2, <1>4, <1>6 DEF NamedFiles
<1>9. \A X \in U : IsFiniteSet(X)
  BY <1>5, <1>6
<1>10. IsFiniteSet(UNION U)
  BY <1>7, <1>9, FS_UNION
<1>11. UNION U \subseteq Nat
  BY <1>5, <1>6
<1>12. QED
  BY <1>8, <1>10, <1>11

RankKey(a) == <<2 - a.severity, 100 - a.score, a.target>>

LEMMA RankKeys ==
  ASSUME NEW a \in FocusItems, NEW b \in FocusItems
  PROVE  /\ RankKey(a) \in Seq(Int) /\ (RankKey(a) = RankKey(b) => a.target = b.target)
         /\ Ranks(a, b) <=> KeyLess(RankKey(a), RankKey(b))
<1>1. PICK x \in Int, y \in Int, z \in Int : x = 2 - a.severity /\ y = 100 - a.score /\ z = a.target
  BY DEF FocusItems
<1>2. <<x, y, z>> \in Seq(Int)
  OBVIOUS
<1>3. RankKey(a) = <<x, y, z>>
  BY <1>1 DEF RankKey
<1>4. RankKey(a) = RankKey(b) => a.target = b.target
  BY DEF RankKey
<1>5. Ranks(a, b) <=> KeyLess(RankKey(a), RankKey(b))
  BY DEF Ranks, RankKey
<1>6. QED
  BY <1>2, <1>3, <1>4, <1>5

FocusSet(rs) == {FocusOf(rs, f) : f \in NamedFiles(rs)}
RankPairs(S) == {p \in S \X S : Ranks(p[1], p[2])}

LEMMA FocusIsRanked ==
  ASSUME NEW rs \in Seq(ReasonRecords)
  PROVE  EnumeratesBy(SortedBy(FocusSet(rs), Ranks), FocusSet(rs), RankPairs(FocusSet(rs)))
<1>1. PICK S, R : S = FocusSet(rs) /\ R = RankPairs(S)
  OBVIOUS
<1>2. NamedFiles(rs) \subseteq Nat /\ IsFiniteSet(NamedFiles(rs))
  BY NamedAreFinite
<1>3. \A f \in NamedFiles(rs) : FocusOf(rs, f) \in FocusItems /\ FocusOf(rs, f).target = f
  BY <1>2, FocusOfIs DEF FocusItem
<1>4. IsFiniteSet(S)
  <2>1. PICK F : F = [f \in NamedFiles(rs) |-> FocusOf(rs, f)]
    OBVIOUS
  <2>2. F \in Surjection(NamedFiles(rs), S)
    BY <1>1, <2>1 DEF FocusSet, Surjection
  <2>3. QED
    BY ONLY <1>2, <2>2, FS_Surjection
<1>5. S \subseteq FocusItems /\ \A x, y \in S : x.target = y.target => x = y
  BY <1>1, <1>3 DEF FocusSet
<1>6. \A x, y \in S : <<x, y>> \in R <=> Ranks(x, y)
  BY <1>1 DEF RankPairs
<1>7. \A x, y \in S : Ranks(x, y) <=> KeyLess(RankKey(x), RankKey(y))
  BY <1>5, RankKeys
<1>8. \A x \in S : RankKey(x) \in Seq(Int)
  BY <1>5, RankKeys
<1>9. \A x, y \in S : RankKey(x) = RankKey(y) => x = y
  BY <1>5, RankKeys
<1>10. StrictOrder(R, S)
  <2>1. ASSUME NEW x \in S PROVE <<x, x>> \notin R
    BY <1>6, <1>7, <1>8, KeyLessStrict
  <2>2. ASSUME NEW x \in S, NEW y \in S, NEW z \in S, <<x, y>> \in R, <<y, z>> \in R PROVE <<x, z>> \in R
    <3>1. KeyLess(RankKey(x), RankKey(y)) /\ KeyLess(RankKey(y), RankKey(z))
      BY <1>6, <1>7, <2>2
    <3>2. KeyLess(RankKey(x), RankKey(z))
      BY ONLY <1>8, <3>1, KeyLessTransitive, x \in S, y \in S, z \in S
    <3>3. QED
      BY <1>6, <1>7, <3>2
  <2>3. ASSUME NEW x \in S, NEW y \in S PROVE x = y \/ <<x, y>> \in R \/ <<y, x>> \in R
    <3>1. RankKey(x) = RankKey(y) \/ KeyLess(RankKey(x), RankKey(y)) \/ KeyLess(RankKey(y), RankKey(x))
      BY ONLY <1>8, KeyLessTotal, x \in S, y \in S
    <3>2. QED
      BY <1>6, <1>7, <1>9, <3>1
  <2>4. QED
    BY <2>1, <2>2, <2>3 DEF StrictOrder
<1>11. SortedBy(S, Ranks) = InOrder(S, R)
  <2> DEFINE At(i) == CHOOSE x \in S : Cardinality({y \in S : Ranks(y, x)}) = i - 1
             To(i) == CHOOSE x \in S : Cardinality({y \in S : <<y, x>> \in R}) = i - 1
  <2>1. SortedBy(S, Ranks) = [i \in 1..Cardinality(S) |-> At(i)] /\ InOrder(S, R) = [i \in 1..Cardinality(S) |-> To(i)]
    BY DEF InOrder, SortedBy
  <2>2. \A x \in S : {y \in S : Ranks(y, x)} = {y \in S : <<y, x>> \in R}
    BY <1>6
  <2>3. \A i : At(i) = To(i)
    BY <2>2, Zenon
  <2> HIDE DEF At, To
  <2>4. QED
    BY <2>1, <2>3
<1>12. EnumeratesBy(InOrder(S, R), S, R)
  BY ONLY <1>4, <1>10, Enumeration
<1>13. QED
  BY <1>1, <1>11, <1>12

(* The head of the ranking, of any length.                                 *)
HeadOfRanking(rs, focus, limit) ==
  LET shown == {item.target : item \in ToSet(focus)}
      named == NamedFiles(rs)
  IN /\ Cardinality(shown) = Len(focus) /\ shown \subseteq named
     /\ Len(focus) < limit => shown = named
     /\ \A item \in ToSet(focus) :
          /\ item.score <= RiskScore(rs)
          /\ \A f \in named \ shown : Ranks(item, FocusOf(rs, f))

LEMMA FocusIsHead ==
  ASSUME NEW rs \in Seq(ReasonRecords), NEW limit \in Nat
  PROVE  HeadOfRanking(rs, FocusFromReasons(rs, limit), limit)
<1>1. PICK S, e, n : S = FocusSet(rs) /\ e = SortedBy(S, Ranks) /\ n = Cardinality(S)
  OBVIOUS
<1>2. PICK named : named = NamedFiles(rs)
  OBVIOUS
<1>3. named \subseteq Nat
  BY <1>2, NamedAreFinite
<1>4. \A f \in named : FocusItem(rs, f)
  BY <1>3, FocusOfIs
<1>5. EnumeratesBy(e, S, RankPairs(S))
  BY <1>1, FocusIsRanked
<1>6. /\ n \in Nat /\ e \in [1..n -> S]
      /\ \A i, j \in 1..n : e[i] = e[j] => i = j
      /\ \A x \in S : \E i \in 1..n : e[i] = x
      /\ \A i, j \in 1..n : i < j => <<e[i], e[j]>> \in RankPairs(S)
  BY <1>1, <1>5 DEF EnumeratesBy, Bijection, Injection, IsInjective, Surjection
<1>7. \A i, j \in 1..n : i < j => Ranks(e[i], e[j])
  BY <1>6 DEF RankPairs
<1>8. /\ \A i \in 1..n : e[i].target \in named /\ e[i].score <= RiskScore(rs) /\ e[i] = FocusOf(rs, e[i].target)
      /\ \A f \in named : \E i \in 1..n : e[i] = FocusOf(rs, f) /\ e[i].target = f
  <2>1. ASSUME NEW i \in 1..n
        PROVE  e[i].target \in named /\ e[i].score <= RiskScore(rs) /\ e[i] = FocusOf(rs, e[i].target)
    <3>1. PICK f \in named : e[i] = FocusOf(rs, f)
      <4>1. \A x \in S : \E f \in named : x = FocusOf(rs, f)
        BY ONLY <1>1, <1>2 DEF FocusSet
      <4>2. e[i] \in S
        BY <1>6
      <4>3. QED
        BY ONLY <4>1, <4>2
    <3>2. QED
      BY <1>4, <3>1 DEF FocusItem
  <2>2. ASSUME NEW f \in named PROVE \E i \in 1..n : e[i] = FocusOf(rs, f) /\ e[i].target = f
    <3>1. FocusOf(rs, f) \in S
      BY <1>1, <1>2 DEF FocusSet
    <3>2. PICK i \in 1..n : e[i] = FocusOf(rs, f)
      BY <1>6, <3>1
    <3>3. e[i].target = f
      BY <1>4, <3>2 DEF FocusItem
    <3>4. QED
      BY <3>2, <3>3
  <2>3. QED
    BY <2>1, <2>2
<1>9. \A i, j \in 1..n : e[i].target = e[j].target => i = j
  BY <1>6, <1>8
<1>10. e \in Seq(S) /\ Len(e) = n
  BY ONLY <1>6
<1>11. PICK t, m : t = Take(e, limit) /\ m = Len(t)
  OBVIOUS
<1>12. FirstOf(t, e, limit)
  BY ONLY <1>10, <1>11, limit \in Nat, Taken
<1>13. /\ m = (IF limit <= n THEN limit ELSE n) /\ m \in Nat /\ m <= n /\ DOMAIN t = 1..m
       /\ \A i \in 1..m : t[i] = e[i] /\ i \in 1..n
  BY <1>6, <1>10, <1>11, <1>12 DEF FirstOf
<1>14. FocusFromReasons(rs, limit) = t
  BY <1>1, <1>11 DEF FocusFromReasons, FocusSet
<1>15. ToSet(t) = {t[i] : i \in 1..m}
  BY <1>13 DEF ToSet
<1>16. PICK shown : shown = {item.target : item \in ToSet(t)}
  OBVIOUS
<1>17. PICK F : F = [i \in 1..m |-> e[i].target]
  OBVIOUS
<1>18. shown = {F[i] : i \in 1..m}
  <2>1. \A i \in 1..m : t[i].target = F[i]
    BY ONLY <1>13, <1>17
  <2>2. shown = {t[i].target : i \in 1..m}
    BY ONLY <1>15, <1>16
  <2>3. QED
    BY ONLY <2>1, <2>2
<1>19. Cardinality(shown) = m
  <2>1. F \in Bijection(1..m, shown)
    <3>1. \A i \in 1..m : F[i] = e[i].target /\ i \in 1..n
      BY <1>13, <1>17
    <3>2. F \in [1..m -> shown] /\ \A y \in shown : \E i \in 1..m : F[i] = y
      BY <1>17, <1>18
    <3>3. \A i, j \in 1..m : F[i] = F[j] => i = j
      BY <1>9, <3>1
    <3>4. QED
      BY <3>2, <3>3 DEF Bijection, Injection, IsInjective, Surjection
  <2>2. IsFiniteSet(1..m) /\ Cardinality(1..m) = m
    BY <1>13, IntervalIsFinite
  <2>3. QED
    BY <2>1, <2>2, FS_Bijection DEF ExistsBijection
<1>20. shown \subseteq named
  BY <1>8, <1>13, <1>17, <1>18
<1>21. ASSUME m < limit PROVE shown = named
  <2>1. m = n
    BY <1>6, <1>13, <1>21
  <2>2. ASSUME NEW f \in named PROVE f \in shown
    <3>1. PICK i \in 1..n : e[i].target = f
      BY <1>8
    <3>2. i \in 1..m /\ F[i] = f
      BY <1>17, <2>1, <3>1
    <3>3. QED
      BY <1>18, <3>2
  <2>3. QED
    BY <1>20, <2>2
<1>22. ASSUME NEW item \in ToSet(t)
       PROVE  item.score <= RiskScore(rs) /\ \A f \in named \ shown : Ranks(item, FocusOf(rs, f))
  <2>1. PICK i \in 1..m : item = e[i] /\ i \in 1..n
    BY <1>13, <1>15, <1>22
  <2>2. item.score <= RiskScore(rs)
    BY <1>8, <2>1
  <2>3. ASSUME NEW f \in named \ shown PROVE Ranks(item, FocusOf(rs, f))
    <3>1. PICK j \in 1..n : e[j] = FocusOf(rs, f) /\ e[j].target = f
      BY <1>8
    <3>2. j \notin 1..m
      BY <1>17, <1>18, <3>1
    <3>3. i < j
      BY <1>13, <3>2
    <3>4. Ranks(e[i], e[j])
      BY <1>7, <2>1, <3>3
    <3>5. QED
      BY <2>1, <3>1, <3>4
  <2>4. QED
    BY <2>2, <2>3
<1>23. QED
  BY <1>2, <1>11, <1>14, <1>16, <1>19, <1>20, <1>21, <1>22 DEF HeadOfRanking

(***************************************************************************)
(* The reasons of a change.                                                *)
(***************************************************************************)
LEMMA DivisionIsNat == ASSUME NEW a \in Nat, NEW b \in Nat \ {0} PROVE a \div b \in Nat
OBVIOUS

NamedBy(f) == IF f.kind = "type_shape_duplicate" THEN {SymbolFile(f.symbols[i]) : i \in DOMAIN f.symbols}
              ELSE ToSet(f.files) \cup f.callers

LEMMA NamedByOne == ASSUME NEW f \in AllFindings PROVE IsFiniteSet(NamedBy(f)) /\ NamedBy(f) \subseteq Nat
<1>1. f.files \in Seq(Nat) /\ f.symbols \in Seq(Nat) /\ f.callers \in SUBSET Files
  BY DEF AllFindings
<1>2. CASE f.kind = "type_shape_duplicate"
  <2>1. PICK s, n : s = f.symbols /\ n = Len(s)
    OBVIOUS
  <2>2. n \in Nat /\ DOMAIN s = 1..n /\ \A i \in 1..n : s[i] \in Nat
    BY <1>1, <2>1
  <2>3. PICK F : F = [i \in 1..n |-> SymbolFile(s[i])]
    OBVIOUS
  <2>4. \A i \in 1..n : F[i] \in Nat
    BY <2>2, <2>3, DivisionIsNat, SymbolsAssumption DEF SymbolFile
  <2>5. NamedBy(f) = {F[i] : i \in 1..n}
    BY <1>2, <2>1, <2>2, <2>3 DEF NamedBy
  <2>6. F \in Surjection(1..n, NamedBy(f))
    BY <2>3, <2>5 DEF Surjection
  <2>7. IsFiniteSet(NamedBy(f))
    BY ONLY <2>2, <2>6, IntervalIsFinite, FS_Surjection
  <2>8. QED
    BY <2>4, <2>5, <2>7
<1>3. CASE f.kind # "type_shape_duplicate"
  <2>1. NamedBy(f) = ToSet(f.files) \cup f.callers
    BY <1>3 DEF NamedBy
  <2>2. IsFiniteSet(ToSet(f.files)) /\ ToSet(f.files) \subseteq Nat
    BY <1>1, EntriesAreFinite
  <2>3. IsFiniteSet(f.callers) /\ f.callers \subseteq Nat
    <3>1. IsFiniteSet(f.callers)
      BY <1>1, FilesAreFinite, FS_Subset
    <3>2. Files \subseteq Nat
      BY DEF Files
    <3>3. QED
      BY <1>1, <3>1, <3>2
  <2>4. IsFiniteSet(ToSet(f.files) \cup f.callers)
    BY ONLY <2>2, <2>3, FS_Union
  <2>5. QED
    BY <2>1, <2>2, <2>3, <2>4
<1>4. QED
  BY <1>2, <1>3

LEMMA SortedNumbers == ASSUME NEW S \in SUBSET Nat, IsFiniteSet(S) PROVE Sorted(S) \in Seq(Nat)
<1>1. S \in SUBSET Int
  OBVIOUS
<1>2. Sorted(S) \in Seq(S)
  BY <1>1, SortedFacts
<1>3. QED
  BY ONLY <1>2, S \in SUBSET Nat, WidenedSeq

LEMMA FindingFilesAre ==
  ASSUME NEW fs \in Seq(AllFindings), NEW fallback \in SUBSET Files
  PROVE  FindingFiles(fs, fallback) \in Seq(Nat)
<1>1. PICK n : n = Len(fs)
  OBVIOUS
<1>2. n \in Nat /\ DOMAIN fs = 1..n /\ \A i \in 1..n : fs[i] \in AllFindings
  BY ONLY <1>1, fs \in Seq(AllFindings)
<1>3. PICK T, U : T = [i \in 1..n |-> NamedBy(fs[i])] /\ U = {T[i] : i \in 1..n}
  OBVIOUS
<1>4. \A i \in 1..n : IsFiniteSet(T[i]) /\ T[i] \subseteq Nat
  BY <1>2, <1>3, NamedByOne
<1>5. IsFiniteSet(U)
  <2>1. T \in Surjection(1..n, U)
    BY <1>3 DEF Surjection
  <2>2. QED
    BY ONLY <1>2, <2>1, IntervalIsFinite, FS_Surjection
<1>6. IsFiniteSet(UNION U) /\ UNION U \subseteq Nat
  <2>1. \A X \in U : IsFiniteSet(X)
    BY <1>3, <1>4
  <2>2. IsFiniteSet(UNION U)
    BY ONLY <1>5, <2>1, FS_UNION
  <2>3. QED
    BY <1>3, <1>4, <2>2
<1>7. PICK X : X = IF UNION U = {} THEN fallback ELSE UNION U
  OBVIOUS
<1>8. FindingFiles(fs, fallback) = Take(Sorted(X), 12)
  <2>1. UNION U = UNION {NamedBy(fs[i]) : i \in DOMAIN fs}
    BY ONLY <1>2, <1>3
  <2>2. QED
    BY <1>7, <2>1 DEF FindingFiles, NamedBy
<1>9. IsFiniteSet(X) /\ X \subseteq Nat
  <2>1. Files \subseteq Nat
    BY DEF Files
  <2>2. IsFiniteSet(fallback)
    BY FilesAreFinite, FS_Subset
  <2>3. QED
    BY <1>6, <1>7, <2>1, <2>2
<1>10. Sorted(X) \in Seq(Nat) /\ 12 \in Nat
  BY <1>9, SortedNumbers
<1>11. QED
  BY ONLY <1>8, <1>10, TakenIn

LEMMA ReasonIs ==
  ASSUME NEW kind \in Nat, NEW severity \in {Info, Warn, Error}, NEW count \in Nat, NEW each \in Nat, NEW cap \in Nat,
         NEW files \in Seq(Nat)
  PROVE  Reason(kind, severity, count, each, cap, files) \in ReasonRecords
<1>1. PICK a \in Nat : a = count * each
  OBVIOUS
<1>2. Min({a, cap}) \in Nat
  BY LesserOfTwo
<1>3. QED
  BY <1>1, <1>2 DEF Reason, ReasonRecords

ReasonKey(a) == <<2 - a.severity, 100 - a.score, a.kind>>
ReasonBefore(a, b) == KeyLess(<<2 - a.severity, 100 - a.score, a.kind>>, <<2 - b.severity, 100 - b.score, b.kind>>)

LEMMA ReasonKeys == ASSUME NEW a \in ReasonRecords PROVE ReasonKey(a) \in Seq(Int)
<1>1. a.severity \in Int /\ a.score \in Int /\ a.kind \in Int
  BY DEF ReasonRecords, Info, Warn, Error
<1>2. PICK x \in Int, y \in Int, z \in Int : x = 2 - a.severity /\ y = 100 - a.score /\ z = a.kind
  BY <1>1
<1>3. <<x, y, z>> \in Seq(Int)
  OBVIOUS
<1>4. QED
  BY <1>2, <1>3 DEF ReasonKey

ReasonPairs(rs, n) == {p \in (1..n) \X (1..n) : KeyLess(ReasonKey(rs[p[1]]), ReasonKey(rs[p[2]]))}

LEMMA ReasonsArranged ==
  ASSUME NEW rs \in Seq(ReasonRecords)
  PROVE  Arranged(rs, LAMBDA a, b : KeyLess(<<2 - a.severity, 100 - a.score, a.kind>>, <<2 - b.severity, 100 - b.score, b.kind>>))
           \in Seq(ReasonRecords)
<1>1. PICK n : n = Len(rs)
  OBVIOUS
<1>2. n \in Nat /\ DOMAIN rs = 1..n /\ \A i \in 1..n : rs[i] \in ReasonRecords
  BY ONLY <1>1, rs \in Seq(ReasonRecords)
<1> DEFINE Ahead(i, j) == KeyLess(ReasonKey(rs[i]), ReasonKey(rs[j])) \/ (~KeyLess(ReasonKey(rs[j]), ReasonKey(rs[i])) /\ i < j)
<1>3. PICK L, S, R : L = ReasonPairs(rs, n) /\ S = 1..n /\ R = Stable(L, n)
  OBVIOUS
<1>4. PICK e : e = [i \in 1..Cardinality(S) |-> CHOOSE x \in S : Cardinality({y \in S : Ahead(y, x)}) = i - 1]
  OBVIOUS
<1>5. PICK t : t = Arranged(rs, LAMBDA a, b : KeyLess(<<2 - a.severity, 100 - a.score, a.kind>>, <<2 - b.severity, 100 - b.score, b.kind>>))
  OBVIOUS
<1>6. t = [k \in DOMAIN e |-> rs[e[k]]]
  BY <1>2, <1>3, <1>4, <1>5 DEF Arranged, Each, SortedBy, ReasonKey
<1>7. \A x, y \in S : <<y, x>> \in R <=> Ahead(y, x)
  BY <1>3 DEF Stable, ReasonPairs
<1> HIDE DEF Ahead
<1>8. \A x \in S : {y \in S : Ahead(y, x)} = {y \in S : <<y, x>> \in R}
  BY <1>7
<1>9. \A i : (CHOOSE x \in S : Cardinality({y \in S : Ahead(y, x)}) = i - 1)
             = (CHOOSE x \in S : Cardinality({y \in S : <<y, x>> \in R}) = i - 1)
  BY <1>8, Zenon
<1>10. e = InOrder(S, R)
  <2> DEFINE At(i) == CHOOSE x \in S : Cardinality({y \in S : Ahead(y, x)}) = i - 1
             To(i) == CHOOSE x \in S : Cardinality({y \in S : <<y, x>> \in R}) = i - 1
  <2>1. e = [i \in 1..Cardinality(S) |-> At(i)] /\ InOrder(S, R) = [i \in 1..Cardinality(S) |-> To(i)]
    BY <1>4 DEF InOrder
  <2>2. \A i : At(i) = To(i)
    BY <1>9
  <2> HIDE DEF At, To
  <2>3. QED
    BY <2>1, <2>2
<1>11. DOMAIN e = 1..n
  BY <1>2, <1>3, <1>4, IntervalIsFinite
<1>12. t = ByPlaces(rs, n, L)
  BY <1>3, <1>6, <1>10, <1>11, Zenon DEF ByPlaces
<1>13. \A i, j \in 1..n : <<i, j>> \in L <=> KeyLess(ReasonKey(rs[i]), ReasonKey(rs[j]))
  BY <1>3 DEF ReasonPairs
<1>14. \A i \in 1..n : ReasonKey(rs[i]) \in Seq(Int)
  BY <1>2, ReasonKeys
<1>15. WeakOrder(L, 1..n)
  <2>1. ASSUME NEW i \in 1..n, NEW j \in 1..n, <<i, j>> \in L PROVE <<j, i>> \notin L
    BY <1>13, <1>14, <2>1, KeyLessStrict
  <2>2. ASSUME NEW i \in 1..n, NEW j \in 1..n, NEW k \in 1..n, <<i, j>> \in L PROVE <<i, k>> \in L \/ <<k, j>> \in L
    <3>1. PICK a \in Seq(Int), b \in Seq(Int), c \in Seq(Int) :
            a = ReasonKey(rs[i]) /\ b = ReasonKey(rs[j]) /\ c = ReasonKey(rs[k])
      BY <1>14
    <3>2. KeyLess(a, b)
      BY <1>13, <2>2, <3>1
    <3>3. KeyLess(a, c) \/ a = c \/ KeyLess(c, a)
      BY KeyLessTotal
    <3>4. KeyLess(a, c) \/ KeyLess(c, b)
      BY <3>2, <3>3, KeyLessTransitive
    <3>5. QED
      BY <1>13, <3>1, <3>4
  <2>3. QED
    BY <2>1, <2>2 DEF WeakOrder
<1>16. Permutes(t, rs, n)
  BY ONLY <1>2, <1>12, <1>15, PlacesPermute
<1>17. t = [i \in DOMAIN t |-> t[i]]
  BY <1>12 DEF ByPlaces
<1>18. Permutes(t, rs, Len(rs))
  BY <1>1, <1>16
<1>19. t \in Seq(ReasonRecords)
  BY ONLY rs \in Seq(ReasonRecords), <1>17, <1>18, PermutedIn
<1>20. QED
  BY ONLY <1>5, <1>19

LEMMA KeptFindings ==
  ASSUME NEW fs \in Seq(AllFindings), NEW P \in SUBSET (DOMAIN fs)
  PROVE  /\ Picked(fs, P) \in Seq(AllFindings) /\ Len(Picked(fs, P)) \in Nat
         /\ HighestSeverity(Picked(fs, P)) \in {Info, Warn, Error}
<1>1. P \in SUBSET (1..Len(fs))
  OBVIOUS
<1>2. PICK t : t = Picked(fs, P)
  OBVIOUS
<1>3. t \in Seq(AllFindings)
  BY ONLY <1>1, <1>2, fs \in Seq(AllFindings), PickedIn
<1>4. \A i \in DOMAIN t : t[i] \in AllFindings
  BY ONLY <1>3
<1>5. \A x \in AllFindings : x.severity \in {Info, Warn, Error}
  BY DEF AllFindings
<1>6. HighestSeverity(t) \in {Info, Warn, Error}
  BY ONLY <1>4, <1>5, HighestOf
<1>7. Len(t) \in Nat
  BY ONLY <1>3
<1>8. QED
  BY <1>2, <1>3, <1>6, <1>7

LEMMA EightTyped ==
  ASSUME NEW r1 \in ReasonRecords, NEW r2 \in ReasonRecords, NEW r3 \in ReasonRecords, NEW r4 \in ReasonRecords,
         NEW r5 \in ReasonRecords, NEW r6 \in ReasonRecords, NEW r7 \in ReasonRecords, NEW r8 \in ReasonRecords
  PROVE  <<r1, r2, r3, r4, r5, r6, r7, r8>> \in Seq(ReasonRecords)
<1>1. PICK E : E = ReasonRecords
  OBVIOUS
<1>2. r1 \in E /\ r2 \in E /\ r3 \in E /\ r4 \in E /\ r5 \in E /\ r6 \in E /\ r7 \in E /\ r8 \in E
  BY <1>1
<1>3. <<r1, r2, r3, r4, r5, r6, r7, r8>> \in Seq(E)
  BY ONLY <1>2
<1>4. QED
  BY <1>1, <1>3

LEMMA FileSubsets == ASSUME NEW X \in SUBSET Files PROVE Cardinality(X) \in Nat /\ Sorted(X) \in Seq(Nat)
<1>1. IsFiniteSet(X)
  BY FilesAreFinite, FS_Subset
<1>2. X \in SUBSET Nat
  BY DEF Files
<1>3. QED
  BY <1>1, <1>2, SortedNumbers, FS_CardinalityType

LEMMA ReasonsAre ==
  ASSUME DocsInv, NEW paths \in SUBSET Files, NEW cone \in SUBSET Files, NEW deps \in SUBSET Files,
         NEW fs \in Seq(AllFindings)
  PROVE  ReasonsFrom(paths, cone, deps, fs) \in Seq(ReasonRecords)
<1> DEFINE size == Cardinality(cone)
           exports == Exports(paths)
           dynamic == {f \in cone : DynamicImportRisk(f)}
           many == Cardinality(deps)
           drift == Picked(fs, {i \in DOMAIN fs : fs[i].kind = "api_drift"})
           cycle == Picked(fs, {i \in DOMAIN fs : fs[i].kind = "cycle"})
           session == Picked(fs, {i \in DOMAIN fs : fs[i].kind = "session_conflict"})
           near == Picked(fs, {i \in DOMAIN fs : fs[i].kind \notin {"api_drift", "cycle", "session_conflict"}})
           r1 == Reason(3, IF size >= 8 THEN Warn ELSE Info, IF size > Cardinality(paths) THEN size ELSE 0, 4, 30, Take(Sorted(cone), 12))
           r2 == Reason(7, IF many >= 4 THEN Warn ELSE Info, many, 8, 30, Take(Sorted(deps), 12))
           r3 == Reason(6, Warn, Cardinality(exports), 10, 30, Sorted({e.file : e \in exports}))
           r4 == Reason(4, Warn, Cardinality(dynamic), 10, 20, Sorted(dynamic))
           r5 == Reason(1, Error, Len(drift), 20, 40, FindingFiles(drift, cone))
           r6 == Reason(2, HighestSeverity(cycle), Len(cycle), 15, 30, FindingFiles(cycle, cone))
           r7 == Reason(8, HighestSeverity(session), Len(session), 20, 40, FindingFiles(session, cone))
           r8 == Reason(5, HighestSeverity(near), Len(near), 6, 18, FindingFiles(near, cone))
           all == <<r1, r2, r3, r4, r5, r6, r7, r8>>
           P == {i \in DOMAIN all : all[i].count > 0}
           kept == Picked(all, P)
<1>0. ReasonsFrom(paths, cone, deps, fs)
         = Arranged(kept, LAMBDA a, b : KeyLess(<<2 - a.severity, 100 - a.score, a.kind>>, <<2 - b.severity, 100 - b.score, b.kind>>))
  BY DEF ReasonsFrom, Kept, Arranged, Each, SortedBy
<1> HIDE DEF kept, P, all, r1, r2, r3, r4, r5, r6, r7, r8
<1>1. /\ size = Cardinality(cone) /\ exports = Exports(paths)
      /\ dynamic = {f \in cone : DynamicImportRisk(f)} /\ many = Cardinality(deps)
  OBVIOUS
<1>2. size \in Nat /\ many \in Nat /\ Cardinality(paths) \in Nat
  BY <1>1, FileSubsets
<1>3. dynamic \in SUBSET Files /\ Cardinality(dynamic) \in Nat /\ Sorted(dynamic) \in Seq(Nat)
  <2>1. dynamic \in SUBSET Files
    BY <1>1
  <2>2. QED
    BY <2>1, FileSubsets
<1>4. Cardinality(exports) \in Nat /\ Sorted({e.file : e \in exports}) \in Seq(Nat)
  <2>1. IsFiniteSet(exports) /\ \A e \in exports : e.file \in Nat
    BY <1>1, ExportRows
  <2>2. PICK F, S : F = [e \in exports |-> e.file] /\ S = {e.file : e \in exports}
    OBVIOUS
  <2>3. F \in Surjection(exports, S) /\ S \in SUBSET Nat
    BY <2>1, <2>2 DEF Surjection
  <2>4. IsFiniteSet(S)
    BY ONLY <2>1, <2>3, FS_Surjection
  <2>5. QED
    BY <2>1, <2>2, <2>3, <2>4, SortedNumbers, FS_CardinalityType
<1>5. Take(Sorted(cone), 12) \in Seq(Nat) /\ Take(Sorted(deps), 12) \in Seq(Nat)
  <2>1. Sorted(cone) \in Seq(Nat) /\ Sorted(deps) \in Seq(Nat) /\ 12 \in Nat
    BY FileSubsets
  <2>2. QED
    BY ONLY <2>1, TakenIn
<1>7. /\ drift \in Seq(AllFindings) /\ Len(drift) \in Nat
      /\ cycle \in Seq(AllFindings) /\ Len(cycle) \in Nat /\ HighestSeverity(cycle) \in {Info, Warn, Error}
      /\ session \in Seq(AllFindings) /\ Len(session) \in Nat /\ HighestSeverity(session) \in {Info, Warn, Error}
      /\ near \in Seq(AllFindings) /\ Len(near) \in Nat /\ HighestSeverity(near) \in {Info, Warn, Error}
  BY KeptFindings
<1>8. /\ FindingFiles(drift, cone) \in Seq(Nat) /\ FindingFiles(cycle, cone) \in Seq(Nat)
      /\ FindingFiles(session, cone) \in Seq(Nat) /\ FindingFiles(near, cone) \in Seq(Nat)
  BY <1>7, FindingFilesAre
<1>10. r1 \in ReasonRecords
  <2>1. PICK sev, count : sev = (IF size >= 8 THEN Warn ELSE Info) /\ count = (IF size > Cardinality(paths) THEN size ELSE 0)
    OBVIOUS
  <2>2. sev \in {Info, Warn, Error} /\ count \in Nat /\ 3 \in Nat /\ 4 \in Nat /\ 30 \in Nat
    BY <1>2, <2>1
  <2>3. Reason(3, sev, count, 4, 30, Take(Sorted(cone), 12)) \in ReasonRecords
    BY ONLY <1>5, <2>2, ReasonIs
  <2>4. QED
    BY <2>1, <2>3 DEF r1
<1>11. r2 \in ReasonRecords
  <2>1. PICK sev : sev = (IF many >= 4 THEN Warn ELSE Info)
    OBVIOUS
  <2>2. sev \in {Info, Warn, Error} /\ 7 \in Nat /\ 8 \in Nat /\ 30 \in Nat
    BY <2>1
  <2>3. Reason(7, sev, many, 8, 30, Take(Sorted(deps), 12)) \in ReasonRecords
    BY ONLY <1>2, <1>5, <2>2, ReasonIs
  <2>4. QED
    BY <2>1, <2>3 DEF r2
<1>12. /\ Warn \in {Info, Warn, Error} /\ Error \in {Info, Warn, Error}
       /\ \A k \in {1, 2, 4, 5, 6, 8, 10, 15, 18, 20, 30, 40} : k \in Nat
  OBVIOUS
<1>13. r3 \in ReasonRecords /\ r4 \in ReasonRecords
  BY <1>3, <1>4, <1>12, ReasonIs DEF r3, r4
<1>14. r5 \in ReasonRecords /\ r6 \in ReasonRecords
  BY <1>7, <1>8, <1>12, ReasonIs DEF r5, r6
<1>15. r7 \in ReasonRecords /\ r8 \in ReasonRecords
  BY <1>7, <1>8, <1>12, ReasonIs DEF r7, r8
<1>16. all = <<r1, r2, r3, r4, r5, r6, r7, r8>>
  BY DEF all
<1>17. all \in Seq(ReasonRecords)
  BY ONLY <1>10, <1>11, <1>13, <1>14, <1>15, <1>16, EightTyped
<1>18. P = {i \in DOMAIN all : all[i].count > 0} /\ kept = Picked(all, P)
  BY DEF P, kept
<1>19. kept \in Seq(ReasonRecords)
  <2>1. P \in SUBSET (1..Len(all))
    <3>1. DOMAIN all = 1..Len(all)
      BY ONLY <1>17
    <3>2. QED
      BY ONLY <1>18, <3>1
  <2>2. QED
    BY ONLY <1>17, <1>18, <2>1, PickedIn
<1>21. QED
  BY <1>0, <1>19, ReasonsArranged

LEMMA ReasonsOfAChange ==
  ASSUME AnswerInv, NEW paths \in SUBSET Files, NEW max \in Nat \ {0}
  PROVE  Reasons(paths, max) \in Seq(ReasonRecords)
<1>1. DocsInv
  BY DEF AnswerInv
<1>2. PICK cone : cone = DependencyCone(paths, Depth)
  OBVIOUS
<1>3. cone \in SUBSET Files
  <2>1. cone = Ball(Neighbors, paths \cap Indexed, Depth)
    BY <1>1, <1>2, CapsAssumption, ConesAreBalls
  <2>2. Neighbors \in [Files -> SUBSET Files] /\ paths \cap Indexed \in SUBSET Files /\ Depth \in Nat
    BY <1>1, NeighborsAreFiles, CapsAssumption
  <2>3. QED
    BY ONLY <2>1, <2>2, BallSteps
<1>4. PICK deps : deps = (UNION {ReverseDependentsOf(p, 100) : p \in paths}) \ paths
  OBVIOUS
<1>5. deps \in SUBSET Files
  <2>1. ASSUME NEW p \in paths PROVE ReverseDependentsOf(p, 100) \subseteq Files
    <3>1. p \in Files /\ 100 \in Nat \ {0}
      OBVIOUS
    <3>2. ReverseDependentsOf(p, 100) \subseteq ImportersOf(p)
      BY <1>1, <3>1, DependentsFound DEF AllOrLimit
    <3>3. ReverseNeighbors \in [Files -> SUBSET Files] /\ ReverseNeighbors[p] \in SUBSET Files /\ NFiles \in Nat
      BY <1>1, <3>1, NeighborsAreFiles, PathsAssumption
    <3>4. Ball(ReverseNeighbors, ReverseNeighbors[p], NFiles) \in SUBSET Files
      BY ONLY <3>3, BallSteps
    <3>5. QED
      BY <3>2, <3>4 DEF ImportersOf
  <2>2. QED
    BY <1>4, <2>1
<1>6. PICK fs : fs = CollectFor(cone, max)
  OBVIOUS
<1>7. fs \in Seq(AllFindings)
  BY <1>3, <1>6, CollectedTyped
<1>8. Reasons(paths, max) = ReasonsFrom(paths, cone, deps, fs)
  BY <1>2, <1>4, <1>6 DEF Reasons
<1>9. ReasonsFrom(paths, cone, deps, fs) \in Seq(ReasonRecords)
  BY <1>1, <1>3, <1>5, <1>7, ReasonsAre
<1>10. QED
  BY <1>8, <1>9

(* The focus of any change: the head of the ranking of all files its        *)
(* reasons name, and none of them looks riskier than the change.           *)
FocusIsRight(paths) == HeadOfRanking(Reasons(paths, MaxFindings), ChangeRisk(paths).focus, Min({MaxFindings, 12}))

THEOREM EveryFocusRanks == Spec => [](\A paths \in SUBSET Files : FocusIsRight(paths))
<1>1. ASSUME AnswerInv, NEW paths \in SUBSET Files PROVE FocusIsRight(paths)
  <2>1. PICK rs : rs = Reasons(paths, MaxFindings)
    OBVIOUS
  <2>2. rs \in Seq(ReasonRecords)
    BY <1>1, <2>1, CapsAssumption, ReasonsOfAChange
  <2>3. PICK limit : limit = Min({MaxFindings, 12})
    OBVIOUS
  <2>4. limit \in Nat
    BY <2>3, CapsAssumption, LesserOfTwo
  <2>5. ChangeRisk(paths).focus = FocusFromReasons(rs, limit)
    BY <2>1, <2>3 DEF ChangeRisk
  <2>6. HeadOfRanking(rs, FocusFromReasons(rs, limit), limit)
    BY ONLY <2>2, <2>4, FocusIsHead
  <2>7. QED
    BY ONLY <2>1, <2>3, <2>5, <2>6 DEF FocusIsRight
<1>2. AnswerInv => \A paths \in SUBSET Files : FocusIsRight(paths)
  BY <1>1
<1>3. QED
  BY <1>2, SpecAnswers, PTL

(* For the path sets changeRisk is asked about.                            *)
THEOREM FocusRanksReasonsCorrect == Spec => []FocusRanksReasons
<1>1. (\A paths \in SUBSET Files : FocusIsRight(paths)) => FocusRanksReasons
  <2>1. SUFFICES ASSUME \A paths \in SUBSET Files : FocusIsRight(paths) PROVE FocusRanksReasons
    OBVIOUS
  <2>2. ASSUME NEW paths \in Asked PROVE FocusIsRight(paths)
    BY <2>1, AskedAssumption
  <2>3. ASSUME NEW paths
        PROVE ChangeRisk(paths).reasons = Reasons(paths, MaxFindings) /\ ChangeRisk(paths).score = RiskScore(Reasons(paths, MaxFindings))
    BY DEF ChangeRisk
  <2>4. QED
    BY <2>2, <2>3 DEF FocusRanksReasons, FocusIsRight, HeadOfRanking
<1>2. QED
  BY <1>1, EveryFocusRanks, PTL

(***************************************************************************)
(* An analysis of some files beside that of all.                           *)
(***************************************************************************)
(* A sequence lists the values of some cells, in the order of the cells.    *)
Places == Nat \X Nat
Listing(F, at, C, val) ==
  /\ at \in [1..Len(F) -> C]
  /\ \A c \in C : \E m \in 1..Len(F) : at[m] = c
  /\ \A l, m \in 1..Len(F) : l < m => Comes(at[l], at[m])
  /\ \A m \in 1..Len(F) : F[m] = val[at[m]]

LEMMA ComesOnce ==
  ASSUME NEW p \in Places, NEW q \in Places, Comes(p, q) PROVE ~Comes(q, p) /\ p # q
BY DEF Places, Comes

(* The first listing is as long as the second at most, and begins it.       *)
LEMMA ListingBegins ==
  ASSUME NEW C \in SUBSET Places, NEW val, NEW F, NEW G, Len(F) \in Nat, Len(G) \in Nat,
         NEW a, Listing(F, a, C, val), NEW b, Listing(G, b, C, val)
  PROVE  \A i \in 1..Len(F) : i \in 1..Len(G) /\ a[i] = b[i]
<1>1. PICK m \in Nat, n \in Nat : m = Len(F) /\ n = Len(G)
  OBVIOUS
<1>2. /\ \A i \in 1..m : a[i] \in C
      /\ \A i \in 1..n : b[i] \in C
      /\ \A c \in C : \E i \in 1..m : a[i] = c
      /\ \A c \in C : \E i \in 1..n : b[i] = c
      /\ \A i, j \in 1..m : i < j => Comes(a[i], a[j])
      /\ \A i, j \in 1..n : i < j => Comes(b[i], b[j])
  BY <1>1 DEF Listing
<1>3. \A p, q \in C : Comes(p, q) => ~Comes(q, p) /\ p # q
  BY ComesOnce
<1>4. PICK T : T = {i \in 1..m : ~(i \in 1..n /\ a[i] = b[i])}
  OBVIOUS
<1>5. T = {}
  <2>1. SUFFICES ASSUME T # {} PROVE FALSE
    OBVIOUS
  <2>2. T \in SUBSET Nat
    BY <1>4
  <2>3. PICK i \in T : \A j \in T : i <= j
    BY ONLY <2>1, <2>2, SmallestOf
  <2>4. i \in 1..m /\ ~(i \in 1..n /\ a[i] = b[i])
    BY <1>4, <2>3
  <2>5. \A j \in 1..m : j < i => j \in 1..n /\ a[j] = b[j]
    BY <1>4, <2>2, <2>3
  <2>6. PICK k \in 1..n : b[k] = a[i]
    BY <1>2, <2>4
  <2>7. ~(k < i)
    <3>1. SUFFICES ASSUME k < i PROVE FALSE
      OBVIOUS
    <3>2. k \in 1..m /\ k < i
      BY <2>4, <3>1
    <3>3. a[k] = a[i] /\ Comes(a[k], a[i]) /\ a[k] \in C /\ a[i] \in C
      BY <1>2, <2>4, <2>5, <2>6, <3>2
    <3>4. QED
      BY <1>3, <3>3
  <2>8. k > i /\ i \in 1..n
    BY <2>4, <2>6, <2>7
  <2>9. Comes(b[i], a[i]) /\ b[i] \in C
    BY <1>2, <2>6, <2>8
  <2>10. PICK l \in 1..m : a[l] = b[i]
    BY <1>2, <2>9
  <2>11. l < i \/ l = i \/ i < l
    BY <2>4
  <2>12. CASE l < i
    <3>1. b[l] = b[i] /\ l \in 1..n
      BY <2>5, <2>10, <2>12
    <3>2. Comes(b[l], b[i])
      BY <1>2, <2>8, <2>12, <3>1
    <3>3. QED
      BY <1>3, <2>9, <3>1, <3>2
  <2>13. CASE l = i
    BY <1>2, <1>3, <2>4, <2>9, <2>10, <2>13
  <2>14. CASE i < l
    <3>1. Comes(a[i], a[l]) /\ a[i] \in C
      BY <1>2, <2>4, <2>14
    <3>2. QED
      BY <1>3, <2>9, <2>10, <3>1
  <2>15. QED
    BY <2>11, <2>12, <2>13, <2>14
<1>6. QED
  BY <1>1, <1>4, <1>5

LEMMA OneListing ==
  ASSUME NEW C \in SUBSET Places, NEW val, NEW E, NEW F \in Seq(E), NEW D, NEW G \in Seq(D),
         NEW a, Listing(F, a, C, val), NEW b, Listing(G, b, C, val)
  PROVE  F = G
<1>1. PICK m \in Nat, n \in Nat : m = Len(F) /\ n = Len(G)
  OBVIOUS
<1>2. \A i \in 1..m : i \in 1..n /\ a[i] = b[i]
  BY <1>1, ListingBegins
<1>3. \A i \in 1..n : i \in 1..m
  BY <1>1, ListingBegins
<1>4. m = n
  <2>1. m <= n
    <3>1. CASE m = 0
      BY <3>1
    <3>2. CASE m # 0
      <4>1. m \in 1..m
        BY <3>2
      <4>2. QED
        BY <1>2, <4>1
    <3>3. QED
      BY <3>1, <3>2
  <2>2. n <= m
    <3>1. CASE n = 0
      BY <3>1
    <3>2. CASE n # 0
      <4>1. n \in 1..n
        BY <3>2
      <4>2. QED
        BY <1>3, <4>1
    <3>3. QED
      BY <3>1, <3>2
  <2>3. QED
    BY <2>1, <2>2
<1>5. \A i \in 1..m : F[i] = G[i]
  BY <1>1, <1>2, <1>4 DEF Listing
<1>6. F = [i \in 1..m |-> F[i]] /\ G = [i \in 1..n |-> G[i]]
  BY <1>1
<1>7. QED
  BY <1>4, <1>5, <1>6

(* What is picked from a listing lists some of its cells.                   *)
LEMMA ListingPicked ==
  ASSUME NEW C \in SUBSET Places, NEW val, NEW E, NEW F \in Seq(E), NEW a, Listing(F, a, C, val),
         NEW D \in SUBSET C
  PROVE  \E b : Listing(Picked(F, {m \in 1..Len(F) : a[m] \in D}), b, D, val)
<1>1. PICK n \in Nat : n = Len(F) /\ DOMAIN F = 1..n
  OBVIOUS
<1>2. PICK P : P = {m \in 1..n : a[m] \in D}
  OBVIOUS
<1>3. P \in SUBSET Int /\ IsFiniteSet(P)
  <2>1. P \subseteq 1..n
    BY <1>2
  <2>2. IsFiniteSet(1..n)
    BY IntervalIsFinite
  <2>3. IsFiniteSet(P)
    BY ONLY <2>1, <2>2, FS_Subset
  <2>4. QED
    BY <2>1, <2>3
<1>4. PICK s : s = Sorted(P)
  OBVIOUS
<1>5. /\ s \in Seq(P) /\ (\A x \in P : \E i \in 1..Len(s) : s[i] = x)
      /\ \A i, j \in 1..Len(s) : i < j => s[i] < s[j]
  BY <1>3, <1>4, SortedFacts
<1>6. PICK k \in Nat : k = Len(s) /\ DOMAIN s = 1..k
  BY <1>5
<1>7. \A i \in 1..k : s[i] \in P
  BY <1>5, <1>6
<1>8. PICK G : G = [i \in 1..k |-> F[s[i]]]
  OBVIOUS
<1>9. Picked(F, P) = G
  BY <1>4, <1>6, <1>8 DEF Picked, Each
<1>10. Len(G) = k
  BY <1>8
<1>11. PICK b : b = [i \in 1..k |-> a[s[i]]]
  OBVIOUS
<1>12. b \in [1..k -> D]
  BY <1>2, <1>7, <1>11
<1>13. ASSUME NEW c \in D PROVE \E i \in 1..k : b[i] = c
  <2>1. PICK m \in 1..n : a[m] = c
    BY <1>1 DEF Listing
  <2>2. m \in P
    BY <1>2, <2>1
  <2>3. PICK i \in 1..k : s[i] = m
    BY <1>5, <1>6, <2>2
  <2>4. QED
    BY <1>11, <2>1, <2>3
<1>14. ASSUME NEW i \in 1..k, NEW j \in 1..k, i < j PROVE Comes(b[i], b[j])
  <2>1. s[i] < s[j] /\ s[i] \in 1..n /\ s[j] \in 1..n
    BY <1>2, <1>5, <1>6, <1>7, <1>14
  <2>2. Comes(a[s[i]], a[s[j]])
    BY <1>1, <2>1 DEF Listing
  <2>3. QED
    BY <1>11, <2>2
<1>15. ASSUME NEW i \in 1..k PROVE G[i] = val[b[i]]
  <2>1. s[i] \in 1..n
    BY <1>2, <1>7
  <2>2. F[s[i]] = val[a[s[i]]]
    BY <1>1, <2>1 DEF Listing
  <2>3. QED
    BY <1>8, <1>11, <2>2
<1>16. Listing(G, b, D, val)
  BY <1>10, <1>12, <1>13, <1>14, <1>15 DEF Listing
<1>17. QED
  BY <1>1, <1>2, <1>9, <1>16

(* Rows with one value of a field, of the rows that lie in D.               *)
Within(F, a, D) == Picked(F, {m \in 1..Len(F) : a[m] \in D})

LEMMA WithinIs ==
  ASSUME NEW C \in SUBSET Places, NEW val, NEW E, NEW F \in Seq(E), NEW a, Listing(F, a, C, val), NEW D \in SUBSET C
  PROVE  Within(F, a, D) \in Seq(E) /\ \E h : Listing(Within(F, a, D), h, D, val)
<1>1. PICK P : P = {m \in 1..Len(F) : a[m] \in D}
  OBVIOUS
<1>2. P \in SUBSET (1..Len(F)) /\ Within(F, a, D) = Picked(F, P)
  BY <1>1 DEF Within
<1>3. Picked(F, P) \in Seq(E)
  BY ONLY <1>2, F \in Seq(E), PickedIn
<1>4. \E h : Listing(Picked(F, {m \in 1..Len(F) : a[m] \in D}), h, D, val)
  BY ListingPicked
<1>5. QED
  BY <1>2, <1>3, <1>4 DEF Within

LEMMA AlikeListed ==
  ASSUME NEW D \in SUBSET Places, NEW val, NEW E, NEW H \in Seq(E), NEW h, Listing(H, h, D, val), NEW field,
         NEW i \in 1..Len(H), NEW B \in SUBSET D, \A c \in D : c \in B <=> val[c][field] = H[i][field]
  PROVE  (\E b : Listing(Alike(H, field, i), b, B, val)) /\ Alike(H, field, i) \in Seq(E)
<1>1. PICK n \in Nat : n = Len(H) /\ DOMAIN H = 1..n
  OBVIOUS
<1>2. \A m \in 1..n : h[m] \in D /\ H[m] = val[h[m]]
  BY <1>1 DEF Listing
<1>3. \E b : Listing(Within(H, h, B), b, B, val)
  BY WithinIs
<1>4. {m \in 1..Len(H) : h[m] \in B} = {m \in 1..Len(H) : H[m][field] = H[i][field]}
  BY <1>1, <1>2
<1>5. Alike(H, field, i) = Within(H, h, B)
  BY <1>4 DEF Alike, Within
<1>6. Alike(H, field, i) \in Seq(E)
  BY AlikeIn
<1>7. QED
  BY <1>3, <1>5, <1>6

(* A bucket of all rows that lies in some of them is a bucket of those.     *)
LiesIn(D2, D, val, field, value) == \A c \in D : val[c][field] = value => c \in D2

LEMMA SameBucket ==
  ASSUME NEW D \in SUBSET Places, NEW val, NEW E, NEW H \in Seq(E), NEW h, Listing(H, h, D, val),
         NEW D2 \in SUBSET D, NEW E2, NEW H2 \in Seq(E2), NEW h2, Listing(H2, h2, D2, val),
         NEW field, NEW i \in 1..Len(H), LiesIn(D2, D, val, field, H[i][field])
  PROVE  \E k \in 1..Len(H2) : Alike(H2, field, k) = Alike(H, field, i)
<1>1. PICK c \in D : H[i] = val[c]
  BY DEF Listing
<1>2. c \in D2 /\ \A d \in D : val[d][field] = H[i][field] => d \in D2
  BY <1>1 DEF LiesIn
<1>3. PICK k \in 1..Len(H2) : h2[k] = c /\ H2[k] = val[c]
  BY <1>2 DEF Listing
<1>4. PICK B : B = {d \in D : val[d][field] = H[i][field]}
  OBVIOUS
<1>5. B = {d \in D2 : val[d][field] = H2[k][field]} /\ B \in SUBSET Places
  BY <1>1, <1>2, <1>3, <1>4
<1>6. PICK A : A = Alike(H, field, i)
  OBVIOUS
<1>7. PICK A2 : A2 = Alike(H2, field, k)
  OBVIOUS
<1>8. A \in Seq(E) /\ \E b : Listing(A, b, B, val)
  <2>1. B \in SUBSET D /\ \A d \in D : d \in B <=> val[d][field] = H[i][field]
    BY <1>4
  <2>2. QED
    BY <1>6, <2>1, AlikeListed
<1>9. A2 \in Seq(E2) /\ \E b : Listing(A2, b, B, val)
  <2>1. D2 \in SUBSET Places /\ B \in SUBSET D2 /\ \A d \in D2 : d \in B <=> val[d][field] = H2[k][field]
    BY <1>5
  <2>2. QED
    BY <1>7, <2>1, AlikeListed
<1>10. A2 = A
  BY ONLY <1>5, <1>8, <1>9, OneListing
<1>11. QED
  BY <1>6, <1>7, <1>10

(* The rows of some files, by file and place in the file.                   *)
RowCells(X, column) == {p \in X \X Nat : p[2] \in 1..Len(docs[p[1]][column])}
RowAt(column) == [c \in RowCells(Files, column) |-> docs[c[1]][column][c[2]]]

LEMMA RowsListed ==
  ASSUME DocsInv, NEW X \in SUBSET Files, NEW column, NEW E, \A f \in X : docs[f][column] \in Seq(E)
  PROVE  \E at : Listing(RowsOf(X, column), at, RowCells(X, column), RowAt(column))
<1>1. PICK fs : fs = Sorted(X)
  OBVIOUS
<1>2. /\ fs \in Seq(Files) /\ (\A i \in 1..Len(fs) : fs[i] \in X) /\ \A x \in X : \E i \in 1..Len(fs) : fs[i] = x
      /\ \A i, j \in 1..Len(fs) : i < j => fs[i] < fs[j]
  <2>1. fs \in Seq(Files) /\ (\A i \in 1..Len(fs) : fs[i] \in X) /\ \A x \in X : \E i \in 1..Len(fs) : fs[i] = x
    BY <1>1, SortedFiles
  <2>2. X \in SUBSET Int /\ IsFiniteSet(X)
    <3>1. X \subseteq Files
      OBVIOUS
    <3>2. IsFiniteSet(Files)
      BY FilesAreFinite
    <3>3. IsFiniteSet(X)
      BY ONLY <3>1, <3>2, FS_Subset
    <3>4. QED
      BY <3>3 DEF Files
  <2>3. \A i, j \in 1..Len(fs) : i < j => fs[i] < fs[j]
    BY ONLY <1>1, <2>2, SortedFacts
  <2>4. QED
    BY <2>1, <2>3
<1>3. PICK n \in Nat : n = Len(fs) /\ DOMAIN fs = 1..n
  BY <1>2
<1>4. PICK seqs : seqs = [i \in 1..n |-> docs[fs[i]][column]]
  OBVIOUS
<1>5. seqs \in Seq(Seq(E)) /\ Len(seqs) = n
  <2>1. seqs \in [1..n -> Seq(E)]
    BY <1>2, <1>3, <1>4
  <2>2. QED
    BY <1>4, <2>1
<1>6. RowsOf(X, column) = FlattenSeq(seqs)
  BY <1>1, <1>3, <1>4 DEF RowsOf, Each
<1>7. PICK F : F = FlattenSeq(seqs)
  OBVIOUS
<1>8. PICK on : Lists(F, seqs, on, n)
  BY <1>5, <1>7, FlattenLists
<1>9. F \in Seq(E)
  BY <1>5, <1>7, FlattenLists
<1>10. PICK k \in Nat : k = Len(F) /\ DOMAIN F = 1..k
  BY <1>9
<1>11. /\ \A m \in 1..k : on[m] \in Cells(seqs, n) /\ F[m] = Entry(seqs, on[m])
       /\ \A p \in Cells(seqs, n) : \E m \in 1..k : on[m] = p
       /\ \A l, m \in 1..k : l < m => Comes(on[l], on[m])
  BY <1>8, <1>10 DEF Lists
<1>12. \A m \in 1..k : /\ on[m] = <<on[m][1], on[m][2]>> /\ on[m][1] \in 1..n /\ on[m][2] \in Nat
                       /\ on[m][2] \in 1..Len(seqs[on[m][1]])
  BY <1>11 DEF Cells
<1>13. PICK at : at = [m \in 1..k |-> <<fs[on[m][1]], on[m][2]>>]
  OBVIOUS
<1>14. ASSUME NEW m \in 1..k
       PROVE  at[m] \in RowCells(X, column) /\ F[m] = RowAt(column)[at[m]] /\ at[m][1] = fs[on[m][1]] /\ at[m][2] = on[m][2]
  <2>1. PICK i \in 1..n, j \in Nat : on[m] = <<i, j>> /\ j \in 1..Len(seqs[i])
    BY <1>12
  <2>2. at[m] = <<fs[i], j>> /\ fs[i] \in X /\ seqs[i] = docs[fs[i]][column]
    BY <1>2, <1>3, <1>4, <1>13, <2>1
  <2>3. at[m] \in RowCells(X, column) /\ at[m] \in RowCells(Files, column)
    BY <2>1, <2>2 DEF RowCells
  <2>4. F[m] = seqs[i][j]
    BY <1>11, <2>1 DEF Entry
  <2>5. RowAt(column)[at[m]] = docs[at[m][1]][column][at[m][2]]
    BY <2>3 DEF RowAt
  <2>6. at[m][1] = fs[i] /\ at[m][2] = j
    BY <2>2
  <2>7. QED
    BY <2>1, <2>2, <2>3, <2>4, <2>5, <2>6
<1>15. ASSUME NEW c \in RowCells(X, column) PROVE \E m \in 1..k : at[m] = c
  <2>1. c = <<c[1], c[2]>> /\ c[1] \in X /\ c[2] \in Nat /\ c[2] \in 1..Len(docs[c[1]][column])
    BY DEF RowCells
  <2>2. PICK i \in 1..n : fs[i] = c[1]
    BY <1>2, <1>3, <2>1
  <2>3. <<i, c[2]>> \in Cells(seqs, n)
    BY <1>4, <2>1, <2>2 DEF Cells
  <2>4. PICK m \in 1..k : on[m] = <<i, c[2]>>
    BY <1>11, <2>3
  <2>5. QED
    BY <1>13, <2>1, <2>2, <2>4
<1>16. ASSUME NEW l \in 1..k, NEW m \in 1..k, l < m PROVE Comes(at[l], at[m])
  <2>1. Comes(on[l], on[m]) /\ on[l][1] \in 1..n /\ on[m][1] \in 1..n
    BY <1>11, <1>12, <1>16
  <2>2. at[l][1] = fs[on[l][1]] /\ at[l][2] = on[l][2] /\ at[m][1] = fs[on[m][1]] /\ at[m][2] = on[m][2]
    BY <1>14
  <2>3. CASE on[l][1] < on[m][1]
    <3>1. fs[on[l][1]] < fs[on[m][1]]
      BY <1>2, <1>3, <2>1, <2>3
    <3>2. QED
      BY <2>2, <3>1 DEF Comes
  <2>4. CASE on[l][1] = on[m][1] /\ on[l][2] < on[m][2]
    BY <2>2, <2>4 DEF Comes
  <2>5. QED
    BY <2>1, <2>3, <2>4 DEF Comes
<1>17. at \in [1..Len(F) -> RowCells(X, column)]
  BY <1>10, <1>13, <1>14
<1>18. Listing(F, at, RowCells(X, column), RowAt(column))
  BY <1>10, <1>14, <1>15, <1>16, <1>17 DEF Listing
<1>19. QED
  BY <1>6, <1>7, <1>18

(* A symbol's number names its file.                                       *)
LEMMA SymbolFileIs ==
  ASSUME NEW X \in SUBSET Nat, NEW r \in Rows(X) \cup TypeRows(X) PROVE SymbolFile(SymbolId(r)) = r.file
<1>1. PICK n \in Nat \ {0}, f \in Nat, s \in Nat : n = SymbolsPerFile /\ f = r.file /\ s = r.symbol /\ s < n
  <2>1. SymbolsPerFile \in Nat \ {0}
    BY SymbolsAssumption
  <2>2. r.file \in Nat /\ r.symbol \in 0..(SymbolsPerFile - 1)
    BY RowIds
  <2>3. QED
    BY <2>1, <2>2
<1>2. SymbolId(r) = n * f + s
  BY <1>1, RowIds
<1>3. PICK x \in Nat : x = n * f
  BY <1>1
<1>4. PICK q \in Int : q = (x + s) \div n /\ n * q <= x + s /\ x + s < n * (q + 1)
  <2>1. x + s \in Nat /\ n \in Nat \ {0}
    BY <1>1
  <2>2. (x + s) \div n \in Int
    BY ONLY <2>1
  <2>3. n * ((x + s) \div n) <= x + s /\ x + s < n * ((x + s) \div n + 1)
    BY ONLY <2>1
  <2>4. QED
    BY <2>2, <2>3
<1>5. ~(q < f)
  <2>1. SUFFICES ASSUME q < f PROVE FALSE
    OBVIOUS
  <2>2. q + 1 <= f
    BY <1>1, <1>4, <2>1
  <2>3. n * (q + 1) <= n * f
    BY ONLY n \in Nat \ {0}, q \in Int, f \in Nat, <2>2
  <2>4. x + s < x
    BY <1>3, <1>4, <2>3
  <2>5. QED
    BY <1>1, <1>3, <2>4
<1>6. ~(q > f)
  <2>1. SUFFICES ASSUME q > f PROVE FALSE
    OBVIOUS
  <2>2. q >= f + 1
    BY <1>1, <1>4, <2>1
  <2>3. n * q >= n * (f + 1) /\ n * (f + 1) = n * f + n
    BY ONLY n \in Nat \ {0}, q \in Int, f \in Nat, <2>2
  <2>4. x + s >= x + n
    BY <1>3, <1>4, <2>3
  <2>5. QED
    BY <1>1, <1>3, <2>4
<1>7. q = f
  BY <1>1, <1>4, <1>5, <1>6
<1>8. QED
  BY <1>1, <1>2, <1>3, <1>4, <1>7 DEF SymbolFile

(* If the files a bucket's symbols name lie in Q, so do its rows.           *)
LEMMA BucketLiesIn ==
  ASSUME NEW X \in SUBSET Nat, NEW b \in Seq(Rows(X) \cup TypeRows(X)), NEW p, In(b, p),
         NEW s, s = Each(b, SymbolId) \/ s = Distinct(b), NEW Q, ToSet(Each(s, SymbolFile)) \subseteq Q
  PROVE  p.file \in Q
<1>1. PICK i \in 1..Len(b) : b[i] = p
  BY DEF In
<1>2. p \in Rows(X) \cup TypeRows(X) /\ DOMAIN b = 1..Len(b)
  BY <1>1
<1>3. PICK t \in Seq(Nat) : t = Each(b, SymbolId) /\ Len(t) = Len(b)
  BY SymbolIds
<1>4. t[i] = SymbolId(p) /\ DOMAIN t = 1..Len(b)
  BY <1>1, <1>2, <1>3 DEF Each
<1>5. s \in Seq(Nat) /\ \E j \in 1..Len(s) : s[j] = SymbolId(p)
  <2>1. CASE s = Each(b, SymbolId)
    BY <1>3, <1>4, <2>1
  <2>2. CASE s = Distinct(b)
    <3>1. PICK T : T = ToSet(t)
      OBVIOUS
    <3>2. IsFiniteSet(T) /\ T \subseteq Nat
      BY <1>3, <3>1, EntriesAreFinite
    <3>3. T \in SUBSET Int
      BY <3>2
    <3>4. s = Sorted(T)
      BY <1>3, <2>2, <3>1 DEF Distinct, SortUniq
    <3>5. \A x \in T : \E j \in 1..Len(s) : s[j] = x
      BY ONLY <3>2, <3>3, <3>4, SortedFacts
    <3>6. SymbolId(p) \in T
      BY <1>3, <1>4, <3>1 DEF ToSet
    <3>7. s \in Seq(Nat)
      BY <2>2, SymbolIds
    <3>8. QED
      BY <3>5, <3>6, <3>7
  <2>3. QED
    BY <2>1, <2>2
<1>6. PICK j \in 1..Len(s) : s[j] = SymbolId(p)
  BY <1>5
<1>7. SymbolFile(SymbolId(p)) \in ToSet(Each(s, SymbolFile))
  <2>1. j \in DOMAIN s /\ DOMAIN s = DOMAIN Each(s, SymbolFile)
    BY <1>5, <1>6 DEF Each
  <2>2. Each(s, SymbolFile)[j] = SymbolFile(SymbolId(p))
    BY <1>6, <2>1 DEF Each
  <2>3. QED
    BY <2>1, <2>2 DEF ToSet
<1>8. SymbolFile(SymbolId(p)) = p.file
  BY <1>2, SymbolFileIs
<1>9. QED
  BY <1>7, <1>8

(* The rows of some of the files are rows of the indexed ones.             *)
LEMMA CellsOfSome ==
  ASSUME DocsInv, NEW X \in SUBSET Files, NEW column \in {"clones", "types"}
  PROVE  /\ RowCells(X, column) \subseteq RowCells(Indexed, column) /\ RowCells(Indexed, column) \subseteq RowCells(Files, column)
         /\ RowCells(Files, column) \subseteq Places
         /\ \A c \in RowCells(Indexed, column) : c[1] \in X => c \in RowCells(X, column)
<1>1. ASSUME NEW f \in Files, f \notin Indexed PROVE ~(\E k \in Nat : k \in 1..Len(docs[f][column]))
  <2>1. docs[f] \in Projects[project][f] \cup {NoDoc} /\ project \in DOMAIN Projects
    BY DEF DocsInv, TypeOK
  <2>2. ~docs[f].indexed
    BY <1>1 DEF Indexed
  <2>3. docs[f] = NoDoc
    BY <2>1, <2>2, ProjectsAssumption
  <2>4. docs[f][column] = <<>>
    BY <2>3 DEF NoDoc
  <2>5. Len(docs[f][column]) = 0
    BY <2>4
  <2>6. QED
    BY <2>5
<1>2. Indexed \subseteq Files
  BY DEF Indexed
<1>3. ASSUME NEW c \in RowCells(X, column) PROVE c \in RowCells(Indexed, column)
  <2>1. c \in X \X Nat /\ c[2] \in 1..Len(docs[c[1]][column])
    BY DEF RowCells
  <2>2. PICK f \in X, k \in Nat : c = <<f, k>> /\ k \in 1..Len(docs[f][column])
    BY <2>1
  <2>3. f \in Indexed
    BY <1>1, <2>2
  <2>4. QED
    BY <2>2, <2>3 DEF RowCells
<1>4. RowCells(Indexed, column) \subseteq RowCells(Files, column) /\ RowCells(Files, column) \subseteq Places
  <2>1. ASSUME NEW c \in RowCells(Indexed, column) PROVE c \in RowCells(Files, column)
    BY <1>2 DEF RowCells
  <2>2. ASSUME NEW c \in RowCells(Files, column) PROVE c \in Places
    <3>1. c \in Files \X Nat /\ Files \subseteq Nat
      BY DEF RowCells, Files
    <3>2. QED
      BY <3>1 DEF Places
  <2>3. QED
    BY <2>1, <2>2
<1>5. ASSUME NEW c \in RowCells(Indexed, column), c[1] \in X PROVE c \in RowCells(X, column)
  BY <1>5 DEF RowCells
<1>6. QED
  BY <1>3, <1>4, <1>5

(* A row was found in the file its cell names.                             *)
LEMMA RowInItsFile ==
  ASSUME DocsInv
  PROVE  /\ \A c \in RowCells(Files, "clones") : RowAt("clones")[c] \in Prints(c[1]) /\ RowAt("clones")[c].file = c[1]
         /\ \A c \in RowCells(Files, "types") : RowAt("types")[c] \in Shapes(c[1]) /\ RowAt("types")[c].file = c[1]
<1>1. ASSUME NEW c \in RowCells(Files, "clones")
      PROVE  RowAt("clones")[c] \in Prints(c[1]) /\ RowAt("clones")[c].file = c[1]
  <2>1. c[1] \in Files /\ c[2] \in 1..Len(docs[c[1]].clones)
    BY DEF RowCells
  <2>2. RowAt("clones")[c] = docs[c[1]].clones[c[2]]
    BY DEF RowAt
  <2>3. RowAt("clones")[c] \in Prints(c[1])
    BY <2>1, <2>2, RowsOfAFile
  <2>4. QED
    BY <2>3 DEF Prints
<1>2. ASSUME NEW c \in RowCells(Files, "types")
      PROVE  RowAt("types")[c] \in Shapes(c[1]) /\ RowAt("types")[c].file = c[1]
  <2>1. c[1] \in Files /\ c[2] \in 1..Len(docs[c[1]].types)
    BY DEF RowCells
  <2>2. RowAt("types")[c] = docs[c[1]].types[c[2]]
    BY DEF RowAt
  <2>3. RowAt("types")[c] \in Shapes(c[1])
    BY <2>1, <2>2, RowsOfAFile
  <2>4. QED
    BY <2>3 DEF Shapes
<1>3. QED
  BY <1>1, <1>2

BigCells(X)  == {c \in RowCells(X, "clones") : BigEnough(RowAt("clones")[c])}
LoudCells(X) == {c \in RowCells(X, "types") : ~RowAt("types")[c].suppressed}

LEMMA ReadRowsListed ==
  ASSUME DocsInv, NEW X \in SUBSET Files
  PROVE  /\ \E at : Listing(ClonesOf(X), at, RowCells(X, "clones"), RowAt("clones"))
         /\ \E h : Listing(Big(ClonesOf(X)), h, BigCells(X), RowAt("clones"))
         /\ \E h : Listing(Loud(TypesOf(X)), h, LoudCells(X), RowAt("types"))
<1>1. \A f \in X : docs[f]["clones"] \in Seq(Rows(Files)) /\ docs[f]["types"] \in Seq(TypeRows(Files))
  <2>1. TAKE f \in X
  <2>2. docs[f].clones \in Seq(Prints(f)) /\ docs[f].types \in Seq(Shapes(f)) /\ f \in Files
    BY RowsOfAFile
  <2>3. Prints(f) \subseteq Rows(Files) /\ Shapes(f) \subseteq TypeRows(Files)
    BY <2>2 DEF Rows, TypeRows
  <2>4. QED
    BY <2>2, <2>3, WidenedSeq
<1>2. PICK F, G : F = ClonesOf(X) /\ G = TypesOf(X)
  OBVIOUS
<1>3. F \in Seq(Rows(X)) /\ G \in Seq(TypeRows(X))
  BY <1>2, CloneRowsAre
<1>4. PICK C, D, v, w : C = RowCells(X, "clones") /\ D = RowCells(X, "types") /\ v = RowAt("clones") /\ w = RowAt("types")
  OBVIOUS
<1>5. C \in SUBSET Places /\ D \in SUBSET Places
  <2>1. \A column \in {"clones", "types"} : RowCells(X, column) \subseteq Places
    BY CellsOfSome
  <2>2. QED
    BY <1>4, <2>1
<1>6. PICK a : Listing(F, a, C, v)
  <2>1. \E at : Listing(RowsOf(X, "clones"), at, RowCells(X, "clones"), RowAt("clones"))
    BY <1>1, RowsListed
  <2>2. QED
    BY <1>2, <1>4, <2>1 DEF ClonesOf
<1>7. PICK b : Listing(G, b, D, w)
  <2>1. \E at : Listing(RowsOf(X, "types"), at, RowCells(X, "types"), RowAt("types"))
    BY <1>1, RowsListed
  <2>2. QED
    BY <1>2, <1>4, <2>1 DEF TypesOf
<1>8. PICK B : B = {c \in C : BigEnough(v[c])}
  OBVIOUS
<1>9. PICK L : L = {c \in D : ~w[c].suppressed}
  OBVIOUS
<1>10. Big(F) = Within(F, a, B)
  <2>1. \A m \in 1..Len(F) : a[m] \in C /\ F[m] = v[a[m]]
    BY <1>6 DEF Listing
  <2>2. DOMAIN F = 1..Len(F)
    BY <1>3
  <2>3. {m \in 1..Len(F) : a[m] \in B} = {m \in DOMAIN F : BigEnough(F[m])}
    BY <1>8, <2>1, <2>2
  <2>4. QED
    BY <2>3 DEF Big, Kept, Within
<1>11. Loud(G) = Within(G, b, L)
  <2>1. \A m \in 1..Len(G) : b[m] \in D /\ G[m] = w[b[m]]
    BY <1>7 DEF Listing
  <2>2. DOMAIN G = 1..Len(G)
    BY <1>3
  <2>3. {m \in 1..Len(G) : b[m] \in L} = {m \in DOMAIN G : ~G[m].suppressed}
    BY <1>9, <2>1, <2>2
  <2>4. QED
    BY <2>3 DEF Loud, Kept, Within
<1>12. \E h : Listing(Big(F), h, B, v)
  <2>1. B \in SUBSET C
    BY <1>8
  <2>2. QED
    BY <1>3, <1>5, <1>6, <1>10, <2>1, WithinIs
<1>13. \E h : Listing(Loud(G), h, L, w)
  <2>1. L \in SUBSET D
    BY <1>9
  <2>2. QED
    BY <1>3, <1>5, <1>7, <1>11, <2>1, WithinIs
<1>14. B = BigCells(X) /\ L = LoudCells(X)
  BY <1>4, <1>8, <1>9 DEF BigCells, LoudCells
<1>15. QED
  BY <1>2, <1>4, <1>6, <1>12, <1>13, <1>14

Here(x, paths) == ToSet(Each(x.symbols, SymbolFile)) \subseteq paths

(* Functions with the same tokens, all in the files asked about, are found  *)
(* by an analysis of those files.                                          *)
LEMMA ExactOfSome ==
  ASSUME DocsInv, NEW paths \in SUBSET Files, NEW x, In(ExactReports(ClonesOf(Indexed)), x), Here(x, paths)
  PROVE  In(ExactReports(ClonesOf(paths)), x)
<1>1. Indexed \in SUBSET Files /\ Files \in SUBSET Nat
  BY DEF Indexed, Files
<1>2. PICK F, G : F = ClonesOf(Indexed) /\ G = ClonesOf(paths)
  OBVIOUS
<1>3. F \in Seq(Rows(Indexed)) /\ G \in Seq(Rows(paths)) /\ Indexed \in SUBSET Nat /\ paths \in SUBSET Nat
  BY <1>1, <1>2, CloneRowsAre
<1>4. PICK H, H2 : H = Big(F) /\ H2 = Big(G)
  OBVIOUS
<1>5. H \in Seq(Rows(Indexed)) /\ H2 \in Seq(Rows(paths))
  BY <1>3, <1>4, KeptRows
<1>6. PICK i \in 1..Len(H) : x = ExactOf(Alike(H, "tokens", i)) /\ Len(Distinct(Alike(H, "tokens", i))) >= 2
  BY <1>2, <1>3, <1>4, ExactAre
<1>7. PICK D, D2, v : D = BigCells(Indexed) /\ D2 = BigCells(paths) /\ v = RowAt("clones")
  OBVIOUS
<1>8. /\ D \in SUBSET Places /\ D2 \in SUBSET D /\ \A c \in D : c[1] \in paths => c \in D2
      /\ D \subseteq RowCells(Files, "clones")
  <2>1. PICK cells, cells2 : cells = RowCells(Indexed, "clones") /\ cells2 = RowCells(paths, "clones")
    OBVIOUS
  <2>2. /\ cells2 \subseteq cells /\ cells \subseteq Places /\ \A c \in cells : c[1] \in paths => c \in cells2
        /\ cells \subseteq RowCells(Files, "clones")
    BY <2>1, CellsOfSome
  <2>3. D = {c \in cells : BigEnough(v[c])} /\ D2 = {c \in cells2 : BigEnough(v[c])}
    BY <1>7, <2>1 DEF BigCells
  <2>4. QED
    BY <2>2, <2>3
<1>9. PICK h : Listing(H, h, D, v)
  BY <1>1, <1>2, <1>4, <1>7, ReadRowsListed
<1>10. PICK h2 : Listing(H2, h2, D2, v)
  BY <1>2, <1>4, <1>7, ReadRowsListed
<1>11. PICK b : b = Alike(H, "tokens", i)
  OBVIOUS
<1>12. b \in Seq(Rows(Indexed)) /\ \A y : In(b, y) <=> In(H, y) /\ y["tokens"] = H[i]["tokens"]
  BY <1>5, <1>11, AlikeIn
<1>13. b \in Seq(Rows(Indexed) \cup TypeRows(Indexed))
  BY <1>12, WidenedSeq
<1>14. x.symbols = Each(b, SymbolId)
  BY <1>6, <1>11 DEF ExactOf, SemanticClone
<1>15. ASSUME NEW c \in D, v[c]["tokens"] = H[i]["tokens"] PROVE c \in D2
  <2>1. In(H, v[c])
    BY <1>9 DEF Listing, In
  <2>2. In(b, v[c])
    BY <1>12, <1>15, <2>1
  <2>3. ToSet(Each(x.symbols, SymbolFile)) \subseteq paths
    BY DEF Here
  <2>4. v[c].file \in paths
    BY <1>3, <1>13, <1>14, <2>2, <2>3, BucketLiesIn
  <2>5. v[c].file = c[1]
    BY <1>7, <1>8, RowInItsFile
  <2>6. QED
    BY <1>8, <2>4, <2>5
<1>16. \E k \in 1..Len(H2) : Alike(H2, "tokens", k) = Alike(H, "tokens", i)
  <2>1. PICK field : field = "tokens"
    OBVIOUS
  <2>2. LiesIn(D2, D, v, field, H[i][field])
    BY <1>15, <2>1 DEF LiesIn
  <2>3. \E k \in 1..Len(H2) : Alike(H2, field, k) = Alike(H, field, i)
    BY ONLY <1>5, <1>8, <1>9, <1>10, <2>2, i \in 1..Len(H), SameBucket
  <2>4. QED
    BY <2>1, <2>3
<1>17. PICK k \in 1..Len(H2) : Alike(H2, "tokens", k) = Alike(H, "tokens", i)
  BY <1>16
<1>18. QED
  BY <1>2, <1>3, <1>4, <1>6, <1>17, ExactAre

(* The same of types.                                                      *)
LEMMA TypesOfSome ==
  ASSUME DocsInv, NEW paths \in SUBSET Files, NEW x, In(TypeReports(TypesOf(Indexed)), x), Here(x, paths)
  PROVE  In(TypeReports(TypesOf(paths)), x)
<1>1. Indexed \in SUBSET Files /\ Files \in SUBSET Nat
  BY DEF Indexed, Files
<1>2. PICK F, G : F = TypesOf(Indexed) /\ G = TypesOf(paths)
  OBVIOUS
<1>3. F \in Seq(TypeRows(Indexed)) /\ G \in Seq(TypeRows(paths)) /\ Indexed \in SUBSET Nat /\ paths \in SUBSET Nat
  BY <1>1, <1>2, CloneRowsAre
<1>4. PICK H, H2 : H = Loud(F) /\ H2 = Loud(G)
  OBVIOUS
<1>5. H \in Seq(TypeRows(Indexed)) /\ H2 \in Seq(TypeRows(paths))
  BY <1>3, <1>4, LoudRows
<1>6. PICK i \in 1..Len(H) : x = TypeOf(Alike(H, "members", i)) /\ Len(Distinct(Alike(H, "members", i))) >= 2
  BY <1>2, <1>3, <1>4, TypesAre
<1>7. PICK D, D2, v : D = LoudCells(Indexed) /\ D2 = LoudCells(paths) /\ v = RowAt("types")
  OBVIOUS
<1>8. /\ D \in SUBSET Places /\ D2 \in SUBSET D /\ \A c \in D : c[1] \in paths => c \in D2
      /\ D \subseteq RowCells(Files, "types")
  <2>1. PICK cells, cells2 : cells = RowCells(Indexed, "types") /\ cells2 = RowCells(paths, "types")
    OBVIOUS
  <2>2. /\ cells2 \subseteq cells /\ cells \subseteq Places /\ \A c \in cells : c[1] \in paths => c \in cells2
        /\ cells \subseteq RowCells(Files, "types")
    BY <2>1, CellsOfSome
  <2>3. D = {c \in cells : ~v[c].suppressed} /\ D2 = {c \in cells2 : ~v[c].suppressed}
    BY <1>7, <2>1 DEF LoudCells
  <2>4. QED
    BY <2>2, <2>3
<1>9. PICK h : Listing(H, h, D, v)
  BY <1>1, <1>2, <1>4, <1>7, ReadRowsListed
<1>10. PICK h2 : Listing(H2, h2, D2, v)
  BY <1>2, <1>4, <1>7, ReadRowsListed
<1>11. PICK b : b = Alike(H, "members", i)
  OBVIOUS
<1>12. b \in Seq(TypeRows(Indexed)) /\ \A y : In(b, y) <=> In(H, y) /\ y["members"] = H[i]["members"]
  BY <1>5, <1>11, AlikeIn
<1>13. b \in Seq(Rows(Indexed) \cup TypeRows(Indexed))
  BY <1>12, WidenedSeq
<1>14. x.symbols = Distinct(b)
  BY <1>6, <1>11 DEF TypeOf
<1>15. ASSUME NEW c \in D, v[c]["members"] = H[i]["members"] PROVE c \in D2
  <2>1. In(H, v[c])
    BY <1>9 DEF Listing, In
  <2>2. In(b, v[c])
    BY <1>12, <1>15, <2>1
  <2>3. ToSet(Each(x.symbols, SymbolFile)) \subseteq paths
    BY DEF Here
  <2>4. v[c].file \in paths
    BY <1>3, <1>13, <1>14, <2>2, <2>3, BucketLiesIn
  <2>5. v[c].file = c[1]
    BY <1>7, <1>8, RowInItsFile
  <2>6. QED
    BY <1>8, <2>4, <2>5
<1>16. \E k \in 1..Len(H2) : Alike(H2, "members", k) = Alike(H, "members", i)
  <2>1. PICK field : field = "members"
    OBVIOUS
  <2>2. LiesIn(D2, D, v, field, H[i][field])
    BY <1>15, <2>1 DEF LiesIn
  <2>3. \E k \in 1..Len(H2) : Alike(H2, field, k) = Alike(H, field, i)
    BY ONLY <1>5, <1>8, <1>9, <1>10, <2>2, i \in 1..Len(H), SameBucket
  <2>4. QED
    BY <2>1, <2>3
<1>17. PICK k \in 1..Len(H2) : Alike(H2, "members", k) = Alike(H, "members", i)
  BY <1>16
<1>18. QED
  BY <1>2, <1>3, <1>4, <1>6, <1>17, TypesAre

(* And of functions that are alike: what the pair keeps is its order.       *)
LEMMA NearOfSome ==
  ASSUME DocsInv, NEW paths \in SUBSET Files, NEW x, In(NearReports(ClonesOf(Indexed)), x), Here(x, paths)
  PROVE  In(NearReports(ClonesOf(paths)), x)
<1>1. Indexed \in SUBSET Files /\ Files \in SUBSET Nat
  BY DEF Indexed, Files
<1>2. PICK F, G : F = ClonesOf(Indexed) /\ G = ClonesOf(paths)
  OBVIOUS
<1>3. F \in Seq(Rows(Indexed)) /\ G \in Seq(Rows(paths)) /\ Indexed \in SUBSET Nat /\ paths \in SUBSET Nat
  BY <1>1, <1>2, CloneRowsAre
<1>4. PICK c \in NearPairs(F) : x = NearOf(F[c[1]], F[c[2]])
  BY <1>2, <1>3, NearAre
<1>5. PICK k \in 1..Len(F), l \in 1..Len(F) : c = <<k, l>>
  <2>1. c \in (DOMAIN F) \X (DOMAIN F) /\ DOMAIN F = 1..Len(F)
    BY <1>3 DEF NearPairs, Candidates
  <2>2. PICK k \in DOMAIN F, l \in DOMAIN F : c = <<k, l>>
    BY <2>1
  <2>3. QED
    BY <2>1, <2>2
<1>6. PICK p, q : p = F[k] /\ q = F[l]
  OBVIOUS
<1>7. k < l /\ BigEnough(p) /\ BigEnough(q) /\ SameBand(p, q) /\ Similar(p, q) /\ x = NearOf(p, q)
  BY <1>4, <1>5, <1>6 DEF NearPairs, Candidates
<1>8. PICK C, C2, v : C = RowCells(Indexed, "clones") /\ C2 = RowCells(paths, "clones") /\ v = RowAt("clones")
  OBVIOUS
<1>9. /\ C \subseteq Places /\ C2 \subseteq C /\ C \subseteq RowCells(Files, "clones")
      /\ \A d \in C : d[1] \in paths => d \in C2
  BY <1>8, CellsOfSome
<1>10. PICK a : Listing(F, a, C, v)
  BY <1>1, <1>2, <1>8, ReadRowsListed
<1>11. PICK b : Listing(G, b, C2, v)
  BY <1>2, <1>8, ReadRowsListed
<1>12. PICK d, e : d = a[k] /\ e = a[l]
  OBVIOUS
<1>13. d \in C /\ e \in C /\ Comes(d, e) /\ v[d] = p /\ v[e] = q
  BY <1>5, <1>7, <1>10, <1>12, <1>6 DEF Listing
<1>14. ASSUME NEW s \in C, SymbolId(v[s]) \in ToSet(x.symbols) PROVE s \in C2
  <2>1. v[s] \in Prints(s[1]) /\ v[s].file = s[1] /\ s[1] \in Files
    <3>1. s \in RowCells(Files, "clones")
      BY <1>9
    <3>2. s[1] \in Files
      BY <3>1 DEF RowCells
    <3>3. QED
      BY <1>8, <3>1, <3>2, RowInItsFile
  <2>2. v[s] \in Rows(Files) \cup TypeRows(Files)
    BY <2>1 DEF Rows
  <2>3. SymbolFile(SymbolId(v[s])) = v[s].file
    BY <1>1, <2>2, SymbolFileIs
  <2>4. PICK i \in DOMAIN x.symbols : x.symbols[i] = SymbolId(v[s])
    BY <1>14 DEF ToSet
  <2>5. SymbolFile(SymbolId(v[s])) \in ToSet(Each(x.symbols, SymbolFile))
    <3>1. DOMAIN Each(x.symbols, SymbolFile) = DOMAIN x.symbols
      BY DEF Each
    <3>2. Each(x.symbols, SymbolFile)[i] = SymbolFile(SymbolId(v[s]))
      BY <2>4 DEF Each
    <3>3. QED
      BY <3>1, <3>2 DEF ToSet
  <2>6. v[s].file \in paths
    BY <2>3, <2>5 DEF Here
  <2>7. QED
    BY <1>9, <2>1, <2>6
<1>15. SymbolId(p) \in ToSet(x.symbols) /\ SymbolId(q) \in ToSet(x.symbols)
  <2>1. PICK i, j : i = SymbolId(p) /\ j = SymbolId(q)
    OBVIOUS
  <2>2. x.symbols = <<i, j>>
    BY <1>7, <2>1 DEF NearOf, SemanticClone
  <2>3. PICK s : s = <<i, j>>
    OBVIOUS
  <2>4. 1 \in DOMAIN s /\ 2 \in DOMAIN s /\ s[1] = i /\ s[2] = j
    BY <2>3
  <2>5. QED
    BY <2>1, <2>2, <2>3, <2>4 DEF ToSet
<1>16. d \in C2 /\ e \in C2
  BY <1>13, <1>14, <1>15
<1>17. PICK m \in 1..Len(G), n \in 1..Len(G) : b[m] = d /\ b[n] = e /\ G[m] = p /\ G[n] = q
  BY <1>11, <1>13, <1>16 DEF Listing
<1>18. m < n
  <2>1. SUFFICES ASSUME ~(m < n) PROVE FALSE
    OBVIOUS
  <2>2. ~Comes(e, d) /\ d # e
    <3>1. d \in Places /\ e \in Places
      BY <1>9, <1>13
    <3>2. QED
      BY <1>13, <3>1, ComesOnce
  <2>3. n < m
    BY <1>17, <2>1, <2>2
  <2>4. Comes(b[n], b[m])
    BY <1>11, <2>3 DEF Listing
  <2>5. QED
    BY <1>17, <2>2, <2>4
<1>19. <<m, n>> \in NearPairs(G)
  <2>1. DOMAIN G = 1..Len(G)
    BY <1>3
  <2>2. <<m, n>> \in Candidates(G)
    BY <1>7, <1>17, <1>18, <2>1 DEF Candidates
  <2>3. QED
    BY <1>7, <1>17, <2>2 DEF NearPairs
<1>20. x = NearOf(G[<<m, n>>[1]], G[<<m, n>>[2]])
  BY <1>7, <1>17
<1>21. In(NearReports(G), x)
  BY <1>3, <1>19, <1>20, NearAre
<1>22. QED
  BY <1>2, <1>21

(* Whatever a detector finds anywhere, it finds among the files asked about *)
(* unless a symbol in it is of another file.                               *)
Duplicates == {"semantic_clone", "type_shape_duplicate"}

LEMMA WholeOfSome ==
  ASSUME AnswerInv, NEW paths \in SUBSET Files, NEW d \in 1..6, NEW x \in Whole(Indexed)[d],
         x.kind \in Duplicates => Here(x, paths)
  PROVE  x \in Whole(paths)[d]
<1>1. DocsInv /\ Indexed \in SUBSET Files /\ Files \in SUBSET Nat
  BY DEF AnswerInv, Indexed, Files
<1>2. PICK F, G : F = ClonesOf(Indexed) /\ G = ClonesOf(paths)
  OBVIOUS
<1>3. PICK S, T : S = TypesOf(Indexed) /\ T = TypesOf(paths)
  OBVIOUS
<1>4. /\ F \in Seq(Rows(Indexed)) /\ G \in Seq(Rows(paths)) /\ S \in Seq(TypeRows(Indexed)) /\ T \in Seq(TypeRows(paths))
      /\ Indexed \in SUBSET Nat /\ paths \in SUBSET Nat
  BY <1>1, <1>2, <1>3, CloneRowsAre
<1>5. PICK exact, near, types : exact = ExactReports(F) /\ near = NearReports(F) /\ types = TypeReports(S)
  OBVIOUS
<1>6. PICK exact2, near2, types2 : exact2 = ExactReports(G) /\ near2 = NearReports(G) /\ types2 = TypeReports(T)
  OBVIOUS
<1>7. /\ exact \in Seq(AllFindings) /\ near \in Seq(AllFindings) /\ types \in Seq(AllFindings)
      /\ exact2 \in Seq(AllFindings) /\ near2 \in Seq(AllFindings) /\ types2 \in Seq(AllFindings)
  <2>1. exact \in Seq(AllFindings) /\ exact2 \in Seq(AllFindings)
    BY <1>4, <1>5, <1>6, ExactAre
  <2>2. near \in Seq(AllFindings) /\ near2 \in Seq(AllFindings)
    BY <1>4, <1>5, <1>6, NearAre
  <2>3. types \in Seq(AllFindings) /\ types2 \in Seq(AllFindings)
    BY <1>4, <1>5, <1>6, TypesAre
  <2>4. QED
    BY <2>1, <2>2, <2>3
<1>8. CASE d = 1
  <2>1. In(exact, x) \/ In(near, x)
    BY <1>2, <1>5, <1>7, <1>8, InIsToSet DEF Whole, Copies
  <2>2. x.kind = "semantic_clone"
    <3>1. ASSUME In(exact, x) PROVE x.kind = "semantic_clone"
      <4>1. PICK b : x = ExactOf(b)
        BY <1>4, <1>5, <3>1, ExactAre
      <4>2. QED
        BY <4>1 DEF ExactOf, SemanticClone
    <3>2. ASSUME In(near, x) PROVE x.kind = "semantic_clone"
      <4>1. PICK p, q : x = NearOf(p, q)
        BY <1>4, <1>5, <3>2, NearAre
      <4>2. QED
        BY <4>1 DEF NearOf, SemanticClone
    <3>3. QED
      BY <2>1, <3>1, <3>2
  <2>3. Here(x, paths)
    BY <2>2 DEF Duplicates
  <2>4. In(exact2, x) \/ In(near2, x)
    BY <1>1, <1>2, <1>5, <1>6, <2>1, <2>3, ExactOfSome, NearOfSome
  <2>5. x \in Copies(G)
    BY <1>6, <1>7, <2>4, InIsToSet DEF Copies
  <2>6. QED
    BY <1>2, <1>8, <2>5 DEF Whole
<1>9. CASE d = 2
  <2>1. In(types, x)
    BY <1>3, <1>5, <1>7, <1>9, InIsToSet DEF Whole
  <2>2. x.kind = "type_shape_duplicate"
    <3>1. PICK b : x = TypeOf(b)
      BY <1>4, <1>5, <2>1, TypesAre
    <3>2. QED
      BY <3>1 DEF TypeOf
  <2>3. Here(x, paths)
    BY <2>2 DEF Duplicates
  <2>4. In(types2, x)
    BY <1>1, <1>3, <1>5, <1>6, <2>1, <2>3, TypesOfSome
  <2>5. x \in ToSet(TypeReports(T))
    BY <1>6, <1>7, <2>4, InIsToSet
  <2>6. QED
    BY <1>3, <1>9, <2>5 DEF Whole
<1>10. CASE d \in 3..6
  <2>1. Whole(Indexed)[d] = Whole(paths)[d]
    BY <1>10 DEF Whole
  <2>2. QED
    BY <2>1
<1>11. QED
  BY <1>8, <1>9, <1>10

(* What is found without caps in all rows, touches the paths and is left    *)
(* out of the answer of a check of those paths with any cap.                *)
Explained(paths, max) ==
  LET answer == Summary(CollectFor(paths, max), max)
  IN \A d \in 1..6 : \A f \in Whole(Indexed)[d] :
       TouchesPaths(f, paths) /\ (\A g \in ToSet(answer.findings) : g.key # f.key)
       => \/ answer.truncated
          \/ Len(Detected(paths, max)[d]) >= max
          \/ f.kind \in Duplicates /\ ~Here(f, paths)

LEMMA OmissionsExplained ==
  ASSUME AnswerInv, NEW paths \in SUBSET Files, NEW max \in Nat \ {0} PROVE Explained(paths, max)
<1>1. PICK out, answer : out = CollectFor(paths, max) /\ answer = Summary(out, max)
  OBVIOUS
<1>2. SUFFICES ASSUME NEW d \in 1..6, NEW f \in Whole(Indexed)[d], TouchesPaths(f, paths),
                      ~answer.truncated, Len(Detected(paths, max)[d]) < max, f.kind \in Duplicates => Here(f, paths)
               PROVE  \E g \in ToSet(answer.findings) : g.key = f.key
  <2>1. \A d \in 1..6 : Detected(paths, max)[d] \in Seq(AllFindings)
    BY DetectedAreCut DEF CutFrom
  <2>2. \A d \in 1..6 : Len(Detected(paths, max)[d]) \in Nat
    BY <2>1
  <2>3. QED
    BY <1>1, <2>2 DEF Explained
<1>3. PICK found : found = Detected(paths, max)[d]
  OBVIOUS
<1>4. f \in Whole(paths)[d]
  BY <1>2, WholeOfSome
<1>5. CutFrom(found, Whole(paths)[d], max) /\ Len(found) < max
  BY <1>2, <1>3, DetectedAreCut
<1>6. In(found, f)
  BY <1>4, <1>5 DEF CutFrom
<1>7. PICK fs : fs = FlattenSeq(Detected(paths, max))
  OBVIOUS
<1>8. fs \in Seq(AllFindings) /\ In(fs, f)
  BY <1>3, <1>6, <1>7, CollectedAre
<1>9. PICK gs : gs = Touching(fs, paths)
  OBVIOUS
<1>10. gs \in Seq(AllFindings) /\ In(gs, f)
  BY <1>2, <1>8, <1>9, TouchingIn
<1>11. out = Ordered(gs, max)
  BY <1>1, <1>7, <1>9 DEF CollectFor, Touching
<1>12. /\ out \in Seq(AllFindings)
       /\ Len(out) < 2 * max => \A x : In(gs, x) => \E y : In(out, y) /\ y.key = x.key
  BY <1>10, <1>11, OrderedKeeps
<1>13. Len(out) <= max /\ Len(out) \in Nat
  <2>1. Len(out) \in Nat
    BY <1>12
  <2>2. answer.truncated = (Len(out) > max)
    BY <1>1 DEF Summary
  <2>3. ~(Len(out) > max)
    BY <1>2, <2>2
  <2>4. QED
    BY <2>1, <2>3
<1>14. Len(out) < 2 * max
  BY <1>13
<1>15. PICK y : In(out, y) /\ y.key = f.key
  BY <1>10, <1>12, <1>14
<1>16. answer.findings = out
  <2>1. Take(out, max) = out
    BY <1>12, <1>13, TakenIn
  <2>2. QED
    BY <1>1, <2>1 DEF Summary
<1>17. y \in ToSet(answer.findings)
  BY <1>12, <1>15, <1>16, InIsToSet
<1>18. QED
  BY <1>15, <1>17

(* Whatever paths are asked about and whatever the cap, a check leaves out   *)
(* of what the whole analysis says about them only what one of the three     *)
(* causes explains; the whole analysis has no caps here.                    *)
THEOREM EveryOmissionHasCause == Spec => [](\A paths \in SUBSET Files : \A max \in Nat \ {0} : Explained(paths, max))
<1>1. AnswerInv => \A paths \in SUBSET Files : \A max \in Nat \ {0} : Explained(paths, max)
  BY OmissionsExplained
<1>2. QED
  BY <1>1, SpecAnswers, PTL

(* As the run checks it, of the paths it asks about and with its caps.       *)
THEOREM OmissionHasCauseCorrect == Spec => []OmissionHasCause
<1>1. ASSUME AnswerInv PROVE OmissionHasCause
  <2>1. PICK all : all = Detected(Indexed, Many)
    OBVIOUS
  <2>2. SUFFICES ASSUME NEW paths \in Asked, NEW d \in DOMAIN all, NEW f \in ToSet(all[d]), TouchesPaths(f, paths),
                        \A g \in ToSet(CheckFor(paths).findings) : g.key # f.key
                 PROVE  \/ CheckFor(paths).truncated
                        \/ Len(Detected(paths, MaxFindings)[d]) >= MaxFindings
                        \/ f.kind \in Duplicates /\ ~Here(f, paths)
    BY <2>1 DEF OmissionHasCause, Duplicates, Here
  <2>3. paths \in SUBSET Files /\ MaxFindings \in Nat \ {0} /\ Indexed \in SUBSET Files /\ Many \in Nat \ {0}
    BY AskedAssumption, CapsAssumption DEF Indexed, Many
  <2>4. all \in Seq(Seq(AllFindings)) /\ Len(all) = 6
    BY <2>1, <2>3, <1>1, DetectedAreCut
  <2>5. d \in 1..6
    BY <2>4
  <2>6. CutFrom(all[d], Whole(Indexed)[d], Many)
    BY <1>1, <2>1, <2>3, <2>5, DetectedAreCut
  <2>7. In(all[d], f)
    <3>1. all[d] \in Seq(AllFindings)
      BY <2>6 DEF CutFrom
    <3>2. f \in ToSet(all[d])
      BY <2>2
    <3>3. QED
      BY ONLY <3>1, <3>2, InIsToSet
  <2>8. f \in Whole(Indexed)[d]
    BY <2>6, <2>7 DEF CutFrom
  <2>9. Explained(paths, MaxFindings)
    BY <1>1, <2>3, OmissionsExplained
  <2>10. CheckFor(paths) = Summary(CollectFor(paths, MaxFindings), MaxFindings)
    BY DEF CheckFor
  <2>11. QED
    BY <2>2, <2>5, <2>8, <2>9, <2>10 DEF Explained
<1>2. AnswerInv => OmissionHasCause
  BY <1>1
<1>3. QED
  BY <1>2, SpecAnswers, PTL

(***************************************************************************)
(* Types.                                                                  *)
(***************************************************************************)
(* A type's text: names at odd places, an operator between each two.        *)
Chained(t, M, ops) ==
  /\ t \in Seq(Nat)
  /\ \E k \in Nat : Len(t) = 2 * k + 1
  /\ \A i \in 1..Len(t) : t[i] \in IF i % 2 = 1 THEN M ELSE ops

LEMMA TypeStarts == TextInit => Chained(type, TypeNames, {And, Or})
<1>1. SUFFICES ASSUME NEW n \in TypeNames, type = <<n>> PROVE Chained(type, TypeNames, {And, Or})
  BY DEF TextInit
<1>2. n \in Nat
  BY TypeNamesAssumption DEF Or, TName
<1>3. Len(type) = 2 * 0 + 1 /\ type \in Seq(Nat) /\ type[1] = n
  BY <1>1, <1>2
<1>4. ASSUME NEW i \in 1..Len(type) PROVE type[i] \in IF i % 2 = 1 THEN TypeNames ELSE {And, Or}
  <2>1. i = 1
    BY <1>3
  <2>2. QED
    BY <1>3, <2>1
<1>5. QED
  BY <1>3, <1>4 DEF Chained

LEMMA ChainGrows ==
  ASSUME NEW t, NEW M \in SUBSET Nat, NEW ops \in SUBSET Nat, Chained(t, M, ops), NEW op \in ops, NEW n \in M
  PROVE  Chained(t \o <<op, n>>, M, ops)
<1>1. PICK k \in Nat : Len(t) = 2 * k + 1
  BY DEF Chained
<1>2. t \in Seq(Nat) /\ \A i \in 1..Len(t) : t[i] \in IF i % 2 = 1 THEN M ELSE ops
  BY DEF Chained
<1>3. PICK s : s = <<op, n>>
  OBVIOUS
<1>4. s \in Seq(Nat) /\ Len(s) = 2 /\ s[1] = op /\ s[2] = n
  BY <1>3
<1>5. PICK l \in Nat : l = Len(t) /\ l = 2 * k + 1
  BY <1>1
<1>6. PICK u : u = t \o s
  OBVIOUS
<1>7. u \in Seq(Nat) /\ Len(u) = l + 2 /\ \A i \in 1..(l + 2) : u[i] = IF i <= l THEN t[i] ELSE s[i - l]
  <2>1. u \in Seq(Nat) /\ Len(u) = Len(t) + Len(s)
    BY <1>2, <1>4, <1>6, ConcatProperties
  <2>2. \A i \in 1..(Len(t) + Len(s)) : u[i] = IF i <= Len(t) THEN t[i] ELSE s[i - Len(t)]
    BY <1>2, <1>4, <1>6, ConcatProperties
  <2>3. QED
    BY <1>4, <1>5, <2>1, <2>2
<1>8. ASSUME NEW i \in 1..(l + 2) PROVE u[i] \in IF i % 2 = 1 THEN M ELSE ops
  <2>1. CASE i <= l
    BY <1>2, <1>5, <1>7, <2>1
  <2>2. CASE i = l + 1
    <3>1. i % 2 = 0 /\ u[i] = s[1]
      BY <1>5, <1>7, <2>2
    <3>2. QED
      BY <1>4, <3>1
  <2>3. CASE i = l + 2
    <3>1. i % 2 = 1 /\ u[i] = s[2]
      BY <1>5, <1>7, <2>3
    <3>2. QED
      BY <1>4, <3>1
  <2>4. QED
    BY <2>1, <2>2, <2>3
<1>9. l + 2 = 2 * (k + 1) + 1 /\ k + 1 \in Nat
  BY <1>5
<1>10. QED
  BY <1>3, <1>6, <1>7, <1>8, <1>9 DEF Chained

LEMMA TypeGrows ==
  ASSUME Chained(type, TypeNames, {And, Or}), [TextNext]_textVars
  PROVE  Chained(type, TypeNames, {And, Or})'
<1>1. CASE type' = type
  BY <1>1 DEF Chained
<1>2. CASE \E op \in {And, Or}, n \in TypeNames : type' = type \o <<op, n>>
  <2>1. PICK op \in {And, Or}, n \in TypeNames : type' = type \o <<op, n>>
    BY <1>2
  <2>2. PICK t : t = type
    OBVIOUS
  <2>3. TypeNames \in SUBSET Nat /\ {And, Or} \in SUBSET Nat
    BY TypeNamesAssumption DEF And, Or, TName
  <2>4. Chained(t \o <<op, n>>, TypeNames, {And, Or})
    BY ONLY <2>2, <2>3, Chained(type, TypeNames, {And, Or}), op \in {And, Or}, n \in TypeNames, ChainGrows
  <2>5. QED
    BY <2>1, <2>2, <2>4 DEF Chained
<1>3. QED
  BY <1>1, <1>2 DEF TextNext, textVars

(* There is one way to list a set of numbers in order.                     *)
LEMMA RisingIsSorted ==
  ASSUME NEW S \in SUBSET Nat, IsFiniteSet(S), NEW n \in Nat, NEW r \in [1..n -> S],
         \A x \in S : \E i \in 1..n : r[i] = x,
         \A i, j \in 1..n : i < j => r[i] < r[j]
  PROVE  Sorted(S) = r
<1>1. PICK s : s = Sorted(S)
  OBVIOUS
<1>2. /\ s \in Seq(S) /\ (\A x \in S : \E i \in 1..Len(s) : s[i] = x)
      /\ \A i, j \in 1..Len(s) : i < j => s[i] < s[j]
  BY <1>1, SortedFacts
<1>3. PICK m \in Nat : m = Len(s) /\ DOMAIN s = 1..m
  BY <1>2
<1>4. PICK C : C = {<<0, x>> : x \in S}
  OBVIOUS
<1>5. C \in SUBSET Places
  BY <1>4 DEF Places
<1>6. PICK val : val = [c \in C |-> c[2]]
  OBVIOUS
<1>7. \A x \in S : <<0, x>> \in C /\ val[<<0, x>>] = x
  BY <1>4, <1>6
<1>8. \A x, y \in S : x < y => Comes(<<0, x>>, <<0, y>>)
  BY DEF Comes
<1>9. PICK a : a = [i \in 1..m |-> <<0, s[i]>>]
  OBVIOUS
<1>10. PICK b : b = [i \in 1..n |-> <<0, r[i]>>]
  OBVIOUS
<1>11. r \in Seq(S) /\ Len(r) = n
  OBVIOUS
<1>12. Listing(s, a, C, val)
  <2>1. \A i \in 1..m : s[i] \in S
    BY <1>2, <1>3
  <2>2. a \in [1..m -> C] /\ \A i \in 1..m : a[i] = <<0, s[i]>>
    BY <1>7, <1>9, <2>1
  <2>3. ASSUME NEW c \in C PROVE \E i \in 1..m : a[i] = c
    <3>1. PICK x \in S : c = <<0, x>>
      BY <1>4
    <3>2. PICK i \in 1..m : s[i] = x
      BY <1>2, <1>3
    <3>3. QED
      BY <2>2, <3>1, <3>2
  <2>4. ASSUME NEW i \in 1..m, NEW j \in 1..m, i < j PROVE Comes(a[i], a[j])
    <3>1. s[i] < s[j] /\ s[i] \in S /\ s[j] \in S
      BY <1>2, <1>3, <2>1, <2>4
    <3>2. QED
      BY <1>8, <2>2, <3>1
  <2>5. \A i \in 1..m : s[i] = val[a[i]]
    BY <1>7, <2>1, <2>2
  <2>6. QED
    BY <1>3, <2>2, <2>3, <2>4, <2>5 DEF Listing
<1>13. Listing(r, b, C, val)
  <2>1. \A i \in 1..n : r[i] \in S
    OBVIOUS
  <2>2. b \in [1..n -> C] /\ \A i \in 1..n : b[i] = <<0, r[i]>>
    BY <1>7, <1>10, <2>1
  <2>3. ASSUME NEW c \in C PROVE \E i \in 1..n : b[i] = c
    <3>1. PICK x \in S : c = <<0, x>>
      BY <1>4
    <3>2. PICK i \in 1..n : r[i] = x
      OBVIOUS
    <3>3. QED
      BY <2>2, <3>1, <3>2
  <2>4. \A i, j \in 1..n : i < j => Comes(b[i], b[j])
    BY <1>8, <2>1, <2>2
  <2>5. \A i \in 1..n : r[i] = val[b[i]]
    BY <1>7, <2>1, <2>2
  <2>6. QED
    BY <1>11, <2>2, <2>3, <2>4, <2>5 DEF Listing
<1>14. s = r
  BY ONLY <1>2, <1>5, <1>11, <1>12, <1>13, OneListing
<1>15. QED
  BY <1>1, <1>14

(* Cut at an operator that stands between each two names, a type falls into *)
(* its names.                                                              *)
NameTexts(t) == {<<t[i]>> : i \in {j \in 1..Len(t) : j % 2 = 1}}

LEMMA ChainSplits ==
  ASSUME NEW M \in SUBSET Nat, NEW op \in Nat, op \notin M, NEW t, Chained(t, M, {op})
  PROVE  SplitAt(t, op) = NameTexts(t)
<1>1. PICK k \in Nat : Len(t) = 2 * k + 1
  BY DEF Chained
<1>2. PICK l \in Nat : l = Len(t) /\ l = 2 * k + 1
  BY <1>1
<1>3. t \in Seq(Nat) /\ DOMAIN t = 1..l /\ \A i \in 1..l : t[i] \in IF i % 2 = 1 THEN M ELSE {op}
  BY <1>2 DEF Chained
<1>4. PICK C : C = {0, l + 1} \cup {i \in 1..l : t[i] = op}
  OBVIOUS
<1>5. \A i \in 1..l : t[i] = op <=> i % 2 = 0
  BY <1>3
<1>6. C = {i \in 0..(l + 1) : i % 2 = 0}
  <2>1. 0 % 2 = 0 /\ (l + 1) % 2 = 0
    BY <1>2
  <2>2. QED
    BY <1>4, <1>5, <2>1
<1>7. PICK r : r = [i \in 1..(k + 2) |-> 2 * (i - 1)]
  OBVIOUS
<1>8. Sorted(C) = r
  <2>1. C \in SUBSET Nat /\ IsFiniteSet(C)
    <3>1. C \subseteq 0..(l + 1)
      BY <1>6
    <3>2. IsFiniteSet(0..(l + 1))
      BY FS_Interval
    <3>3. IsFiniteSet(C)
      BY ONLY <3>1, <3>2, FS_Subset
    <3>4. QED
      BY <3>1, <3>3
  <2>2. k + 2 \in Nat
    OBVIOUS
  <2>3. r \in [1..(k + 2) -> C]
    <3>1. ASSUME NEW i \in 1..(k + 2) PROVE 2 * (i - 1) \in C
      BY <1>2, <1>6
    <3>2. QED
      BY <1>7, <3>1
  <2>4. ASSUME NEW x \in C PROVE \E i \in 1..(k + 2) : r[i] = x
    <3>1. x \in 0..(2 * k + 2) /\ x % 2 = 0
      BY <1>2, <1>6
    <3>2. PICK h \in Nat : x = 2 * h
      BY <3>1
    <3>3. h + 1 \in 1..(k + 2) /\ r[h + 1] = x
      BY <1>7, <3>1, <3>2
    <3>4. QED
      BY <3>3
  <2>5. \A i, j \in 1..(k + 2) : i < j => r[i] < r[j]
    BY <1>7
  <2>6. QED
    BY ONLY <2>1, <2>2, <2>3, <2>4, <2>5, RisingIsSorted
<1>9. SplitAt(t, op) = {SubSeq(t, r[i] + 1, r[i + 1] - 1) : i \in 1..(k + 1)}
  <2>1. SplitAt(t, op) = {SubSeq(t, r[i] + 1, r[i + 1] - 1) : i \in 1..(Len(r) - 1)}
    BY <1>2, <1>3, <1>4, <1>8 DEF SplitAt
  <2>2. Len(r) - 1 = k + 1
    BY <1>7
  <2>3. QED
    BY <2>1, <2>2
<1>10. ASSUME NEW i \in 1..(k + 1)
       PROVE  SubSeq(t, r[i] + 1, r[i + 1] - 1) = <<t[2 * i - 1]>> /\ 2 * i - 1 \in 1..l /\ (2 * i - 1) % 2 = 1
  <2>1. r[i] + 1 = 2 * i - 1 /\ r[i + 1] - 1 = 2 * i - 1
    BY <1>7
  <2>2. 2 * i - 1 \in 1..l /\ (2 * i - 1) % 2 = 1
    BY <1>2
  <2>3. ASSUME NEW m \in 1..l PROVE SubSeq(t, m, m) = <<t[m]>>
    <3>1. PICK u : u = SubSeq(t, m, m)
      OBVIOUS
    <3>2. u \in Seq(Nat) /\ Len(u) = 1 /\ u[1] = t[m]
      BY <1>2, <1>3, <3>1
    <3>3. u = <<u[1]>>
      BY <3>2
    <3>4. QED
      BY <3>1, <3>2, <3>3
  <2>4. QED
    BY <2>1, <2>2, <2>3
<1>11. ASSUME NEW j \in 1..l, j % 2 = 1 PROVE \E i \in 1..(k + 1) : j = 2 * i - 1
  <2>1. PICK h \in Nat : j = 2 * h + 1
    BY <1>11
  <2>2. h + 1 \in 1..(k + 1) /\ j = 2 * (h + 1) - 1
    BY <1>2, <2>1
  <2>3. QED
    BY <2>2
<1>12. QED
  <2> DEFINE A == {SubSeq(t, r[i] + 1, r[i + 1] - 1) : i \in 1..(k + 1)}
             B == {<<t[i]>> : i \in {j \in 1..l : j % 2 = 1}}
  <2>1. ASSUME NEW x \in A PROVE x \in B
    <3>1. PICK i \in 1..(k + 1) : x = SubSeq(t, r[i] + 1, r[i + 1] - 1)
      OBVIOUS
    <3>2. QED
      BY <1>10, <3>1
  <2>2. ASSUME NEW x \in B PROVE x \in A
    <3>1. PICK j \in 1..l : j % 2 = 1 /\ x = <<t[j]>>
      OBVIOUS
    <3>2. PICK i \in 1..(k + 1) : j = 2 * i - 1
      BY <1>11, <3>1
    <3>3. x = SubSeq(t, r[i] + 1, r[i + 1] - 1)
      BY <1>10, <3>1, <3>2
    <3>4. QED
      BY <3>3
  <2> HIDE DEF A, B
  <2>3. A = B
    BY <2>1, <2>2
  <2>4. SplitAt(t, op) = A
    BY <1>9 DEF A
  <2>5. QED
    BY <1>2, <2>3, <2>4 DEF B, NameTexts

(* Names in the order of their keys are names in order.                    *)
OneName(n) == <<n>>
LEMMA NamesByKey ==
  ASSUME NEW M \in SUBSET Nat, IsFiniteSet(M)
  PROVE  SortedBy({OneName(n) : n \in M}, KeyLess) = [i \in 1..Cardinality(M) |-> OneName(Sorted(M)[i])]
<1>1. PICK S : S = {OneName(n) : n \in M}
  OBVIOUS
<1>2. \A n \in M : OneName(n) \in S /\ OneName(n)[1] = n
  BY <1>1 DEF OneName
<1>3. \A x \in S : x[1] \in M /\ x = OneName(x[1])
  BY <1>1 DEF OneName
<1>4. \A x, y \in S : KeyLess(x, y) <=> x[1] < y[1]
  <2>1. SUFFICES ASSUME NEW a \in M, NEW b \in M PROVE KeyLess(<<a>>, <<b>>) <=> a < b
    BY <1>3 DEF OneName
  <2>2. PICK x, y : x = <<a>> /\ y = <<b>>
    OBVIOUS
  <2>3. DOMAIN x = {1} /\ DOMAIN y = {1} /\ Len(x) = 1 /\ Len(y) = 1 /\ x[1] = a /\ y[1] = b
    BY <2>2
  <2>4. 1..(1 - 1) = {}
    OBVIOUS
  <2>5. KeyLess(x, y) <=> a < b
    BY <2>3, <2>4 DEF KeyLess
  <2>6. QED
    BY <2>2, <2>5
<1>5. PICK n \in Nat : n = Cardinality(M)
  BY FS_CardinalityType
<1>6. IsFiniteSet(S) /\ Cardinality(S) = n
  <2>1. PICK f : f = [m \in M |-> OneName(m)]
    OBVIOUS
  <2>2. f \in [M -> S] /\ \A m \in M : f[m] = OneName(m)
    BY <1>2, <2>1
  <2>3. \A a, b \in M : f[a] = f[b] => a = b
    BY <1>2, <2>2
  <2>4. \A x \in S : \E m \in M : f[m] = x
    BY <1>3, <2>2
  <2>5. f \in Bijection(M, S)
    BY <2>2, <2>3, <2>4, Zenon DEF Bijection, Injection, Surjection, IsInjective
  <2>6. ExistsBijection(M, S)
    BY <2>5 DEF ExistsBijection
  <2>7. QED
    BY <1>5, <2>6, FS_Bijection
<1>7. PICK R : R = {p \in S \X S : p[1][1] < p[2][1]}
  OBVIOUS
<1>8. \A x, y \in S : <<x, y>> \in R <=> x[1] < y[1]
  BY <1>7
<1>9. StrictOrder(R, S)
  <2>1. \A x \in S : x[1] \in Nat
    BY <1>3
  <2>2. \A x \in S : <<x, x>> \notin R
    BY <1>8, <2>1
  <2>3. ASSUME NEW x \in S, NEW y \in S, NEW z \in S, <<x, y>> \in R, <<y, z>> \in R PROVE <<x, z>> \in R
    BY <1>8, <2>1, <2>3
  <2>4. ASSUME NEW x \in S, NEW y \in S PROVE x = y \/ <<x, y>> \in R \/ <<y, x>> \in R
    <3>1. x[1] = y[1] \/ x[1] < y[1] \/ y[1] < x[1]
      BY <2>1
    <3>2. x[1] = y[1] => x = y
      BY <1>3
    <3>3. QED
      BY <1>8, <3>1, <3>2
  <2>5. QED
    BY <2>2, <2>3, <2>4 DEF StrictOrder
<1>10. PICK e : e = InOrder(S, R)
  OBVIOUS
<1>11. e \in Bijection(1..n, S) /\ \A i, j \in 1..n : i < j => <<e[i], e[j]>> \in R
  BY <1>6, <1>9, <1>10, Enumeration DEF EnumeratesBy
<1>12. SortedBy(S, KeyLess) = e
  <2> DEFINE below(x) == {y \in S : KeyLess(y, x)}
             under(x) == {y \in S : <<y, x>> \in R}
             To(i) == CHOOSE x \in S : Cardinality(below(x)) = i - 1
             At(i) == CHOOSE x \in S : Cardinality(under(x)) = i - 1
  <2>1. \A x \in S : below(x) = under(x)
    BY <1>4, <1>8
  <2>2. SortedBy(S, KeyLess) = [i \in 1..Cardinality(S) |-> To(i)]
    BY DEF SortedBy
  <2>3. e = [i \in 1..Cardinality(S) |-> At(i)]
    BY <1>10 DEF InOrder
  <2>4. \A i : To(i) = At(i)
    <3> HIDE DEF below, under
    <3>1. QED
      BY <2>1, Zenon
  <2> HIDE DEF To, At
  <2>5. QED
    BY <2>2, <2>3, <2>4, Zenon
<1>13. PICK r : r = [i \in 1..n |-> e[i][1]]
  OBVIOUS
<1>14. Sorted(M) = r
  <2>1. \A i \in 1..n : e[i] \in S /\ r[i] = e[i][1]
    BY <1>11, <1>13 DEF Bijection, Injection
  <2>2. r \in [1..n -> M]
    BY <1>3, <1>13, <2>1
  <2>3. ASSUME NEW x \in M PROVE \E i \in 1..n : r[i] = x
    <3>1. PICK i \in 1..n : e[i] = OneName(x)
      BY <1>2, <1>11 DEF Bijection, Surjection
    <3>2. QED
      BY <1>2, <2>1, <3>1
  <2>4. \A i, j \in 1..n : i < j => r[i] < r[j]
    BY <1>8, <1>11, <2>1
  <2>5. QED
    BY ONLY M \in SUBSET Nat, IsFiniteSet(M), n \in Nat, <2>2, <2>3, <2>4, RisingIsSorted
<1>15. e = [i \in 1..n |-> OneName(r[i])]
  <2>1. e \in [1..n -> S]
    BY <1>11 DEF Bijection, Injection
  <2>2. \A i \in 1..n : e[i] = OneName(r[i])
    BY <1>3, <1>13, <2>1
  <2>3. QED
    BY <2>1, <2>2
<1>16. QED
  BY <1>1, <1>5, <1>12, <1>14, <1>15

(* The form of a set of names.                                             *)
NamesOf(M) == [i \in 1..Cardinality(M) |-> OneName(Sorted(M)[i])]
FormOf(M, op) == JoinBy(NamesOf(M), op)

LEMMA FormIs ==
  ASSUME NEW M \in SUBSET Nat, IsFiniteSet(M), M # {}, NEW op \in Nat, op \notin M
  PROVE  /\ FormOf(M, op) \in Seq(Nat)
         /\ \A x : In(FormOf(M, op), x) => x \in M \cup {op}
         /\ \A x \in M : In(FormOf(M, op), x)
         /\ \A m : M = {m} => FormOf(M, op) = <<m>>
<1>1. PICK s : s = Sorted(M)
  OBVIOUS
<1>2. PICK n \in Nat : n = Cardinality(M)
  BY FS_CardinalityType
<1>3. /\ s \in Seq(M) /\ Len(s) = n
      /\ \A x \in M : \E i \in 1..n : s[i] = x
  BY <1>1, <1>2, SortedFacts
<1>4. \A i \in 1..n : s[i] \in M
  BY <1>3
<1>5. n # 0
  BY <1>2, FS_EmptySet
<1>6. PICK parts : parts = NamesOf(M)
  OBVIOUS
<1>7. DOMAIN parts = 1..n /\ \A i \in 1..n : parts[i] = <<s[i]>>
  BY <1>1, <1>2, <1>6 DEF NamesOf, OneName
<1>8. PICK seqs : seqs = [k \in DOMAIN parts |-> <<op>> \o parts[k]]
  OBVIOUS
<1>9. ASSUME NEW i \in 1..n PROVE seqs[i] = <<op, s[i]>> /\ seqs[i] \in Seq(Nat) /\ Len(seqs[i]) = 2
  <2>1. PICK a \in M : a = s[i]
    BY <1>4
  <2>2. PICK x, y, z : x = <<op>> /\ y = <<a>> /\ z = x \o y
    OBVIOUS
  <2>3. x \in Seq(Nat) /\ y \in Seq(Nat) /\ Len(x) = 1 /\ Len(y) = 1 /\ x[1] = op /\ y[1] = a /\ a \in Nat
    BY <2>2
  <2>4. z \in Seq(Nat) /\ Len(z) = 2 /\ z[1] = op /\ z[2] = a
    BY <2>2, <2>3, ConcatProperties
  <2>5. z = <<z[1], z[2]>>
    BY <2>4
  <2>6. seqs[i] = z
    BY <1>7, <1>8, <2>1, <2>2
  <2>7. QED
    BY <2>1, <2>4, <2>5, <2>6
<1>10. seqs \in Seq(Seq(Nat)) /\ Len(seqs) = n
  <2>1. seqs = [i \in 1..n |-> seqs[i]]
    BY <1>7, <1>8
  <2>2. seqs \in [1..n -> Seq(Nat)]
    BY <1>9, <2>1
  <2>3. QED
    BY <2>2
<1>11. PICK F : F = FlattenSeq(seqs)
  OBVIOUS
<1>12. F \in Seq(Nat) /\ \A x : In(F, x) <=> \E i \in 1..n : In(seqs[i], x)
  <2>1. F \in Seq(Nat)
    BY <1>10, <1>11, FlattenLists
  <2>2. \A x : In(F, x) <=> \E i \in 1..Len(seqs) : In(seqs[i], x)
    BY <1>10, <1>11, FlattenEntries
  <2>3. QED
    BY <1>10, <2>1, <2>2
<1>13. FormOf(M, op) = Tail(F)
  BY <1>6, <1>8, <1>11 DEF FormOf, JoinBy
<1>14. \A i \in 1..n : \A x : In(seqs[i], x) <=> x = op \/ x = s[i]
  <2>1. TAKE i \in 1..n
  <2>2. PICK u : u = seqs[i] /\ u = <<op, s[i]>> /\ Len(u) = 2
    BY <1>9
  <2>3. u[1] = op /\ u[2] = s[i] /\ 1..2 = {1, 2}
    BY <2>2
  <2>4. QED
    BY <2>2, <2>3 DEF In
<1>15. \A x : In(F, x) => x \in M \cup {op}
  BY <1>4, <1>12, <1>14
<1>16. \A x \in M : In(F, x)
  BY <1>3, <1>12, <1>14
<1>17. PICK l \in Nat : l = Len(F) /\ l # 0
  <2>1. \E x : In(F, x)
    BY <1>16
  <2>2. 1..0 = {}
    OBVIOUS
  <2>3. QED
    BY <1>12, <2>1, <2>2 DEF In
<1>18. PICK flat : Flattens(flat, seqs, n, Nat) /\ F = flat[n]
  BY <1>5, <1>10, <1>11, FlattenIs
<1>19. PICK G : G = Tail(F) /\ G \in Seq(Nat) /\ Len(G) = l - 1 /\ \A i \in 1..(l - 1) : G[i] = F[i + 1]
  <2>1. PICK G : G = Tail(F)
    OBVIOUS
  <2>2. F # << >>
    BY <1>17
  <2>3. G \in Seq(Nat) /\ Len(G) = Len(F) - 1 /\ \A i \in 1..Len(G) : G[i] = F[i + 1]
    BY <1>12, <2>1, <2>2, HeadTailProperties
  <2>4. QED
    BY <1>17, <2>1, <2>3
<1>20. F[1] = op
  <2> DEFINE T == {k \in Nat : k + 1 \in 1..n => flat[k + 1] \in Seq(Nat) /\ Len(flat[k + 1]) # 0 /\ flat[k + 1][1] = op}
  <2>1. flat \in [1..n -> Seq(Nat)] /\ flat[1] = seqs[1] /\ \A i \in 1..(n - 1) : flat[i + 1] = flat[i] \o seqs[i + 1]
    BY <1>18 DEF Flattens
  <2>2. T \subseteq Nat /\ 0 \in T
    <3>1. PICK u : u = seqs[1]
      OBVIOUS
    <3>2. 1 \in 1..n /\ u = <<op, s[1]>> /\ u \in Seq(Nat) /\ Len(u) = 2
      BY <1>5, <1>9, <3>1
    <3>3. u[1] = op
      BY <3>2
    <3>4. QED
      BY <2>1, <3>1, <3>2, <3>3
  <2>3. ASSUME NEW k \in T PROVE k + 1 \in T
    <3>1. SUFFICES ASSUME (k + 1) + 1 \in 1..n
                   PROVE  flat[(k + 1) + 1] \in Seq(Nat) /\ Len(flat[(k + 1) + 1]) # 0 /\ flat[(k + 1) + 1][1] = op
      OBVIOUS
    <3>2. k \in Nat /\ k + 1 \in 1..n /\ k + 1 \in 1..(n - 1)
      BY <3>1
    <3>3. PICK u \in Seq(Nat), v \in Seq(Nat) : u = flat[k + 1] /\ v = seqs[(k + 1) + 1]
      BY <1>9, <2>1, <3>1, <3>2
    <3>4. Len(u) # 0 /\ u[1] = op
      BY <3>2, <3>3
    <3>5. flat[(k + 1) + 1] = u \o v
      BY <2>1, <3>2, <3>3
    <3>6. u \o v \in Seq(Nat) /\ Len(u \o v) # 0 /\ (u \o v)[1] = op
      BY <3>4
    <3>7. QED
      BY <3>5, <3>6
  <2> HIDE DEF T
  <2>4. T = Nat
    BY <2>2, <2>3, AllNumbers
  <2>5. n - 1 \in T /\ (n - 1) + 1 = n /\ n \in 1..n
    BY <1>5, <2>4
  <2>6. flat[n][1] = op
    BY <2>5 DEF T
  <2>7. QED
    BY <1>18, <2>6
<1>21. \A x \in M : In(G, x)
  <2>1. TAKE x \in M
  <2>2. PICK i \in 1..l : F[i] = x
    BY <1>16, <1>17 DEF In
  <2>3. i # 1
    BY <1>20, <2>2
  <2>4. i - 1 \in 1..(l - 1) /\ (i - 1) + 1 = i
    BY <2>2, <2>3
  <2>5. G[i - 1] = x
    BY <1>19, <2>2, <2>4
  <2>6. QED
    BY <1>19, <2>4, <2>5 DEF In
<1>22. \A x : In(G, x) => x \in M \cup {op}
  <2>1. SUFFICES ASSUME NEW i \in 1..(l - 1) PROVE G[i] \in M \cup {op}
    BY <1>19 DEF In
  <2>2. i + 1 \in 1..l /\ G[i] = F[i + 1]
    BY <1>17, <1>19
  <2>3. QED
    BY <1>15, <1>17, <2>2 DEF In
<1>23. ASSUME NEW m, M = {m} PROVE G = <<m>>
  <2>1. n = 1 /\ m \in Nat
    BY <1>2, <1>23, FS_Singleton
  <2>2. F = seqs[1] /\ seqs[1] = <<op, s[1]>> /\ s[1] = m
    BY <1>4, <1>9, <1>18, <1>23, <2>1 DEF Flattens
  <2>3. F = <<op, m>>
    BY <2>2
  <2>4. l = 2 /\ F[2] = m
    BY <1>17, <2>3
  <2>5. G \in Seq(Nat) /\ Len(G) = 1 /\ G[1] = m
    BY <1>19, <2>4
  <2>6. G = <<G[1]>>
    BY ONLY <2>5
  <2>7. QED
    BY <2>5, <2>6
<1>24. QED
  BY <1>13, <1>19, <1>21, <1>22, <1>23

LEMMA SortedChain ==
  ASSUME NEW M \in SUBSET Nat, NEW op \in Nat, op \notin M, NEW t, Chained(t, M, {op}),
         \A m \in M : \E i \in 1..Len(t) : t[i] = m
  PROVE  IsFiniteSet(M) /\ M # {} /\ SortParts(t, op) = FormOf(M, op)
<1>1. PICK k \in Nat : Len(t) = 2 * k + 1
  BY DEF Chained
<1>2. PICK l \in Nat : l = Len(t) /\ l = 2 * k + 1
  BY <1>1
<1>3. t \in Seq(Nat) /\ \A i \in 1..l : t[i] \in IF i % 2 = 1 THEN M ELSE {op}
  BY <1>2 DEF Chained
<1>4. IsFiniteSet(M)
  <2>1. IsFiniteSet(ToSet(t))
    BY <1>3, EntriesAreFinite
  <2>2. M \subseteq ToSet(t)
    <3>1. DOMAIN t = 1..l
        BY <1>2, <1>3, LenProperties
    <3>2. ASSUME NEW m \in M PROVE \E i \in DOMAIN t : t[i] = m
      BY <1>2, <3>1
    <3>3. QED
      BY <3>2 DEF ToSet
  <2>3. QED
    BY ONLY <2>1, <2>2, FS_Subset
<1>5. t[1] \in M /\ 1 \in 1..l
  BY <1>2, <1>3
<1>6. M # {}
  BY <1>5
<1>7. CASE Contains(t, op)
  <2>1. SplitAt(t, op) = NameTexts(t)
    BY ChainSplits
  <2>2. PICK A : A = SplitAt(t, op)
    OBVIOUS
  <2>3. ASSUME NEW x \in A PROVE x \in {OneName(m) : m \in M}
    BY <1>2, <1>3, <2>1, <2>2 DEF OneName, NameTexts
  <2>4. ASSUME NEW m \in M PROVE OneName(m) \in A
    <3>1. PICK i \in 1..l : t[i] = m
      BY <1>2
    <3>2. i % 2 = 1
      BY <1>3, <3>1
    <3>3. QED
      BY <1>2, <2>1, <2>2, <3>1, <3>2 DEF OneName, NameTexts
  <2>5. A = {OneName(m) : m \in M}
    BY <2>3, <2>4
  <2>6. SortedBy(A, KeyLess) = NamesOf(M)
    BY <1>4, <2>5, NamesByKey DEF NamesOf
  <2>7. SortParts(t, op) = JoinBy(SortedBy(A, KeyLess), op)
    BY <1>7, <2>2 DEF SortParts
  <2>8. QED
    BY <1>4, <1>6, <2>6, <2>7 DEF FormOf
<1>8. CASE ~Contains(t, op)
  <2>1. \A i \in 1..l : t[i] # op
    BY <1>2, <1>8 DEF Contains
  <2>2. l = 1
    <3>1. CASE k = 0
      BY <1>2, <3>1
    <3>2. CASE k # 0
      <4>1. 2 \in 1..l /\ 2 % 2 # 1
        BY <1>2, <3>2
      <4>2. QED
        BY <1>3, <2>1, <4>1
    <3>3. QED
      BY <3>1, <3>2
  <2>3. PICK m \in M : m = t[1]
    BY <1>5
  <2>4. M = {m}
    <3>1. ASSUME NEW x \in M PROVE x = m
      <4>1. PICK i \in 1..l : t[i] = x
        BY <1>2
      <4>2. i = 1
        BY <2>2, <4>1
      <4>3. QED
        BY <2>3, <4>1, <4>2
    <3>2. QED
      BY <3>1
  <2>5. t = <<m>>
    <3>1. t \in Seq(Nat) /\ Len(t) = 1 /\ t[1] = m
      BY <1>2, <1>3, <2>2, <2>3
    <3>2. t = <<t[1]>>
      BY ONLY <3>1
    <3>3. QED
      BY <3>1, <3>2
  <2>6. FormOf(M, op) = <<m>>
    <3>1. \A x : M = {x} => FormOf(M, op) = <<x>>
      BY ONLY M \in SUBSET Nat, op \in Nat, op \notin M, <1>4, <1>6, FormIs
    <3>2. QED
      BY <2>4, <3>1
  <2>7. SortParts(t, op) = t
    BY <1>8 DEF SortParts
  <2>8. QED
    BY <1>4, <1>6, <2>5, <2>6, <2>7
<1>9. QED
  BY <1>7, <1>8

LEMMA NoCut == ASSUME NEW t, NEW op, ~In(t, op) PROVE SortParts(t, op) = t
BY DEF SortParts, Contains, In

(* Every type of one operator, however long.                               *)
LEMMA TypeNormalizes ==
  ASSUME NEW t, Chained(t, TypeNames, {And, Or}), NEW op \in {And, Or}, Pure(t, op)
  PROVE  /\ NormalizeType(t) = FormOf(Members(t), op)
         /\ Members(t) \in SUBSET Nat /\ IsFiniteSet(Members(t)) /\ Members(t) # {} /\ op \in Nat /\ op \notin Members(t)
<1>1. TypeNames \subseteq 2..98 /\ Builtins \cap UserTypes = {} /\ And = 0 /\ Or = 99 /\ TName = 1
      /\ UserTypes \subseteq TypeNames
  BY TypeNamesAssumption DEF And, Or, TName, TypeNames
<1>2. PICK l \in Nat : l = Len(t) /\ \E k \in Nat : l = 2 * k + 1
  BY DEF Chained
<1>3. t \in Seq(Nat) /\ DOMAIN t = 1..l /\ \A i \in 1..l : t[i] \in IF i % 2 = 1 THEN TypeNames ELSE {op}
  <2>1. t \in Seq(Nat) /\ \A i \in 1..l : t[i] \in IF i % 2 = 1 THEN TypeNames ELSE {And, Or}
    BY <1>2 DEF Chained
  <2>2. DOMAIN t = 1..l
    BY <1>2, <2>1
  <2>3. \A i \in 1..l : t[i] \in {op} \cup TypeNames
    BY <2>2 DEF Pure
  <2>4. ASSUME NEW i \in 1..l, i % 2 # 1 PROVE t[i] = op
    <3>1. t[i] \in {0, 99} /\ t[i] \in {op} \cup TypeNames
      BY <1>1, <2>1, <2>3, <2>4
    <3>2. QED
      BY <1>1, <3>1
  <2>5. QED
    BY <2>1, <2>2, <2>4
<1> DEFINE To(x) == IF x \in UserTypes THEN TName ELSE x
<1>4. \A x \in TypeNames : To(x) \in Nat /\ To(x) # 0 /\ To(x) # 99
  BY <1>1
<1>5. To(op) = op /\ op \in Nat /\ op \in {0, 99}
  BY <1>1
<1>6. PICK M : M = Members(t)
  OBVIOUS
<1>7. M = {To(t[i]) : i \in 1..l} \ {0, 99}
  BY <1>1, <1>3, <1>6 DEF Members
<1>8. PICK u : u = [i \in 1..l |-> To(t[i])]
  OBVIOUS
<1>9. NormalizeType(t) = SortParts(SortParts(u, Or), And)
  BY <1>3, <1>8 DEF NormalizeType
<1> HIDE DEF To
<1>10. M \in SUBSET Nat /\ op \notin M /\ 0 \notin M /\ 99 \notin M
  <2>1. ASSUME NEW i \in 1..l PROVE To(t[i]) \in Nat
    BY <1>3, <1>4, <1>5
  <2>2. QED
    BY <1>5, <1>7, <2>1
<1>11. ASSUME NEW i \in 1..l PROVE u[i] \in Nat /\ u[i] \in IF i % 2 = 1 THEN M ELSE {op}
  <2>1. CASE i % 2 = 1
    <3>1. t[i] \in TypeNames /\ u[i] = To(t[i])
      BY <1>3, <1>8, <2>1
    <3>2. u[i] \in Nat /\ u[i] # 0 /\ u[i] # 99
      BY <1>4, <3>1
    <3>3. u[i] \in M
      BY <1>7, <3>1, <3>2
    <3>4. QED
      BY <2>1, <3>2, <3>3
  <2>2. CASE i % 2 # 1
    <3>1. t[i] = op /\ u[i] = To(t[i])
      BY <1>3, <1>8, <2>2
    <3>2. QED
      BY <1>5, <2>2, <3>1
  <2>3. QED
    BY <2>1, <2>2
<1>12. u \in Seq(Nat) /\ Len(u) = l
  <2>1. u \in [1..l -> Nat]
    BY <1>8, <1>11
  <2>2. QED
    BY <2>1
<1>13. Chained(u, M, {op})
  BY <1>2, <1>11, <1>12 DEF Chained
<1>14. \A m \in M : \E i \in 1..Len(u) : u[i] = m
  BY <1>7, <1>8, <1>12
<1>15. IsFiniteSet(M) /\ M # {} /\ SortParts(u, op) = FormOf(M, op)
  BY <1>5, <1>10, <1>13, <1>14, SortedChain
<1>16. \A x : In(FormOf(M, op), x) => x \in M \cup {op}
  BY <1>5, <1>10, <1>15, FormIs
<1>17. \A x : In(u, x) => x \in M \cup {op}
  BY <1>11, <1>12 DEF In
<1>18. SortParts(SortParts(u, Or), And) = FormOf(M, op)
  <2>1. CASE op = Or
    <3>1. ~In(FormOf(M, op), And)
      BY <1>1, <1>10, <1>16, <2>1
    <3>2. QED
      BY <1>15, <2>1, <3>1, NoCut
  <2>2. CASE op = And
    <3>1. ~In(u, Or)
      BY <1>1, <1>10, <1>17, <2>2
    <3>2. QED
      BY <1>15, <2>2, <3>1, NoCut
  <2>3. QED
    BY <2>1, <2>2
<1>19. QED
  BY <1>5, <1>6, <1>9, <1>10, <1>15, <1>18

LEMMA FormIsNormal ==
  ASSUME NEW t, NEW op, Members(t) \in SUBSET Nat, IsFiniteSet(Members(t))
  PROVE  NormalForm(t, op) = FormOf(Members(t), op)
<1>1. PICK M : M = Members(t)
  OBVIOUS
<1>2. PICK s : s = Sorted(M)
  OBVIOUS
<1>3. s \in Seq(M) /\ Len(s) = Cardinality(M)
  BY <1>1, <1>2, SortedFacts
<1>4. DOMAIN s = 1..Cardinality(M)
  BY <1>3
<1>5. Each(s, LAMBDA n : <<n>>) = [i \in DOMAIN s |-> <<s[i]>>]
  BY DEF Each
<1>6. NamesOf(M) = [i \in 1..Cardinality(M) |-> <<s[i]>>]
  BY <1>2 DEF NamesOf, OneName
<1>7. Each(Sorted(Members(t)), LAMBDA n : <<n>>) = NamesOf(M)
  BY <1>1, <1>2, <1>4, <1>5, <1>6
<1>8. QED
  BY <1>1, <1>7 DEF NormalForm, FormOf

(* normalize_type does what it is for: two unions, or two intersections,    *)
(* however long, written in whatever order and with whatever repetitions,   *)
(* get one normal form exactly if they have the same members, names that    *)
(* are not built in being taken for one.                                   *)
THEOREM SameFormSameMembers ==
  ASSUME NEW op \in {And, Or},
         NEW t, Chained(t, TypeNames, {And, Or}), Pure(t, op),
         NEW u, Chained(u, TypeNames, {And, Or}), Pure(u, op)
  PROVE  NormalizeType(t) = NormalizeType(u) <=> Members(t) = Members(u)
<1>1. PICK M, N : M = Members(t) /\ N = Members(u)
  OBVIOUS
<1>2. NormalizeType(t) = FormOf(M, op) /\ M \in SUBSET Nat /\ IsFiniteSet(M) /\ M # {} /\ op \in Nat /\ op \notin M
  BY <1>1, TypeNormalizes
<1>3. NormalizeType(u) = FormOf(N, op) /\ N \in SUBSET Nat /\ IsFiniteSet(N) /\ N # {} /\ op \notin N
  BY <1>1, TypeNormalizes
<1>4. /\ \A x : In(FormOf(M, op), x) => x \in M \cup {op}
      /\ \A x \in M : In(FormOf(M, op), x)
  BY <1>2, FormIs
<1>5. /\ \A x : In(FormOf(N, op), x) => x \in N \cup {op}
      /\ \A x \in N : In(FormOf(N, op), x)
  BY <1>2, <1>3, FormIs
<1>6. ASSUME FormOf(M, op) = FormOf(N, op) PROVE M = N
  <2>1. ASSUME NEW x \in M PROVE x \in N
    BY <1>2, <1>4, <1>5, <1>6
  <2>2. ASSUME NEW x \in N PROVE x \in M
    BY <1>3, <1>4, <1>5, <1>6
  <2>3. QED
    BY <2>1, <2>2
<1>7. QED
  BY <1>1, <1>2, <1>3, <1>6

(* The normal form is that of the members, for types of any length.         *)
THEOREM TypesNormalizeCorrect == TextSpec => []TypesNormalize
<1>1. Chained(type, TypeNames, {And, Or}) => TypesNormalize
  <2>1. SUFFICES ASSUME Chained(type, TypeNames, {And, Or}), NEW op \in {And, Or}, Pure(type, op)
                 PROVE  NormalizeType(type) = NormalForm(type, op)
    BY DEF TypesNormalize
  <2>2. NormalizeType(type) = FormOf(Members(type), op) /\ Members(type) \in SUBSET Nat /\ IsFiniteSet(Members(type))
    BY <2>1, TypeNormalizes
  <2>3. QED
    BY <2>2, FormIsNormal
<1>2. QED
  BY <1>1, TypeStarts, TypeGrows, PTL DEF TextSpec

=============================================================================
