---------------------------- MODULE Ordering ----------------------------
(***************************************************************************)
(* Sets and tuples in the order the code's sorted maps and sorts give them. *)
(***************************************************************************)
EXTENDS Naturals, Sequences, FiniteSets, SequencesExt, FiniteSetsExt

(* In the strict order Less: each element stands behind those below it.     *)
SortedBy(S, Less(_, _)) ==
  [i \in 1..Cardinality(S) |-> CHOOSE x \in S : Cardinality({y \in S : Less(y, x)}) = i - 1]
Sorted(S) == SortedBy(S, <)

Each(seq, Op(_)) == [i \in DOMAIN seq |-> Op(seq[i])]
(* The entries at some places, those that pass a test, and all entries in a *)
(* stable order.                                                           *)
Picked(seq, places) == Each(Sorted(places), LAMBDA i : seq[i])
Kept(seq, Test(_)) == Picked(seq, {i \in DOMAIN seq : Test(seq[i])})
Arranged(seq, Less(_, _)) ==
  Each(SortedBy(DOMAIN seq, LAMBDA i, j : Less(seq[i], seq[j]) \/ (~Less(seq[j], seq[i]) /\ i < j)), LAMBDA i : seq[i])
Take(seq, n) == SubSeq(seq, 1, Min({n, Len(seq)}))

(* Tuples of numbers, compared as strings are: at the first difference, and *)
(* a prefix before what it begins.                                         *)
KeyLess(a, b) ==
  \/ \E i \in DOMAIN a \cap DOMAIN b : a[i] < b[i] /\ \A j \in 1..(i - 1) : a[j] = b[j]
  \/ Len(a) < Len(b) /\ \A i \in DOMAIN a : a[i] = b[i]
=========================================================================
