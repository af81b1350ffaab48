-------------------------------- MODULE Lists --------------------------------
(***************************************************************************)
(* Python's [x for x in s if x in S], sorted(s) and sum(s), in forms that  *)
(* proofs can use: by the places taken, by counting, and by a function.    *)
(***************************************************************************)
EXTENDS Integers, Sequences, SequencesExt, FiniteSets

(* A set of places in ascending order: the k-th has k of them up to it. *)
Rank(places, x) == Cardinality({y \in places : y <= x})
InOrder(places) ==
  [k \in 1..Cardinality(places) |-> CHOOSE x \in places : Rank(places, x) = k]

(* The elements of s that are in S, in their order. *)
Selected(s, S) ==
  LET at == InOrder({i \in DOMAIN s : s[i] \in S}) IN [k \in DOMAIN at |-> s[at[k]]]

(* At place k is the value that fewer than k values are below and at least  *)
(* k are no greater than.                                                   *)
Below(s, x) == {i \in DOMAIN s : s[i] < x}
UpTo(s, x) == {i \in DOMAIN s : s[i] <= x}
Sorted(s) ==
  [k \in DOMAIN s |->
     CHOOSE x \in ToSet(s) : Cardinality(Below(s, x)) < k /\ k <= Cardinality(UpTo(s, x))]

Total(s) ==
  LET sum[i \in 0..Len(s)] == IF i = 0 THEN 0 ELSE sum[i - 1] + s[i] IN sum[Len(s)]
=============================================================================
