----------------------------- MODULE MCAllReduce -----------------------------
(* Instances of AllReduce for TLC. *)
EXTENDS AllReduce

(* Rings of two and three peers on up to three levels divide by at most 12. *)
Scale == 36
MCGradient == [i \in Indices(5) |-> [e \in Elements |-> Scale * (7 ^ i + e)]]

(* A rotation, which is not its own inverse for three and for five peers. *)
MCPermutationsOf == [n \in 1..5 |-> {[i \in Indices(n) |-> (i + 2) % n]}]
=============================================================================
