------------------------------ MODULE MCAgentSdk ------------------------------
(* Instances of AgentSdk for TLC. *)
EXTENDS AgentSdk, TLC

Symmetry == Permutations(Call)

(* Powers of the cube root of one half, in tenths. *)
MCWeight == [a \in Time |-> CASE a = 0 -> 10 [] a = 1 -> 8 [] a = 2 -> 6
                              [] a = 3 -> 5 [] a = 4 -> 4]
=============================================================================
