---------------------------- MODULE MCNodeRounds ----------------------------
(* Instances of NodeRounds for TLC: symmetry among the nodes without   *)
(* clients.                                                                *)
EXTENDS NodeRounds, TLC

Symmetry == Permutations(Node \ ApiNode) \cup Permutations(Peer)
=============================================================================
