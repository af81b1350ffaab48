----------------------------- MODULE MCShardMap -----------------------------
(* Instances of ShardMap for TLC. *)
EXTENDS ShardMap, TLC

Symmetry == Permutations(Replica) \cup Permutations(Key) \cup Permutations(Peer)
=============================================================================
