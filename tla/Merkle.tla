------------------------------- MODULE Merkle -------------------------------
(***************************************************************************)
(* Merkle roots as the engine and the node compute them over weights and   *)
(* gradients: model/shard.py, model/checkpoint.py and training/wire.py     *)
(* hold one copy each of the same loop, consensus/merkle.rs another.  The  *)
(* hash is ideal: what is hashed is kept, so that hashes are equal exactly *)
(* when what went into them is.                                            *)
(***************************************************************************)
EXTENDS Integers, Sequences

ZeroRoot == <<"zero">>                       \* 32 zero bytes

Leaf(name, data) == <<"leaf", name, data>>   \* sha256 of the name and the data

Pair(left, right) == <<"node", left, right>>

(* One turn of the loop: neighbours are combined and an odd one is         *)
(* promoted.                                                               *)
NextLayer(layer) ==
  [i \in 1..((Len(layer) + 1) \div 2) |->
     IF 2 * i <= Len(layer) THEN Pair(layer[2 * i - 1], layer[2 * i]) ELSE layer[2 * i - 1]]

MerkleRoot(leaves) ==
  LET Layers[n \in 0..Len(leaves)] == IF n = 0 THEN leaves ELSE NextLayer(Layers[n - 1])
  IN IF leaves = <<>> THEN ZeroRoot ELSE Layers[Len(leaves)][1]

(* Fault: the names are hashed without what they name. *)
NamedRootNames(names, data) == MerkleRoot([i \in 1..Len(names) |-> Leaf(names[i], 0)])

(* The root over a shard or a state_dict: a leaf for each name, in sorted  *)
(* order; names are numbers here.                                          *)
NamedRoot(names, data) == MerkleRoot([i \in 1..Len(names) |-> Leaf(names[i], data[names[i]])])

(* checkpoint.verify: what is in the file hashes to the name of the        *)
(* directory.                                                              *)
Verifies(root, names, data) == NamedRoot(names, data) = root
=============================================================================
