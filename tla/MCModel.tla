------------------------------- MODULE MCModel -------------------------------
(***************************************************************************)
(* Instances of CheckpointStore, Pipeline, Wire and Evolution for TLC: a   *)
(* model is kept in the store, cut into shards, its gradients sent to      *)
(* peers, and its architecture changed by them. The four share no          *)
(* variable, so that TLC, which would multiply their states, may run one   *)
(* while the others are where they began.                                  *)
(***************************************************************************)
EXTENDS CheckpointStore, Pipeline, Wire, MCEvolution

CONSTANTS m1, m2, r1, r2, r3, x, y

(* Two roots of one model and one of another. *)
MCModelOf == r1 :> m1 @@ r2 :> m1 @@ r3 :> m2

MCTensors == {[shape |-> <<4>>, cells |-> <<3, 1, 2051, 1>>],
              [shape |-> <<2, 2>>, cells |-> <<0, 2, 1, 5>>],
              [shape |-> <<2>>, cells |-> <<1, 4>>]}

Interchangeable == Permutations(Caller) \cup Symmetry

(* Over short lists, roots agree exactly where the leaves do, whatever the *)
(* lengths: promoting an odd node makes no two lists look alike.           *)
ASSUME RootsTellListsApart ==
  LET lists == UNION {[1..n -> {Leaf(1, 0), Leaf(2, 0)}] : n \in 0..5}
  IN Cardinality({MerkleRoot(l) : l \in lists}) = Cardinality(lists)

WireAtRest == message = NoMessage /\ compressor = "none" /\ gradients = <<>>

MCInit == Init /\ PipelineInit /\ WireInit /\ EvolutionInit

MCNext ==
  \/ /\ PipelineInit /\ WireAtRest /\ EvolutionInit
     /\ Next /\ UNCHANGED <<pipelineVars, wireVars, evolutionVars>>
  \/ /\ Init /\ WireAtRest /\ EvolutionInit
     /\ PipelineNext /\ UNCHANGED <<vars, wireVars, evolutionVars>>
  \/ /\ Init /\ PipelineInit /\ EvolutionInit
     /\ WireNext /\ UNCHANGED <<vars, pipelineVars, evolutionVars>>
  \/ /\ Init /\ PipelineInit /\ WireAtRest
     /\ EvolutionNext /\ UNCHANGED <<vars, pipelineVars, wireVars>>

MCSpec == MCInit /\ [][MCNext]_<<vars, pipelineVars, wireVars, evolutionVars>>
=============================================================================
