----------------------------- MODULE MCEvolution -----------------------------
(* Instances of Evolution for TLC. *)
EXTENDS Evolution, TLC

Symmetry == Permutations(Peer \ Proposer) \cup Permutations(Proposal)

(* Three leading genes, the last with two modules; behind them an          *)
(* activation and a gene that is not leading.                              *)
MCGenes ==
  <<LayerGene(1, "linear", 1, 2), LayerGene(2, "norm", 2, 2),
    LayerGene(3, "attention", 2, 2), LayerGene(4, "activation", 2, 2),
    LayerGene(5, "linear", 2, 1)>>

MCMutations == {m \in RandomMutations(MCGenes) :
                  m.type = "add_layer" => m.gene.in = 2}

(* ArchitectureGenome.simple_transformer with one layer (genome.py:149),   *)
(* and the mutations that only exchange its activation.                    *)
MCTransformer ==
  <<LayerGene(1, "attention", 1, 1), LayerGene(2, "norm", 1, 1),
    LayerGene(3, "linear", 1, 4), LayerGene(4, "activation", 4, 4),
    LayerGene(5, "linear", 4, 1), LayerGene(6, "norm", 1, 1)>>

MCSwaps == RandomSwaps(MCTransformer)
=============================================================================
