------------------------------- MODULE Genome -------------------------------
(***************************************************************************)
(* Genomes, their mutations and the migration of a model's weights         *)
(* (architecture/genome.py, mutations.py, migration.py).                   *)
(*                                                                         *)
(* Positions count from 0, as in the code. A dimension is a small number   *)
(* that only its order matters of; parameters that change no shape (heads, *)
(* dropout rate) are left out.                                             *)
(***************************************************************************)
EXTENDS Integers, FiniteSets, FiniteSetsExt, Sequences, SequencesExt

LayerGene(id, type, in, out) ==
  [id |-> id, type |-> type, in |-> in, out |-> out,
   activation |-> "relu", skip |-> -1]

-----------------------------------------------------------------------------
(* The mutation operators. One whose position is out of range changes      *)
(* nothing, AddLayer clamps it.                                            *)

InRange(position, genes) == position \in 0..(Len(genes) - 1)

AddLayer(genes, position, gene) ==
  InsertAt(genes, Min({position, Len(genes)}) + 1, gene)

RemoveLayer(genes, position) ==
  IF InRange(position, genes) THEN RemoveAt(genes, position + 1) ELSE genes

(* The next gene with an input, of whatever type, is made to fit. *)
WidenLayer(genes, position, dim) ==
  LET widened == [genes EXCEPT ![position + 1].out = dim]
      next == {i \in (position + 2)..Len(genes) : genes[i].in > 0}
  IN  CASE ~InRange(position, genes) -> genes
        [] InRange(position, genes) /\ next = {} -> widened
        [] InRange(position, genes) /\ next # {} -> [widened EXCEPT ![Min(next)].in = dim]

InsertSkip(genes, source, target) ==
  IF InRange(target, genes) THEN [genes EXCEPT ![target + 1].skip = source] ELSE genes

SwapActivation(genes, position, activation) ==
  IF InRange(position, genes)
  THEN [genes EXCEPT ![position + 1].activation = activation]
  ELSE genes

(* An added gene gets an identity of its own. *)
Apply(mutation, genes, id) ==
  CASE mutation.type = "add_layer" ->
         AddLayer(genes, mutation.position, [mutation.gene EXCEPT !.id = id])
    [] mutation.type = "remove_layer" -> RemoveLayer(genes, mutation.position)
    [] mutation.type = "widen_layer" ->
         WidenLayer(genes, mutation.position, mutation.dim)
    [] mutation.type = "insert_skip" ->
         InsertSkip(genes, mutation.source, mutation.position)
    [] mutation.type = "swap_activation" ->
         SwapActivation(genes, mutation.position, mutation.activation)

HiddenDims(genes) ==
  ({genes[i].in : i \in DOMAIN genes} \cup {genes[i].out : i \in DOMAIN genes}) \ {0}

Positions(genes, types) == {i \in 0..(Len(genes) - 1) : genes[i + 1].type \in types}

RandomAdds(genes) ==
  {[type |-> "add_layer", position |-> p, gene |-> LayerGene("new", t, d, d)] :
     p \in 0..Len(genes), t \in {"linear", "norm"}, d \in HiddenDims(genes)}

(* Nothing to widen: a layer is added instead. *)
RandomWidens(genes) ==
  LET candidates == Positions(genes, {"linear", "feedforward"})
  IN  IF candidates = {} THEN RandomAdds(genes)
      ELSE {[type |-> "widen_layer", position |-> p, dim |-> genes[p + 1].out + 1] :
              p \in candidates}

RandomSwaps(genes) ==
  LET candidates == Positions(genes, {"activation"})
  IN  {[type |-> "swap_activation", position |-> p, activation |-> "gelu"] :
         p \in IF candidates = {} THEN 0..Max({0, Len(genes) - 1}) ELSE candidates}

(* A source just before the last layer has no target: the code raises.     *)
RandomSkips(genes) ==
  {[type |-> "insert_skip", source |-> s, position |-> t] :
     s \in 0..(Len(genes) - 2), t \in 0..(Len(genes) - 1)}

RandomMutations(genes) ==
  RandomAdds(genes) \cup RandomWidens(genes) \cup RandomSwaps(genes)
  \cup (IF Len(genes) > 2
        THEN {[type |-> "remove_layer", position |-> p] : p \in 0..(Len(genes) - 1)}
        ELSE {})
  \cup (IF Len(genes) >= 3
        THEN {m \in RandomSkips(genes) : m.position \in (m.source + 2)..(m.source + 6)}
        ELSE {})

-----------------------------------------------------------------------------
(* Compiling: the shapes of the modules with parameters, in the order in   *)
(* which model.modules() yields them. An attention layer owns the linear   *)
(* projection of its output.                                               *)

ModulesOf(gene) ==
  CASE gene.type = "linear"      -> << <<"linear", gene.in, gene.out>> >>
    [] gene.type = "attention"   -> << <<"attention", gene.in>>, <<"linear", gene.in, gene.in>> >>
    [] gene.type = "norm"        -> << <<"norm", gene.in>> >>
    [] gene.type = "feedforward" -> << <<"linear", gene.in, gene.out>>,
                                       <<"linear", gene.out, gene.in>> >>
    [] OTHER                     -> << >>

Compile(genes) ==
  LET upTo[k \in 0..Len(genes)] ==
        IF k = 0 THEN << >> ELSE upTo[k - 1] \o ModulesOf(genes[k])
  IN  upTo[Len(genes)]

IsWidened(old, new) ==
  /\ old[1] = "linear" /\ new[1] = "linear"
  /\ new[2] >= old[2] /\ new[3] >= old[3]

-----------------------------------------------------------------------------
(* Migration. The weights of a module are known by the gene they were      *)
(* initialised for and the generation in which they were, whether compile  *)
(* did that or _init_identity.                                             *)

Parametric == {"linear", "attention", "norm", "feedforward"}

(* The module new_param_idx points at for gene k: it moves on by one for   *)
(* each gene with parameters, however many modules the gene compiles to.   *)
ParamIdx(genes, k) == 1 + Cardinality({j \in 1..(k - 1) : genes[j].type \in Parametric})

(* The last gene with that id, as in the dict of the old genes. *)
OldIdx(genes, id) == Max({i \in DOMAIN genes : genes[i].id = id} \cup {0})

(* Fault: genes are matched by position, not by id. *)
MatchedByPosition(oldGenes, newGenes, k) == IF k <= Len(oldGenes) THEN k ELSE 0

(* The position of gene k of the new genome in the old one, or 0. *)
Matched(oldGenes, newGenes, k) == OldIdx(oldGenes, newGenes[k].id)

(* What migrating gene k writes: <<module, gene, weights>>. The old gene's *)
(* position in the genome is taken for the position of its module.         *)
Writes(held, was, is, oldGenes, newGenes, k, generation) ==
  LET m == ParamIdx(newGenes, k)
      i == Matched(oldGenes, newGenes, k)
      identity == IF is[m][1] = "attention" THEN {}
                  ELSE {<<m, k, <<newGenes[k].id, generation>> >>}
  IN  CASE m > Len(is) \/ i > Len(was) -> {}
        [] m <= Len(is) /\ i = 0 -> identity
        [] m <= Len(is) /\ i \in 1..Len(was) ->
             IF was[i] = is[m] /\ is[m][1] = "attention"
             THEN {<<m, k, held[i]>>, <<m + 1, k, held[i + 1]>>}
             ELSE IF was[i] = is[m] \/ IsWidened(was[i], is[m])
             THEN {<<m, k, held[i]>>}
             ELSE identity

(* The weights a genome is compiled with, module by module. *)
Initialised(genes, generation) ==
  LET upTo[k \in 0..Len(genes)] ==
        IF k = 0 THEN << >>
        ELSE upTo[k - 1]
               \o [j \in DOMAIN ModulesOf(genes[k]) |-> <<genes[k].id, generation>>]
  IN  upTo[Len(genes)]

(* The weights of the new model: what was written last to each module; one *)
(* nothing is written to keeps the random ones it was compiled with.       *)
Migrate(held, oldGenes, newGenes, generation) ==
  LET was == Compile(oldGenes)
      is == Compile(newGenes)
      written == UNION {Writes(held, was, is, oldGenes, newGenes, k, generation) :
                          k \in DOMAIN newGenes}
      into(m) == {w \in written : w[1] = m}
      last(m) == CHOOSE w \in into(m) : \A v \in into(m) : v[2] <= w[2]
  IN  [m \in DOMAIN is |->
         IF into(m) = {} THEN Initialised(newGenes, generation)[m] ELSE last(m)[3]]

(* The weights of a trained model carried through a list of genomes. *)
MigrateAll(genomes) ==
  LET upTo[n \in DOMAIN genomes] ==
        IF n = 1 THEN Initialised(genomes[1], 1)
        ELSE Migrate(upTo[n - 1], genomes[n - 1], genomes[n], n)
  IN  upTo[Len(genomes)]

-----------------------------------------------------------------------------
(* What a migration should do. *)

Has(genes, id) == OldIdx(genes, id) > 0

(* The gene has modules and every gene before it compiles to exactly one:   *)
(* only there a gene's position is that of its first module. The first      *)
(* attention, feed-forward or activation gene ends the leading ones.        *)
Leading(genes, id) ==
  /\ Has(genes, id)
  /\ \A j \in 1..OldIdx(genes, id) :
       /\ Len(ModulesOf(genes[j])) >= 1
       /\ j < OldIdx(genes, id) => Len(ModulesOf(genes[j])) = 1

(* The gene's first module has not changed its shape, or has been widened. *)
Fits(old, new, id) ==
  LET was == ModulesOf(old[OldIdx(old, id)])[1]
      is == ModulesOf(new[OldIdx(new, id)])[1]
  IN  was = is \/ IsWidened(was, is)

(* Since when the gene is there and fits without a break. *)
Since(genomes, id) ==
  Min({i \in DOMAIN genomes :
         \A j \in i..Len(genomes) :
           /\ Leading(genomes[j], id)
           /\ j > i => Fits(genomes[j - 1], genomes[j], id)})

(* The first module of a gene that is leading wherever it occurs has in    *)
(* the end the weights it was initialised with when the gene last came up  *)
(* or last ceased to fit, and not another gene's.                          *)
LeadingKeepWeights(genomes) ==
  LET held == MigrateAll(genomes) IN
    \A k \in DOMAIN Last(genomes) :
      LET id == Last(genomes)[k].id IN
        (\A j \in DOMAIN genomes : Has(genomes[j], id) => Leading(genomes[j], id))
        => held[k] = <<id, Since(genomes, id)>>

(* Every gene, leading or not, whose modules are those it had in the       *)
(* genome before has the weights in them that it had before.               *)
MatchingKeepWeights(genomes) ==
  LET old == genomes[Len(genomes) - 1]
      new == Last(genomes)
      before(genes, k) == Len(Compile(SubSeq(genes, 1, k - 1)))
  IN  Len(genomes) > 1 =>
        \A i \in DOMAIN old, k \in DOMAIN new :
          old[i].id = new[k].id /\ ModulesOf(old[i]) = ModulesOf(new[k]) =>
            \A j \in DOMAIN ModulesOf(new[k]) :
              MigrateAll(genomes)[before(new, k) + j]
                = MigrateAll(Front(genomes))[before(old, i) + j]
=============================================================================
