----------------------------- MODULE Evolution -----------------------------
(***************************************************************************)
(* Decentralised architecture evolution (architecture/evolution.py): peers *)
(* propose mutations of their current genome, vote on each other's         *)
(* proposals, and each adopts a genome by tallying the votes it has seen.  *)
(*                                                                         *)
(* A genome is the sequence of the proposals it results from; Genes says   *)
(* which genes those give for a choice of the mutations. Messages may      *)
(* arrive in any order, repeatedly or never; evaluation compiles randomly  *)
(* initialised models, so a vote on the current genome can go any way.     *)
(***************************************************************************)
EXTENDS Genome

CONSTANTS
  Peer,
  Proposer,       \* the peers that propose mutations
  Proposal,       \* proposal ids; each is used once
  MinVoters,      \* min_voters
  ApprovalPct,    \* approval_quorum, in percent
  FirstGenes,     \* the genes all peers start from
  Mutations,      \* the mutations a peer may propose
  MaxVotes,       \* bound of the model on the votes a peer stores
  MaxSent         \* bound of the model on the different votes broadcast

ASSUME EvolutionAssumption ==
  /\ Proposer \subseteq Peer
  /\ MinVoters \in Nat
  /\ ApprovalPct \in 0..100
  /\ MaxVotes \in Nat /\ MaxSent \in Nat

MutationType ==
  {"add_layer", "remove_layer", "widen_layer", "insert_skip", "swap_activation"}

(* Genes have identities of their own; a proposal's id names what it adds. *)
ASSUME GenesAssumption ==
  /\ IsFiniteSet(Proposal)
  /\ FirstGenes \in Seq(ToSet(FirstGenes))
  /\ \A i \in 1..Len(FirstGenes) :
       /\ "id" \in DOMAIN FirstGenes[i] /\ FirstGenes[i].id \notin Proposal
       /\ \A j \in 1..Len(FirstGenes) : FirstGenes[i].id = FirstGenes[j].id => i = j
  /\ \A m \in Mutations :
       /\ m.type \in MutationType
       /\ m.type = "add_layer" => m.position \in Nat /\ "id" \in DOMAIN m.gene

VARIABLES
  genome,      \* genome[p]: p's current_genome
  history,     \* history[p]: the genomes p has adopted, _history
  proposed,    \* the proposals broadcast
  known,       \* known[p]: the ids of p's _proposals
  votes,       \* votes[p][id]: p's _votes, in the order it got them
  sent         \* the votes broadcast

evolutionVars == <<genome, history, proposed, known, votes, sent>>

VoteDecision == {"approve", "reject", "abstain"}
Vote == [proposal : Proposal, voter : Peer, decision : VoteDecision]

EvolutionInit ==
  /\ genome = [p \in Peer |-> << >>]
  /\ history = [p \in Peer |-> << << >> >>]
  /\ proposed = {}
  /\ known = [p \in Peer |-> {}]
  /\ votes = [p \in Peer |-> [id \in Proposal |-> << >>]]
  /\ sent = {}

-----------------------------------------------------------------------------
(* The proposer does not vote: gossip does not return it its own proposal. *)
ProposeMutation(p, id) ==
  /\ p \in Proposer
  /\ \A q \in proposed : q.id # id
  /\ proposed' = proposed \cup
       {[id |-> id, proposer |-> p, base |-> genome[p], new |-> Append(genome[p], id)]}
  /\ known' = [known EXCEPT ![p] = @ \cup {id}]
  /\ votes' = [votes EXCEPT ![p][id] = << >>]
  /\ UNCHANGED <<genome, history, sent>>

Record(p, v) ==
  /\ FoldFunction(LAMBDA list, n : Len(list) + n, 0, votes[p]) < MaxVotes
  /\ votes' = [votes EXCEPT ![p][v.proposal] = Append(@, v)]

(* Fault: a proposal against another genome is evaluated as well. *)
DecisionsAny(p, proposal) == VoteDecision

(* What receive_proposal can decide: against another genome, to abstain. *)
Decisions(p, proposal) ==
  IF proposal.base = genome[p] THEN VoteDecision ELSE {"abstain"}

ReceiveProposal(p, proposal) ==
  /\ p # proposal.proposer
  /\ known' = [known EXCEPT ![p] = @ \cup {proposal.id}]
  /\ \E d \in Decisions(p, proposal) :
       LET v == [proposal |-> proposal.id, voter |-> p, decision |-> d] IN
         /\ Record(p, v)
         /\ sent' = sent \cup {v}
         /\ Cardinality(sent') <= MaxSent
  /\ UNCHANGED <<genome, history, proposed>>

ReceiveVote(p, v) ==
  /\ Record(p, v)
  /\ UNCHANGED <<genome, history, proposed, known, sent>>

(* Fault: every stored vote counts. *)
CountedAll(list) == [i \in 1..Len(list) |-> list[i].decision]

(* The last vote of each voter, in the order of arrival. *)
Counted(list) ==
  [voter \in {list[i].voter : i \in 1..Len(list)} |->
     LET own == {i \in 1..Len(list) : list[i].voter = voter}
     IN  list[CHOOSE i \in own : \A j \in own : j <= i].decision]

Accepted(list) ==
  LET decision == Counted(list)
      total == Cardinality(DOMAIN decision)
      approvals == Cardinality({x \in DOMAIN decision : decision[x] = "approve"})
  IN  /\ total >= MinVoters
      /\ total > 0
      /\ 100 * approvals >= ApprovalPct * total

(* Neither the deadline nor the genome the proposal was made against is    *)
(* looked at, and a proposal can be tallied again.                         *)
TallyVotes(p, proposal) ==
  /\ proposal.id \in known[p]
  /\ Accepted(votes[p][proposal.id])
  /\ Len(history[p]) <= Cardinality(Proposal)   \* bound of the model
  /\ genome' = [genome EXCEPT ![p] = proposal.new]
  /\ history' = [history EXCEPT ![p] = Append(@, proposal.new)]
  /\ UNCHANGED <<proposed, known, votes, sent>>

EvolutionNext ==
  \E p \in Peer :
    \/ \E id \in Proposal : ProposeMutation(p, id)
    \/ \E proposal \in proposed : ReceiveProposal(p, proposal)
    \/ \E v \in sent : ReceiveVote(p, v)
    \/ \E proposal \in proposed : TallyVotes(p, proposal)

EvolutionSpec == EvolutionInit /\ [][EvolutionNext]_evolutionVars

-----------------------------------------------------------------------------
Approvers(id) == {v.voter : v \in {w \in sent : w.proposal = id /\ w.decision = "approve"}}

(* No peer adopts a mutation that fewer than two peers have approved of:   *)
(* with min_voters = 2 and 60 percent neither repeated votes nor votes     *)
(* seen late let one voter, or the proposer alone, decide.                 *)
AdoptedByTwo ==
  \A p \in Peer : \A i \in 1..Len(genome[p]) :
    Cardinality(Approvers(genome[p][i])) >= 2

(* A peer that approves or rejects a proposal has itself used the genome   *)
(* the proposal mutates, at the time of the vote or before a later change. *)
VotesAreInformed ==
  \A v \in sent : v.decision # "abstain" =>
    \E q \in proposed : /\ q.id = v.proposal
                        /\ Contains(history[v.voter], q.base)

OneVoteEach(list) ==
  \A i, j \in 1..Len(list) : list[i].voter = list[j].voter =>
                             list[i].decision = list[j].decision

(* As long as no voter has changed its mind, peers that have seen the same *)
(* votes decide alike, in whatever order and how often the votes came.     *)
SameVotesSameOutcome ==
  \A p, q \in Peer, id \in Proposal :
    /\ ToSet(votes[p][id]) = ToSet(votes[q][id])
    /\ OneVoteEach(votes[p][id])
    => (Accepted(votes[p][id]) <=> Accepted(votes[q][id]))

-----------------------------------------------------------------------------
(* The genes of a genome, given the mutation each proposal makes. *)
Genes(proposals, what) ==
  LET upTo[n \in 0..Len(proposals)] ==
        IF n = 0 THEN FirstGenes
        ELSE Apply(what[proposals[n]], upTo[n - 1], proposals[n])
  IN  upTo[Len(proposals)]

GenesOfAll(genomes, what) ==
  LET upTo[n \in 0..Len(genomes)] ==
        IF n = 0 THEN << >> ELSE Append(upTo[n - 1], Genes(genomes[n], what))
  IN  upTo[Len(genomes)]

Genomes == {g \in SeqOf(Proposal, Cardinality(Proposal)) : IsInjective(g)}

(* The lists of genomes along which the leading genes keep their weights,  *)
(* whatever the mutations are.                                             *)
KeepingHistories ==
  {h \in {<< << >> >> \o g : g \in SeqOf(Genomes, Cardinality(Proposal))} :
     \A what \in [Proposal -> Mutations] :
       LeadingKeepWeights(GenesOfAll(h, what))}

(* A peer that migrates its trained model from each genome it adopts to    *)
(* the next never gives a leading gene the weights of another and never    *)
(* drops those it could keep, also when what it adopts was made against    *)
(* another genome than its own and so undoes a mutation it had adopted.    *)
(* Nothing is said of the genes behind the leading ones: see below.        *)
LeadingGenesKeepWeights == \A p \in Peer : history[p] \in KeepingHistories

(* migration.py:6, "Weight copying for matching layers", and :28, "Changed *)
(* activations: keep surrounding weights as-is": whatever a peer adopts,   *)
(* every layer that does not change keeps its weights.                     *)
MatchingLayersKeepWeights ==
  \A p \in Peer : \A what \in [Proposal -> Mutations] :
    MatchingKeepWeights(GenesOfAll(history[p], what))
=============================================================================
