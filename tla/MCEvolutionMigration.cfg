\* Does the standard transformer keep its weights when only its activation is
\* exchanged? No deadlock is looked for: a peer may have nothing left to do.
SPECIFICATION EvolutionSpec
CONSTANTS
  Peer = {p1, p2, p3}
  Proposer = {p1}
  Proposal = {a}
  MinVoters = 2
  ApprovalPct = 60
  FirstGenes <- MCTransformer
  Mutations <- MCSwaps
  MaxVotes = 3
  MaxSent = 3
CHECK_DEADLOCK FALSE
INVARIANTS
  MatchingLayersKeepWeights
