\* Two processes save three checkpoints of two models over and over, one of
\* them collects all but the newest; one failure anywhere.  Models of up to
\* four layers, two calls at a time.  Up to three parameters of three shapes,
\* four compressors, one damaged field.  Three peers, two proposals against
\* any genomes, every order of at most three votes that a peer stores.
SPECIFICATION MCSpec
CONSTANTS
  m1 = m1
  m2 = m2
  r1 = r1
  r2 = r2
  r3 = r3
  Process = {p1, p2}
  Collector = {p1}
  Root = {r1, r2, r3}
  Model = {m1, m2}
  ModelOf <- MCModelOf
  NoRoot = NoRoot
  KeepLatest = 1
  MaxTime = 5
  MaxCrashes = 1
  x = x
  y = y
  Caller = {x, y}
  MaxLayers = 4
  Names = {1, 2, 3}
  Tensors <- MCTensors
  Compressors = {"none", "topk", "fp16", "chain"}
  Keep = 2
  Garbage = Garbage
  Peer = {q1, q2, q3}
  Proposer = {q1}
  Proposal = {a, b}
  MinVoters = 2
  ApprovalPct = 60
  FirstGenes <- MCGenes
  Mutations <- MCMutations
  MaxVotes = 3
  MaxSent = 3
CHECK_DEADLOCK FALSE
SYMMETRY Interchangeable
INVARIANTS
  WrittenAtomically
  LatestWasWritten
  NewestKept
  ForwardIsWholeModel
  DecodedAsEncoded
  AdoptedByTwo
  VotesAreInformed
  SameVotesSameOutcome
  LeadingGenesKeepWeights
PROPERTIES
  CheckpointsImmutable
