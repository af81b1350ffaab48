\* Four peers, one of them with outlying gradients, over four rounds.
SPECIFICATION OrchestratorSpec
CONSTANTS
  a = a
  b = b
  c = c
  d = d
  Peer = {a, b, c, d}
  Capacities <- MCCapacities
  Local = a
  Honest = {a, b, c}
  HonestGrad = {3, 4}
  OtherGrad = {9}
  Grad = {3, 4, 9}
  NoGrad = NoGrad
  Root = {}
  NoRoot = NoRoot
  NoResult = NoResult
  MinPeers = 3
  MaxPeers = 0
  QuorumPct = 67
  Methods = {"TRIMMED_MEAN", "MEDIAN"}
  MaxByzantine = 0
  RoundedDown = {}
  CheckpointEvery = 1
  MaxRounds = 4
CHECK_DEADLOCK FALSE
INVARIANTS
  UpdateWithinHonest
  RecordedOncePerRound
PROPERTIES
  BansAreFinal
  MinorityPenalised
