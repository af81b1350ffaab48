\* Three processes one after the other train, three rounds, a checkpoint after
\* every second; or two serve two accounts, with one free request an hour and
\* hours of two ticks.
SPECIFICATION NetworkSpec
CONSTANTS
  Peer = {p1, p2}
  Own = p1
  Remote = {r1}
  WelcomeBonus = 1
  RoundPay = {1}
  DataPay = {1}
  VotePay = 1
  CostStandard = 1
  CostPriority = 2
  CostLong = 1
  FreePerHour = 1
  Hour = 2
  Minute = 1
  StreakTime = 2
  MaxTime = 3
  MaxMinted = 4
  MaxRequests = 3
  LossLevels <- MCLossLevels
  RoundLevels <- MCRoundLevels
  TokenLevels <- MCTokenLevels
  PeerLevels <- MCPeerLevels
  GenerationLevels <- MCGenerationLevels
  Qualities <- MCQualities
  Outcomes <- MCOutcomes
  Texts = {2, 5}
  SeqLength = 2
  BatchSize = 2
  StepsPerRound = 2
  CheckpointInterval = 2
  MaxRounds = 3
  MaxStarts = 3
  MaxMutations = 1
CHECK_DEADLOCK FALSE
CONSTRAINT TrainsOrServes
INVARIANTS
  ProgressSurvivesCrash
  MilestonesAsEarned
  Conservation
  FreeTierPerProcess
  GateMatchesLedger
