\* Two coroutines and direct calls over four ticks; a day is three of them.
SPECIFICATION Spec
CONSTANTS
  Call = {c1, c2}
  Tokens = {1, 2}
  DefaultTokens = 2
  MaxTokens = 2
  Minute = 1
  Hour = 2
  Day = 3
  RequestsPerMinute = 1
  TokensPerHour = 2
  RoundsPerDay = 2
  ProposalsPerDay = 1
  Weight <- MCWeight
  Unit = 10
  Threshold = 5
  TrainingCredits = 10
  VoteCredits = 1
  MaxTime = 4
  MaxCalls = 4
SYMMETRY Symmetry
CHECK_DEADLOCK FALSE
INVARIANTS
  FreeTierBounded
  TrainingNeverRefused
