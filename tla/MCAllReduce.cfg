\* Up to five peers in clusters of two or three, on up to three levels; one
\* message may be lost.
SPECIFICATION ReduceSpec
CONSTANTS
  MaxPeers = 5
  ClusterSizes = {2, 3}
  SmallNetwork = 2
  Threshold = 3
  PermutationsOf <- MCPermutationsOf
  Numel = 5
  Gradient <- MCGradient
  NoTree = NoTree
  NoResult = NoResult
  MaxLost = 1
CHECK_DEADLOCK FALSE
INVARIANTS
  SimulationAgrees
  NothingLeftOver
PROPERTIES
  TreesMirror
  Averages
