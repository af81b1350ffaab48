\* Two replicas, two shards, two peers: concurrent assigns, removals and
\* merges of clones that may be old.
SPECIFICATION Spec
CONSTANTS
  Replica = {r1, r2}
  Key = {k1, k2}
  Peer = {p1, p2}
  NoEntry = NoEntry
  MaxClock = 2
  MaxClones = 2
SYMMETRY Symmetry
INVARIANTS
  TiesAreConcurrent
  ConvergedUpToTies
PROPERTIES
  EntriesOnlyAdvance
