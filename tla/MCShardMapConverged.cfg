\* Do two replicas that have merged each other's maps agree?
SPECIFICATION Spec
CONSTANTS
  Replica = {r1, r2}
  Key = {k1, k2}
  Peer = {p1, p2}
  NoEntry = NoEntry
  MaxClock = 2
  MaxClones = 2
SYMMETRY Symmetry
INVARIANTS
  Converged
