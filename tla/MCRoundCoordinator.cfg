\* Three of four peers needed; the round is full at four.
SPECIFICATION Spec
CONSTANTS
  Peer = {p1, p2, p3, p4}
  Grad = {g1, g2}
  NoGrad = NoGrad
  Root = {r1}
  NoRoot = NoRoot
  NoResult = NoResult
  MinPeers = 3
  MaxPeers = 4
  QuorumPct = 67
SYMMETRY PeerSymmetry
INVARIANTS
  TopologyMatchesMembers
  ResultIsCurrent
PROPERTIES
  OneGradientPerPeer
  SweptRoundIsFrozen
