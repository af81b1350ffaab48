\* Clients of a third node publish one round; n1 and n2 follow it and
\* announce its checkpoint to each other. The system may fall silent: no more messages.
SPECIFICATION Spec
CONSTANTS
  Node = {n1, n2}
  ApiNode = {n3}
  Round = {round}
  Peer = {p1}
  NoPeer = NoPeer
  MaxPublished = 5
SYMMETRY Symmetry
CHECK_DEADLOCK FALSE
INVARIANTS
  RewardNeedsAnnouncement
  RewardsBounded
PROPERTIES
  LateJoinersStayOut
