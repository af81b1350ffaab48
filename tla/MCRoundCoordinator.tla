------------------------- MODULE MCRoundCoordinator -------------------------
(* Instances of RoundCoordinator for TLC. *)
EXTENDS RoundCoordinator, TLC

PeerSymmetry == Permutations(Peer)
=============================================================================
