--------------------------- MODULE MCNodeChannels ---------------------------
(* Instances of NodeChannels for TLC. *)
EXTENDS NodeChannels, TLC
=============================================================================
