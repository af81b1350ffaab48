------------------------------ MODULE MCNetwork ------------------------------
(* Instances of Network for TLC. *)
EXTENDS Network, TLC

MCLossLevels == <<1, 2>>
MCRoundLevels == <<2, 3>>
MCTokenLevels == <<8>>
MCPeerLevels == <<2>>
MCGenerationLevels == <<2>>
MCQualities == <<"real_word", "word_pair">>
MCOutcomes == {[loss |-> 3, quality |-> {"real_word"}],
               [loss |-> 0, quality |-> {"real_word", "word_pair"}]}

(* What the network learns and what its peers spend hardly depend on each   *)
(* other, so that TLC, which would multiply their states, goes through two  *)
(* kinds of states: processes train and their owner earns, or they only     *)
(* serve requests, over time.                                               *)
Trains ==
  /\ now = 1 /\ totals.spent = 0
  /\ gate.rejected + gate.free + gate.paid = 0
  /\ \A p \in Peer \ {Own} : ~accounts[p].open

Serves ==
  /\ tokens = 0 /\ peers = {} /\ started <= 2
  /\ totals.minted <= 2
  /\ genesis = RecordBirth /\ \A n \in DOMAIN files : ~files[n].exists

TrainsOrServes == Trains \/ Serves
=============================================================================
