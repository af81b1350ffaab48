-------------------------- MODULE RoundCoordinator --------------------------
(***************************************************************************)
(* The lifecycle of one decentralised training round, as kept by class     *)
(* RoundCoordinator of engine/openclaw_engine/training/round_coordinator.py*)
(*                                                                         *)
(* Every public method is an action and the caller is unconstrained: the   *)
(* class is driven by code that reacts to joins, disconnects and timers,   *)
(* and no method but register_peer looks at how far the round has got.     *)
(* Gradients are opaque values, a Merkle root is a value of Root, the      *)
(* monotonic clock is the single bit "the gradient deadline has passed".   *)
(***************************************************************************)
EXTENDS Integers, FiniteSets

CONSTANTS
  Peer,        \* peer identifiers
  Grad,        \* gradient payloads a peer may submit
  NoGrad,      \* "this peer has no entry in _gradients"
  Root,        \* Merkle roots a peer may attach to its submission
  NoRoot,      \* the empty merkle_root string
  NoResult,    \* _result is None
  MinPeers,    \* config.min_peers
  MaxPeers,    \* config.max_peers, 0 = unlimited
  QuorumPct    \* config.min_quorum_ratio, in percent

ASSUME RoundAssumption ==
  /\ IsFiniteSet(Peer)
  /\ MinPeers \in Nat \ {0}
  /\ MaxPeers \in Nat
  /\ QuorumPct \in 0..100
  /\ NoGrad \notin Grad
  /\ NoRoot \notin Root
  /\ \A S \in SUBSET Peer : NoResult \notin [S -> Grad]

Phase == {"PROPOSED", "JOINING", "ASSIGNED", "COMPUTING", "AGGREGATING",
          "VERIFYING", "COMPLETED", "FAILED"}

VARIABLES
  phase,       \* self.phase
  peers,       \* keys of self._peers and of self._capacities
  submitted,   \* peers whose status has gradient_submitted
  dropped,     \* peers whose status has dropped
  root,        \* status.merkle_root of each peer
  grads,       \* self._gradients
  closed,      \* self._registration_closed
  topology,    \* the peers placed in clusters by self._cluster_manager
  deadline,    \* time.monotonic() has reached the gradient deadline
  result       \* self._result: the gradients that were aggregated, by peer

vars == <<phase, peers, submitted, dropped, root, grads, closed, topology,
          deadline, result>>

TypeOK ==
  /\ phase \in Phase
  /\ peers \in SUBSET Peer
  /\ submitted \in SUBSET peers
  /\ dropped \in SUBSET peers
  /\ root \in [Peer -> Root \cup {NoRoot}]
  /\ grads \in [Peer -> Grad \cup {NoGrad}]
  /\ closed \in BOOLEAN
  /\ topology \in SUBSET Peer
  /\ deadline \in BOOLEAN
  /\ \/ result = NoResult
     \/ \E S \in SUBSET Peer : result \in [S -> Grad]

Init ==
  /\ phase = "PROPOSED"
  /\ peers = {}
  /\ submitted = {}
  /\ dropped = {}
  /\ root = [p \in Peer |-> NoRoot]
  /\ grads = [p \in Peer |-> NoGrad]
  /\ closed = FALSE
  /\ topology = {}
  /\ deadline = FALSE
  /\ result = NoResult

-----------------------------------------------------------------------------
active == peers \ dropped

Quorum(n) == (n * QuorumPct) \div 100

(* Fault: either of the two thresholds is enough. *)
CanFinalizeEither ==
  /\ active # {}
  /\ \/ Cardinality(submitted) >= Quorum(Cardinality(active))
     \/ Cardinality(submitted) >= MinPeers

CanFinalize ==
  /\ active # {}
  /\ Cardinality(submitted) >= Quorum(Cardinality(active))
  /\ Cardinality(submitted) >= MinPeers

-----------------------------------------------------------------------------
(* Fault: registration does not look at _registration_closed. *)
RegisterPeerLate(p) ==
  /\ MaxPeers > 0 => Cardinality(peers) < MaxPeers
  /\ peers' = peers \cup {p}
  /\ submitted' = submitted \ {p}
  /\ dropped' = dropped \ {p}
  /\ root' = [root EXCEPT ![p] = NoRoot]
  /\ phase' = "JOINING"
  /\ UNCHANGED <<grads, closed, topology, deadline, result>>

(* A peer asks to join. Joining again replaces the peer's PeerStatus but    *)
(* leaves the gradient it may have stored.                                  *)
RegisterPeer(p) ==
  /\ ~closed
  /\ MaxPeers > 0 => Cardinality(peers) < MaxPeers
  /\ peers' = peers \cup {p}
  /\ submitted' = submitted \ {p}
  /\ dropped' = dropped \ {p}
  /\ root' = [root EXCEPT ![p] = NoRoot]
  /\ phase' = "JOINING"
  /\ UNCHANGED <<grads, closed, topology, deadline, result>>

(* The join window ends: with too few peers the round fails and stays open  *)
(* for registration, otherwise membership freezes and clusters are built.   *)
CloseRegistration ==
  /\ ~closed
  /\ IF Cardinality(peers) < MinPeers
     THEN /\ phase' = "FAILED"
          /\ UNCHANGED <<closed, topology>>
     ELSE /\ phase' = "ASSIGNED"
          /\ closed' = TRUE
          /\ topology' = peers
  /\ UNCHANGED <<peers, submitted, dropped, root, grads, deadline, result>>

MarkDropout(p) ==
  /\ p \in peers
  /\ dropped' = dropped \cup {p}
  /\ UNCHANGED <<phase, peers, submitted, root, grads, closed, topology,
                 deadline, result>>

Submit(p, g, r) ==
  /\ submitted' = submitted \cup {p}
  /\ root' = [root EXCEPT ![p] = r]
  /\ grads' = [grads EXCEPT ![p] = g]
  /\ phase' = "COMPUTING"
  /\ UNCHANGED <<peers, dropped, closed, topology, deadline, result>>

(* Faults: a second submission is accepted; a dropped peer may still submit. *)
SubmitGradientTwice(p, g, r) == p \in peers \ dropped /\ Submit(p, g, r)
SubmitGradientDropped(p, g, r) == p \in peers \ submitted /\ Submit(p, g, r)

(* Accepted in any phase, also before registration closes. *)
SubmitGradient(p, g, r) ==
  /\ p \in peers
  /\ p \notin dropped
  /\ p \notin submitted
  /\ Submit(p, g, r)

(* The clock reaches start + gradient_deadline_secs. *)
DeadlinePasses ==
  /\ ~deadline
  /\ deadline' = TRUE
  /\ UNCHANGED <<phase, peers, submitted, dropped, root, grads, closed,
                 topology, result>>

(* Stragglers are dropped, in whatever phase the round is. *)
CheckDeadline ==
  /\ deadline
  /\ dropped' = dropped \cup (peers \ submitted)
  /\ UNCHANGED <<phase, peers, submitted, root, grads, closed, topology,
                 deadline, result>>

(* Peers that submitted and have not dropped are aggregated. The quorum is  *)
(* counted on all submitters, so the list can be empty: robust_aggregate    *)
(* then raises and the round is left in AGGREGATING.                        *)
Finalize ==
  /\ IF ~CanFinalize
     THEN /\ phase' = "FAILED"
          /\ UNCHANGED result
     ELSE IF submitted \ dropped = {}
     THEN /\ phase' = "AGGREGATING"
          /\ UNCHANGED result
     ELSE /\ phase' = "VERIFYING"
          /\ result' = [p \in submitted \ dropped |-> grads[p]]
  /\ UNCHANGED <<peers, submitted, dropped, root, grads, closed, topology,
                 deadline>>

Mismatched(expected) ==
  {p \in submitted : root[p] \notin {NoRoot, expected}}

(* The caller learns Mismatched(expected); the round is COMPLETED whatever   *)
(* the answer and whatever went before.                                      *)
VerifyConsistency ==
  /\ phase' = "COMPLETED"
  /\ UNCHANGED <<peers, submitted, dropped, root, grads, closed, topology,
                 deadline, result>>

Next ==
  \/ \E p \in Peer : RegisterPeer(p)
  \/ CloseRegistration
  \/ \E p \in Peer : MarkDropout(p)
  \/ \E p \in Peer, g \in Grad, r \in Root \cup {NoRoot} : SubmitGradient(p, g, r)
  \/ DeadlinePasses
  \/ CheckDeadline
  \/ Finalize
  \/ VerifyConsistency

Spec == Init /\ [][Next]_vars

-----------------------------------------------------------------------------
(* finalize looks up self._gradients[pid] for every submitter: the lookup    *)
(* cannot miss, although re-registration resets one table and not the other. *)
GradientsBacked == \A p \in submitted : grads[p] \in Grad

(* Once registration is closed the clusters contain exactly the registered   *)
(* peers, there are at least min_peers of them, and ASSIGNED means closed:   *)
(* close_registration builds the topology from _capacities, the quorum and   *)
(* the submissions use _peers.                                               *)
TopologyMatchesMembers ==
  /\ closed => topology = peers /\ Cardinality(peers) >= MinPeers
  /\ phase = "ASSIGNED" => closed

(* While a result awaits verification it contains the stored gradient of     *)
(* every submitter still in the round, nothing but submitted gradients, and  *)
(* it is backed by a quorum of submitters: no later join, dropout, deadline  *)
(* sweep or submission can leave a VERIFYING round with a stale result.      *)
ResultIsCurrent ==
  phase = "VERIFYING" =>
    /\ result # NoResult
    /\ submitted \ dropped \subseteq DOMAIN result
    /\ DOMAIN result \subseteq submitted
    /\ \A p \in DOMAIN result : result[p] = grads[p]
    /\ Cardinality(submitted) >= MinPeers
    /\ Cardinality(submitted) >= Quorum(Cardinality(active))

(* The inductive invariant: result[p] is a gradient only because every       *)
(* submitter has stored one, and the quorum behind a VERIFYING round only    *)
(* because no action but finalize leads there.                               *)
RoundInv ==
  TypeOK /\ GradientsBacked /\ TopologyMatchesMembers /\ ResultIsCurrent

(* After registration has closed a peer contributes at most one gradient:    *)
(* what it submitted can be neither withdrawn nor replaced, so a peer found  *)
(* divergent from an expected root by verify_consistency stays divergent.    *)
OneGradientPerPeer ==
  [][closed =>
       /\ \A p \in submitted : p \in submitted' /\ grads'[p] = grads[p]
       /\ \A e \in Root : Mismatched(e) \subseteq Mismatched(e)']_vars

(* Once every member of a closed round has submitted or dropped, which the   *)
(* deadline sweep enforces, no straggler and no newcomer can add a gradient  *)
(* or come back: the contributors to any later finalize only shrink.         *)
SweptRoundIsFrozen ==
  [][closed /\ peers \subseteq submitted \cup dropped =>
       /\ grads' = grads
       /\ submitted' \ dropped' \subseteq submitted \ dropped]_vars

=============================================================================
