----------------------------- MODULE NodeRounds -----------------------------
(***************************************************************************)
(* The training rounds as the Rust nodes see them: the scheduler of        *)
(* node/src/scheduler/mod.rs follows every round from the gossip messages  *)
(* it receives and keeps a reputation table (consensus/shard_map.rs).      *)
(*                                                                         *)
(* Gossip delivers a message to each node but its publisher at most once,  *)
(* in any order, perhaps never. Clients publish what they like through a   *)
(* node's HTTP API; a scheduler publishes aggregate_ready and              *)
(* checkpoint_available, and nobody can tell these from a client's.        *)
(* Every publication has an identity of its own (gossipsub's default:      *)
(* publisher and sequence number), so equal contents are not recognised.   *)
(* Left out: live_peers, last_seen_ms, model_id, merkle_root and           *)
(* started_at_ms, which no handler reads.                                  *)
(***************************************************************************)
EXTENDS Integers, Sequences, FiniteSets

CONSTANTS
  Node,          \* nodes whose schedulers are followed
  ApiNode,       \* nodes whose clients publish, in Node or not
  Round,         \* round ids
  Peer,          \* peer ids named by joins and submissions
  NoPeer,        \* "the message names no peer"
  MaxPublished   \* bound of the model on the messages published by clients

ASSUME NodeRoundsAssumption ==
  /\ NoPeer \notin Peer
  /\ MaxPublished \in Nat

RoundPhase == {"none", "proposed", "joining", "computing", "aggregating",
               "checkpointing", "complete", "failed"}

NodeTypes == {"aggregate_ready", "checkpoint_available"}
RoundTypes == {"proposal", "start_compute", "aggregate_complete",
               "round_complete", "round_failed"} \cup NodeTypes
PeerTypes == {"join", "submit"}

Body == [type : RoundTypes, round : Round, peer : {NoPeer}]
          \cup [type : PeerTypes, round : Round, peer : Peer]

VARIABLES
  rounds,      \* rounds[n][r]: state.active_rounds of n, phase "none" if absent
  rep,         \* rep[n][p]: n's reputation entry for p, the score in tenths
  published,   \* every message ever published; by, who asked for it, is for properties
  delivered    \* delivered[n]: the messages n's scheduler has handled

vars == <<rounds, rep, published, delivered>>

NoRound == [phase |-> "none", participants |-> << >>, submissions |-> << >>]
NewRound == [phase |-> "proposed", participants |-> << >>, submissions |-> << >>]

Init ==
  /\ rounds = [n \in Node |-> [r \in Round |-> NoRound]]
  /\ rep = [n \in Node |-> [p \in Peer |-> [score |-> 5, completed |-> 0, failed |-> 0]]]
  /\ published = {}
  /\ delivered = [n \in Node |-> {}]

-----------------------------------------------------------------------------
(* k calls in a row of record_round_complete, and of record_round_failed: *)
(* a tenth up to 1.0 each, two tenths down to 0.0 each.                  *)
Completed(e, k) == [score |-> IF e.score + k > 10 THEN 10 ELSE e.score + k,
                    completed |-> e.completed + k, failed |-> e.failed]
Failed(e, k) == [score |-> IF e.score < 2 * k THEN 0 ELSE e.score - 2 * k,
                 completed |-> e.completed, failed |-> e.failed + k]

Published(n, by, body) ==
  [from |-> n, by |-> by, body |-> body,
   seq |-> Cardinality({m \in published : m.from = n /\ m.body = body}) + 1]

Publish(n, type, r) ==
  published' = published
    \cup {Published(n, "scheduler", [type |-> type, round |-> r, peer |-> NoPeer])}

ClientPublish(n, body) ==
  /\ Cardinality({m \in published : m.by = "client"}) < MaxPublished
  /\ published' = published \cup {Published(n, "client", body)}
  /\ UNCHANGED <<rounds, rep, delivered>>

SetPhase(n, r, phase) == rounds' = [rounds EXCEPT ![n][r].phase = phase]
Known(n, r) == rounds[n][r].phase # "none"

(* A proposal of a known round starts it over. *)
HandleProposal(n, r) ==
  /\ rounds' = [rounds EXCEPT ![n][r] = NewRound]
  /\ UNCHANGED <<rep, published>>

Joined(n, r, p) ==
  rounds' = [rounds EXCEPT ![n][r] =
               [phase |-> "joining", participants |-> Append(@.participants, p),
                submissions |-> @.submissions]]

(* Fault: any phase accepts a join. *)
HandleJoinAlways(n, r, p) ==
  /\ IF Known(n, r) THEN Joined(n, r, p) ELSE UNCHANGED rounds
  /\ UNCHANGED <<rep, published>>

HandleJoin(n, r, p) ==
  /\ IF rounds[n][r].phase \in {"proposed", "joining"}
     THEN Joined(n, r, p) ELSE UNCHANGED rounds
  /\ UNCHANGED <<rep, published>>

(* start_compute, round_complete and round_failed set the phase of a known *)
(* round, whatever it was; the engine's train_step answer is only logged.  *)
HandlePhase(n, r, phase) ==
  /\ IF Known(n, r) THEN SetPhase(n, r, phase) ELSE UNCHANGED rounds
  /\ UNCHANGED <<rep, published>>

HandleAggregateComplete(n, r) ==
  /\ IF Known(n, r)
     THEN SetPhase(n, r, "checkpointing") /\ Publish(n, "checkpoint_available", r)
     ELSE UNCHANGED <<rounds, published>>
  /\ UNCHANGED rep

(* (participants.len() as f64 * 0.67) as usize, and max(3). *)
ReadyQuorum(k) == IF (k * 67) \div 100 > 3 THEN (k * 67) \div 100 ELSE 3

Submitted(n, r, p) ==
  /\ rounds[n][r].phase \in {"computing", "aggregating"}
  /\ rounds' = [rounds EXCEPT ![n][r] =
                  [phase |-> "aggregating", participants |-> @.participants,
                   submissions |-> Append(@.submissions, p)]]

(* Fault: the quorum already announces the checkpoint. *)
HandleSubmitAnnounces(n, r, p) ==
  /\ \/ /\ Submitted(n, r, p)
        /\ Publish(n, "checkpoint_available", r)
     \/ /\ rounds[n][r].phase \notin {"computing", "aggregating"}
        /\ UNCHANGED <<rounds, published>>
  /\ UNCHANGED rep

HandleSubmit(n, r, p) ==
  /\ \/ /\ Submitted(n, r, p)
        /\ IF Len(rounds[n][r].submissions) + 1
                >= ReadyQuorum(Len(rounds[n][r].participants))
           THEN Publish(n, "aggregate_ready", r) ELSE UNCHANGED published
     \/ /\ rounds[n][r].phase \notin {"computing", "aggregating"}
        /\ UNCHANGED <<rounds, published>>
  /\ UNCHANGED rep

Copies(list, p) == Cardinality({i \in DOMAIN list : list[i] = p})

(* Fault: every submission is credited as well. *)
RewardsTwice(round, table) ==
  [p \in Peer |-> Completed(table[p], Copies(round.participants \o round.submissions, p))]

(* Every copy of p among the participants is credited; then every copy is *)
(* charged if p never submitted. The order of the list makes no           *)
(* difference: the calls for one peer change its entry only.              *)
Rewards(round, table) ==
  [p \in Peer |->
     LET k == Copies(round.participants, p)
         credited == Completed(table[p], k)
     IN  IF Copies(round.submissions, p) > 0 THEN credited ELSE Failed(credited, k)]

HandleCheckpoint(n, r) ==
  /\ IF Known(n, r)
     THEN /\ SetPhase(n, r, "complete")
          /\ rep' = [rep EXCEPT ![n] = Rewards(rounds[n][r], @)]
     ELSE UNCHANGED <<rounds, rep>>
  /\ UNCHANGED published

(* aggregate_ready falls through to the unknown types. *)
HandleUnknown == UNCHANGED <<rounds, rep, published>>

Handle(n, body) ==
  LET r == body.round  p == body.peer  type == body.type IN
    \/ type = "proposal" /\ HandleProposal(n, r)
    \/ type = "join" /\ HandleJoin(n, r, p)
    \/ type = "start_compute" /\ HandlePhase(n, r, "computing")
    \/ type = "round_complete" /\ HandlePhase(n, r, "complete")
    \/ type = "round_failed" /\ HandlePhase(n, r, "failed")
    \/ type = "aggregate_complete" /\ HandleAggregateComplete(n, r)
    \/ type = "submit" /\ HandleSubmit(n, r, p)
    \/ type = "checkpoint_available" /\ HandleCheckpoint(n, r)
    \/ type = "aggregate_ready" /\ HandleUnknown

Deliver(n, m) ==
  /\ m.from # n
  /\ m \notin delivered[n]
  /\ Handle(n, m.body)
  /\ delivered' = [delivered EXCEPT ![n] = @ \cup {m}]

Next ==
  \/ \E n \in ApiNode, body \in Body : ClientPublish(n, body)
  \/ \E n \in Node, m \in published : Deliver(n, m)

Spec == Init /\ [][Next]_vars

-----------------------------------------------------------------------------
Received(n, type, r, p) ==
  {m \in delivered[n] : m.body = [type |-> type, round |-> r, peer |-> p]}

(* A node credits a peer only for a round whose proposal, join of the peer *)
(* and announcement it has received, and the announcement was a client's   *)
(* or came from a node that had followed the round to its aggregation:     *)
(* neither submissions nor a quorum of them make a scheduler announce.     *)
Followed(n, r) == /\ Received(n, "proposal", r, NoPeer) # {}
                  /\ Received(n, "aggregate_complete", r, NoPeer) # {}

Announced(n, r) ==
  \E m \in Received(n, "checkpoint_available", r, NoPeer) :
    m.by = "client" \/ (m.from \in Node /\ Followed(m.from, r))

RewardNeedsAnnouncement ==
  \A n \in Node, p \in Peer : rep[n][p].completed > 0 =>
    \E r \in Round : /\ Received(n, "proposal", r, NoPeer) # {}
                     /\ Received(n, "join", r, p) # {}
                     /\ Announced(n, r)

(* What a peer is credited with at a node is bounded by the joins of the  *)
(* peer and the announcements of other nodes it received, whatever order  *)
(* they came in; a peer is never charged more often than credited.        *)
RewardsBounded ==
  \A n \in Node, p \in Peer :
    /\ rep[n][p].failed <= rep[n][p].completed
    /\ rep[n][p].completed <=
         Cardinality(UNION {Received(n, "join", r, p) : r \in Round})
           * Cardinality(UNION {Received(n, "checkpoint_available", r, NoPeer)
                                  : r \in Round})

(* Once a round computes, a node changes its list of participants only by *)
(* starting the round over: delayed joins change neither the quorum nor   *)
(* who is rewarded.                                                       *)
LateJoinersStayOut ==
  [][\A n \in Node, r \in Round :
       rounds[n][r].phase \notin {"none", "proposed", "joining"} =>
         \/ rounds'[n][r].participants = rounds[n][r].participants
         \/ rounds'[n][r] = NewRound]_vars

=============================================================================
