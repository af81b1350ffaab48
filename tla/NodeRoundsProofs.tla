-------------------------- MODULE NodeRoundsProofs --------------------------
(***************************************************************************)
(* What the schedulers of NodeRounds promise for any nodes, clients,       *)
(* rounds and peers, however many messages are published and in whatever   *)
(* order gossip delivers them.                                             *)
(***************************************************************************)
EXTENDS NodeRounds, FiniteSetTheorems, SequenceTheorems, TLAPS

RoundRecord == [phase : RoundPhase, participants : Seq(Peer), submissions : Seq(Peer)]
Entry == [score : 0..10, completed : Nat, failed : Nat]

NodeRoundsTypeOK ==
  /\ rounds \in [Node -> [Round -> RoundRecord]]
  /\ rep \in [Node -> [Peer -> Entry]]
  /\ IsFiniteSet(published) /\ \A m \in published : m.body \in Body
  /\ delivered \in [Node -> SUBSET published]

(* A peer is among the participants once per join received, at most.       *)
ParticipantsJoined ==
  \A n \in Node, r \in Round, p \in Peer :
    Copies(rounds[n][r].participants, p) <= Cardinality(Received(n, "join", r, p))

(* A node knows the rounds whose proposal it has received.                 *)
KnownFromProposal ==
  \A n \in Node, r \in Round : Known(n, r) => Received(n, "proposal", r, NoPeer) # {}

(* Schedulers announce checkpoints of rounds they followed to aggregation. *)
AnnouncedWhenFollowed ==
  \A m \in published : m.body.type = "checkpoint_available" =>
    \/ m.by = "client"
    \/ m.from \in Node /\ Followed(m.from, m.body.round)

NodeRoundsInv ==
  /\ NodeRoundsTypeOK /\ ParticipantsJoined /\ KnownFromProposal /\ AnnouncedWhenFollowed
  /\ RewardNeedsAnnouncement /\ RewardsBounded

JoinsOf(n, p) == UNION {Received(n, "join", r, p) : r \in Round}
CheckpointsOf(n) == UNION {Received(n, "checkpoint_available", r, NoPeer) : r \in Round}

-----------------------------------------------------------------------------
LEMMA CopiesEmpty == \A p : Copies(<< >>, p) = 0
BY FS_EmptySet DEF Copies

LEMMA CopiesAppend ==
  ASSUME NEW S, NEW s \in Seq(S), NEW e \in S, NEW p
  PROVE  /\ Copies(s, p) \in Nat
         /\ Copies(Append(s, e), p) = IF e = p THEN Copies(s, p) + 1 ELSE Copies(s, p)
<1> DEFINE at == {i \in DOMAIN s : s[i] = p}
           new == {i \in DOMAIN Append(s, e) : Append(s, e)[i] = p}
<1>1. /\ Len(s) \in Nat /\ DOMAIN s = 1..Len(s)
      /\ DOMAIN Append(s, e) = 1..(Len(s) + 1)
      /\ Append(s, e)[Len(s) + 1] = e
      /\ \A i \in 1..Len(s) : Append(s, e)[i] = s[i]
  OBVIOUS
<1>2. IsFiniteSet(at)
  <2>1. IsFiniteSet(1..Len(s)) /\ at \subseteq 1..Len(s)
    BY <1>1, FS_Interval
  <2> QED
    BY <2>1, FS_Subset
<1>3. Len(s) + 1 \notin at
  BY <1>1
<1>4. new = IF e = p THEN at \cup {Len(s) + 1} ELSE at
  BY <1>1
<1> HIDE DEF at, new
<1>5. /\ Cardinality(at) \in Nat
      /\ Cardinality(new) = IF e = p THEN Cardinality(at) + 1 ELSE Cardinality(at)
  BY <1>2, <1>3, <1>4, FS_AddElement, FS_CardinalityType
<1> QED
  BY <1>5 DEF at, new, Copies

LEMMA CopiesSome ==
  ASSUME NEW S, NEW s \in Seq(S), NEW p
  PROVE  Copies(s, p) \in Nat
<1>1. Len(s) \in Nat /\ DOMAIN s = 1..Len(s)
  OBVIOUS
<1> DEFINE at == {i \in DOMAIN s : s[i] = p}
<1>2. IsFiniteSet(1..Len(s)) /\ at \subseteq 1..Len(s)
  BY <1>1, FS_Interval
<1> HIDE DEF at
<1>3. Cardinality(at) \in Nat
  BY <1>2, FS_Subset, FS_CardinalityType
<1> QED
  BY <1>3 DEF Copies, at

(* A larger set of a finite one: the sets of received messages only grow.  *)
LEMMA Larger ==
  ASSUME NEW T, IsFiniteSet(T), NEW S \in SUBSET T
  PROVE  /\ IsFiniteSet(S) /\ Cardinality(S) \in Nat /\ Cardinality(T) \in Nat
         /\ Cardinality(S) <= Cardinality(T)
BY FS_Subset, FS_CardinalityType

LEMMA ProductGrows ==
  ASSUME NEW a \in Nat, NEW b \in Nat, NEW c \in Nat, NEW d \in Nat, a <= c, b <= d
  PROVE  a * b <= c * d /\ a * (b + 1) = a * b + a /\ a * b \in Nat
<1>1. PICK x \in Nat : c = a + x
  <2>1. c - a \in Nat /\ c = a + (c - a)
    OBVIOUS
  <2> QED  BY <2>1
<1>2. PICK y \in Nat : d = b + y
  <2>1. d - b \in Nat /\ d = b + (d - b)
    OBVIOUS
  <2> QED  BY <2>1
<1>3. c * d = a * b + a * y + x * b + x * y
  BY <1>1, <1>2
<1>4. a * y \in Nat /\ x * b \in Nat /\ x * y \in Nat /\ a * b \in Nat
  BY <1>1, <1>2
<1>5. a * (b + 1) = a * b + a
  OBVIOUS
<1> QED
  BY <1>3, <1>4, <1>5

-----------------------------------------------------------------------------
(* The types: one handler after the other.                                 *)
LEMMA PublishKeepsTypes ==
  ASSUME NodeRoundsTypeOK, NEW n, NEW by, NEW body \in Body,
         published' = published \cup {Published(n, by, body)}
  PROVE  /\ IsFiniteSet(published') /\ \A m \in published' : m.body \in Body
         /\ published \subseteq published'
<1>1. Published(n, by, body).body = body
  BY DEF Published
<1> HIDE DEF Body
<1> QED
  BY <1>1, FS_AddElement DEF NodeRoundsTypeOK

LEMMA HandleKeepsTypes ==
  ASSUME NodeRoundsTypeOK, NEW n \in Node, NEW body \in Body, Handle(n, body)
  PROVE  /\ IsFiniteSet(published') /\ \A m \in published' : m.body \in Body
         /\ published \subseteq published'
         /\ \/ published' = published
            \/ \E type \in NodeTypes : Publish(n, type, body.round)
<1>1. \/ published' = published
      \/ \E type \in NodeTypes : Publish(n, type, body.round)
  BY DEF Handle, HandleProposal, HandleJoin, HandlePhase, HandleAggregateComplete,
         HandleSubmit, HandleCheckpoint, HandleUnknown, NodeTypes
<1>2. body.round \in Round
  BY DEF Body
<1>3. ASSUME NEW type \in NodeTypes, Publish(n, type, body.round)
      PROVE  /\ IsFiniteSet(published') /\ \A m \in published' : m.body \in Body
             /\ published \subseteq published'
  <2>1. [type |-> type, round |-> body.round, peer |-> NoPeer] \in Body
    BY <1>2 DEF Body, RoundTypes
  <2> QED
    BY <1>3, <2>1, PublishKeepsTypes DEF Publish
<1> QED
  BY <1>1, <1>3 DEF NodeRoundsTypeOK

LEMMA RewardsType ==
  ASSUME NEW round \in RoundRecord, NEW table \in [Peer -> Entry]
  PROVE  /\ Rewards(round, table) \in [Peer -> Entry]
         /\ \A p \in Peer :
              LET k == Copies(round.participants, p) IN
              /\ k \in Nat
              /\ Rewards(round, table)[p].completed = table[p].completed + k
              /\ \/ Rewards(round, table)[p].failed = table[p].failed
                 \/ Rewards(round, table)[p].failed = table[p].failed + k
<1>1. \A q : Copies(round.participants, q) \in Nat
  BY CopiesSome DEF RoundRecord
<1>2. ASSUME NEW e \in Entry, NEW k \in Nat
      PROVE  /\ Completed(e, k) \in Entry
             /\ Completed(e, k).completed = e.completed + k
             /\ Completed(e, k).failed = e.failed
  <2>1. (IF e.score + k > 10 THEN 10 ELSE e.score + k) \in 0..10
    BY DEF Entry
  <2> QED
    BY <2>1 DEF Completed, Entry
<1>3. ASSUME NEW e \in Entry, NEW k \in Nat
      PROVE  /\ Failed(e, k) \in Entry
             /\ Failed(e, k).completed = e.completed
             /\ Failed(e, k).failed = e.failed + k
  <2>1. (IF e.score < 2 * k THEN 0 ELSE e.score - 2 * k) \in 0..10
    BY DEF Entry
  <2> QED
    BY <2>1 DEF Failed, Entry
<1>4. ASSUME NEW p \in Peer
      PROVE  LET k == Copies(round.participants, p) IN
             /\ Rewards(round, table)[p] \in Entry
             /\ Rewards(round, table)[p].completed = table[p].completed + k
             /\ \/ Rewards(round, table)[p].failed = table[p].failed
                \/ Rewards(round, table)[p].failed = table[p].failed + k
  <2> DEFINE k == Copies(round.participants, p)
             credited == Completed(table[p], k)
  <2>1. k \in Nat /\ table[p] \in Entry
    BY <1>1
  <2>2. /\ credited \in Entry /\ credited.completed = table[p].completed + k
        /\ credited.failed = table[p].failed
    BY <1>2, <2>1
  <2>3. /\ Failed(credited, k) \in Entry
        /\ Failed(credited, k).completed = credited.completed
        /\ Failed(credited, k).failed = credited.failed + k
    <3> HIDE DEF credited, k
    <3> QED  BY <1>3, <2>1, <2>2
  <2>4. Rewards(round, table)[p] = IF Copies(round.submissions, p) > 0
                                   THEN credited ELSE Failed(credited, k)
    BY DEF Rewards
  <2> HIDE DEF credited, k
  <2>5. /\ Rewards(round, table)[p] \in Entry
        /\ Rewards(round, table)[p].completed = table[p].completed + k
        /\ \/ Rewards(round, table)[p].failed = table[p].failed
           \/ Rewards(round, table)[p].failed = table[p].failed + k
    BY <2>2, <2>3, <2>4
  <2> QED
    BY <2>5 DEF k
<1>5. \E f : Rewards(round, table) = [p \in Peer |-> f[p]]
  <2> DEFINE f == Rewards(round, table)
  <2>1. f = [p \in Peer |-> f[p]]
    BY DEF Rewards
  <2> QED  BY <2>1
<1> QED
  BY <1>1, <1>4, <1>5

(* What a handler may do to the list of participants and to the table.     *)
LEMMA RoundsHandled ==
  ASSUME NodeRoundsTypeOK, NEW n \in Node, NEW body \in Body, Handle(n, body)
  PROVE  \/ rounds' = rounds
         \/ \E e \in RoundRecord :
              /\ rounds' = [rounds EXCEPT ![n] = [@ EXCEPT ![body.round] = e]]
              /\ \/ e = NewRound
                 \/ e.participants = rounds[n][body.round].participants
                 \/ /\ body \in [type : {"join"}, round : Round, peer : Peer]
                    /\ rounds[n][body.round].phase \in {"proposed", "joining"}
                    /\ e.participants
                          = Append(rounds[n][body.round].participants, body.peer)
<1> DEFINE r == body.round  p == body.peer  old == rounds[n][r]
<1>1. r \in Round
  BY DEF Body
<1>2. old \in RoundRecord
  BY <1>1 DEF NodeRoundsTypeOK
<1>3. ASSUME NEW phase \in RoundPhase
      PROVE  /\ [old EXCEPT !.phase = phase] \in RoundRecord
             /\ [old EXCEPT !.phase = phase].participants = old.participants
  BY <1>2 DEF RoundRecord
<1>4. ASSUME NEW phase \in RoundPhase, SetPhase(n, r, phase)
      PROVE  rounds' = [rounds EXCEPT ![n] = [@ EXCEPT ![r] = [old EXCEPT !.phase = phase]]]
  BY <1>4, Zenon DEF SetPhase
<1>5. CASE HandleProposal(n, r)
  <2>1. NewRound \in RoundRecord
    BY DEF NewRound, RoundRecord, RoundPhase
  <2>2. rounds' = [rounds EXCEPT ![n] = [@ EXCEPT ![r] = NewRound]]
    BY <1>5, Zenon DEF HandleProposal
  <2> QED  BY <2>1, <2>2
<1>6. CASE body.type = "join" /\ HandleJoin(n, r, p)
  <2>1. body \in [type : {"join"}, round : Round, peer : Peer]
    BY <1>6 DEF Body, RoundTypes, PeerTypes, NodeTypes
  <2>2. p \in Peer
    BY <2>1
  <2> DEFINE e == [phase |-> "joining", participants |-> Append(old.participants, p),
                    submissions |-> old.submissions]
  <2>3. e \in RoundRecord /\ e.participants = Append(old.participants, p)
    BY <1>2, <2>2 DEF RoundRecord, RoundPhase
  <2>4. ASSUME Joined(n, r, p)
        PROVE  rounds' = [rounds EXCEPT ![n] = [@ EXCEPT ![r] = e]]
    BY <2>4, Zenon DEF Joined
  <2> HIDE DEF e
  <2> QED
    BY <1>6, <2>1, <2>3, <2>4 DEF HandleJoin
<1>7. ASSUME NEW phase \in RoundPhase, HandlePhase(n, r, phase)
      PROVE  rounds' = rounds \/ SetPhase(n, r, phase)
  BY <1>7 DEF HandlePhase
<1>8. CASE HandleAggregateComplete(n, r)
  <2>1. rounds' = rounds \/ SetPhase(n, r, "checkpointing")
    BY <1>8 DEF HandleAggregateComplete
  <2> QED
    BY <1>3, <1>4, <2>1 DEF RoundPhase
<1>9. CASE body.type = "submit" /\ HandleSubmit(n, r, p)
  <2>1. p \in Peer
    BY <1>9 DEF Body, RoundTypes, PeerTypes, NodeTypes
  <2> DEFINE e == [phase |-> "aggregating", participants |-> old.participants,
                    submissions |-> Append(old.submissions, p)]
  <2>2. e \in RoundRecord /\ e.participants = old.participants
    BY <1>2, <2>1 DEF RoundRecord, RoundPhase
  <2>3. ASSUME Submitted(n, r, p)
        PROVE  rounds' = [rounds EXCEPT ![n] = [@ EXCEPT ![r] = e]]
    BY <2>3, Zenon DEF Submitted
  <2> HIDE DEF e
  <2> QED
    BY <1>9, <2>2, <2>3 DEF HandleSubmit
<1>10. CASE HandleCheckpoint(n, r)
  <2>1. rounds' = rounds \/ SetPhase(n, r, "complete")
    BY <1>10 DEF HandleCheckpoint
  <2> QED
    BY <1>3, <1>4, <2>1 DEF RoundPhase
<1>11. CASE HandleUnknown
  BY <1>11 DEF HandleUnknown
<1>12. ASSUME NEW phase \in {"computing", "complete", "failed"}, HandlePhase(n, r, phase)
       PROVE  \/ rounds' = rounds
              \/ \E e \in RoundRecord :
                   /\ rounds' = [rounds EXCEPT ![n] = [@ EXCEPT ![r] = e]]
                   /\ e.participants = old.participants
  <2>1. phase \in RoundPhase
    BY DEF RoundPhase
  <2> QED
    BY <1>3, <1>4, <1>7, <1>12, <2>1
<1> QED
  BY <1>5, <1>6, <1>8, <1>9, <1>10, <1>11, <1>12 DEF Handle

LEMMA RoundsType ==
  ASSUME NodeRoundsTypeOK, NEW n \in Node, NEW body \in Body, Handle(n, body)
  PROVE  rounds' \in [Node -> [Round -> RoundRecord]]
<1>1. body.round \in Round
  BY DEF Body
<1>2. ASSUME NEW e \in RoundRecord
      PROVE  [rounds EXCEPT ![n] = [@ EXCEPT ![body.round] = e]] \in [Node -> [Round -> RoundRecord]]
  BY <1>1 DEF NodeRoundsTypeOK
<1>3. rounds \in [Node -> [Round -> RoundRecord]]
  BY DEF NodeRoundsTypeOK
<1>4. \/ rounds' = rounds
      \/ \E e \in RoundRecord : rounds' = [rounds EXCEPT ![n] = [@ EXCEPT ![body.round] = e]]
  BY RoundsHandled
<1> QED
  BY <1>2, <1>3, <1>4

LEMMA RepHandled ==
  ASSUME NodeRoundsTypeOK, NEW n \in Node, NEW body \in Body, Handle(n, body)
  PROVE  \/ rep' = rep
         \/ /\ body = [type |-> "checkpoint_available", round |-> body.round, peer |-> NoPeer]
            /\ Known(n, body.round)
            /\ rep' = [rep EXCEPT ![n] = Rewards(rounds[n][body.round], @)]
<1>1. \/ rep' = rep
      \/ /\ body.type = "checkpoint_available"
         /\ Known(n, body.round)
         /\ rep' = [rep EXCEPT ![n] = Rewards(rounds[n][body.round], @)]
  BY DEF Handle, HandleProposal, HandleJoin, HandlePhase, HandleAggregateComplete,
         HandleSubmit, HandleCheckpoint, HandleUnknown
<1>2. body.type = "checkpoint_available" =>
        body = [type |-> "checkpoint_available", round |-> body.round, peer |-> NoPeer]
  BY DEF Body, RoundTypes, PeerTypes, NodeTypes
<1> QED
  BY <1>1, <1>2

LEMMA RepType ==
  ASSUME NodeRoundsTypeOK, NEW n \in Node, NEW body \in Body, Handle(n, body)
  PROVE  rep' \in [Node -> [Peer -> Entry]]
<1>1. rounds[n][body.round] \in RoundRecord /\ rep[n] \in [Peer -> Entry]
  BY DEF NodeRoundsTypeOK, Body
<1>2. Rewards(rounds[n][body.round], rep[n]) \in [Peer -> Entry]
  BY <1>1, RewardsType
<1> QED
  BY <1>2, RepHandled DEF NodeRoundsTypeOK

LEMMA TypesKept ==
  ASSUME NodeRoundsTypeOK, [Next]_vars
  PROVE  NodeRoundsTypeOK'
<1>1. ASSUME NEW n \in ApiNode, NEW body \in Body, ClientPublish(n, body)
      PROVE  NodeRoundsTypeOK'
  BY <1>1, PublishKeepsTypes DEF ClientPublish, NodeRoundsTypeOK, Body
<1>2. ASSUME NEW n \in Node, NEW m \in published, Deliver(n, m)
      PROVE  NodeRoundsTypeOK'
  <2>1. m.body \in Body /\ Handle(n, m.body)
    BY <1>2 DEF Deliver, NodeRoundsTypeOK
  <2>2. /\ IsFiniteSet(published') /\ \A k \in published' : k.body \in Body
        /\ published \subseteq published'
    BY <2>1, HandleKeepsTypes
  <2>3. delivered' \in [Node -> SUBSET published']
    BY <1>2, <2>2 DEF Deliver, NodeRoundsTypeOK
  <2> QED
    BY <2>1, <2>2, <2>3, RoundsType, RepType DEF NodeRoundsTypeOK
<1>3. CASE UNCHANGED vars
  BY <1>3 DEF vars, NodeRoundsTypeOK
<1> QED
  BY <1>1, <1>2, <1>3 DEF Next

-----------------------------------------------------------------------------
(* What a step does to the messages received.                              *)
LEMMA ReceivedGrow ==
  ASSUME NodeRoundsTypeOK, NEW n \in Node, delivered[n] \subseteq delivered'[n],
         IsFiniteSet(delivered'[n]), NEW r, NEW p, NEW type
  PROVE  /\ Received(n, type, r, p) \subseteq Received(n, type, r, p)'
         /\ Cardinality(Received(n, type, r, p)) \in Nat
         /\ Cardinality(Received(n, type, r, p)') \in Nat
         /\ Cardinality(Received(n, type, r, p)) <= Cardinality(Received(n, type, r, p)')
<1>1. /\ Received(n, type, r, p) \subseteq Received(n, type, r, p)'
      /\ Received(n, type, r, p)' \subseteq delivered'[n]
  BY DEF Received
<1>2. IsFiniteSet(Received(n, type, r, p)')
  BY <1>1, FS_Subset
<1> QED
  BY <1>1, <1>2, Larger

LEMMA DeliveredGrow ==
  ASSUME NodeRoundsTypeOK, NodeRoundsTypeOK', [Next]_vars, NEW n \in Node
  PROVE  delivered[n] \subseteq delivered'[n] /\ IsFiniteSet(delivered'[n])
<1>1. delivered'[n] \in SUBSET published' /\ IsFiniteSet(published')
  BY DEF NodeRoundsTypeOK
<1>2. IsFiniteSet(delivered'[n])
  BY <1>1, FS_Subset
<1>3. delivered[n] \subseteq delivered'[n]
  BY DEF NodeRoundsTypeOK, Next, Deliver, ClientPublish, vars
<1> QED
  BY <1>2, <1>3

LEMMA DeliveredNew ==
  ASSUME NodeRoundsTypeOK, NodeRoundsTypeOK', NEW n \in Node, NEW m \in published,
         Deliver(n, m), NEW type, NEW r, NEW p,
         m.body = [type |-> type, round |-> r, peer |-> p]
  PROVE  /\ Received(n, type, r, p)' = Received(n, type, r, p) \cup {m}
         /\ Cardinality(Received(n, type, r, p)) \in Nat
         /\ Cardinality(Received(n, type, r, p)') = Cardinality(Received(n, type, r, p)) + 1
<1>1. /\ m \notin delivered[n] /\ delivered'[n] = delivered[n] \cup {m}
      /\ delivered[n] \subseteq published
  BY DEF Deliver, NodeRoundsTypeOK
<1>2. /\ Received(n, type, r, p)' = Received(n, type, r, p) \cup {m}
      /\ m \notin Received(n, type, r, p)
      /\ Received(n, type, r, p) \subseteq published
  BY <1>1 DEF Received
<1>3. IsFiniteSet(Received(n, type, r, p))
  BY <1>2, FS_Subset DEF NodeRoundsTypeOK
<1> QED
  BY <1>2, <1>3, FS_AddElement, FS_CardinalityType

LEMMA ParticipantsKept ==
  ASSUME NodeRoundsInv, NodeRoundsTypeOK', [Next]_vars
  PROVE  ParticipantsJoined'
<1> SUFFICES ASSUME NEW n \in Node, NEW r \in Round, NEW p \in Peer
             PROVE  Copies(rounds'[n][r].participants, p)
                      <= Cardinality(Received(n, "join", r, p)')
  BY DEF ParticipantsJoined, Received, Copies
<1> DEFINE old == rounds[n][r].participants  new == rounds'[n][r].participants
<1>1. /\ Cardinality(Received(n, "join", r, p)) \in Nat
      /\ Cardinality(Received(n, "join", r, p)') \in Nat
      /\ Cardinality(Received(n, "join", r, p)) <= Cardinality(Received(n, "join", r, p)')
  BY DeliveredGrow, ReceivedGrow DEF NodeRoundsInv
<1>2. Copies(old, p) <= Cardinality(Received(n, "join", r, p))
  BY DEF NodeRoundsInv, ParticipantsJoined
<1>3. old \in Seq(Peer) /\ Copies(old, p) \in Nat
  BY CopiesSome DEF NodeRoundsInv, NodeRoundsTypeOK, RoundRecord
<1>4. CASE new = old \/ new = << >>
  BY <1>1, <1>2, <1>3, <1>4, CopiesEmpty
<1>5. ASSUME NEW i \in Node, NEW m \in published, Deliver(i, m), ~ (new = old \/ new = << >>)
      PROVE  /\ i = n /\ m.body.round = r
             /\ m.body = [type |-> "join", round |-> r, peer |-> m.body.peer]
             /\ m.body.peer \in Peer
             /\ new = Append(old, m.body.peer)
  <2>1. m.body \in Body /\ Handle(i, m.body) /\ rounds \in [Node -> [Round -> RoundRecord]]
    BY <1>5 DEF Deliver, NodeRoundsInv, NodeRoundsTypeOK
  <2>2. PICK e \in RoundRecord :
          /\ rounds' = [rounds EXCEPT ![i] = [@ EXCEPT ![m.body.round] = e]]
          /\ \/ e = NewRound
             \/ e.participants = rounds[i][m.body.round].participants
             \/ /\ m.body \in [type : {"join"}, round : Round, peer : Peer]
                /\ e.participants = Append(rounds[i][m.body.round].participants, m.body.peer)
    <3>1. rounds' # rounds
      BY <1>5
    <3>2. NodeRoundsTypeOK
      BY DEF NodeRoundsInv
    <3> QED
      BY <1>5, <2>1, <3>1, <3>2, RoundsHandled
  <2>3. i = n /\ m.body.round = r /\ rounds'[n][r] = e
    BY <1>5, <2>1, <2>2
  <2> QED
    BY <1>5, <2>2, <2>3 DEF NewRound
<1>6. ASSUME NEW i \in Node, NEW m \in published, Deliver(i, m), ~ (new = old \/ new = << >>)
      PROVE  Copies(new, p) <= Cardinality(Received(n, "join", r, p)')
  <2>0. /\ i = n
        /\ m.body = [type |-> "join", round |-> r, peer |-> m.body.peer]
        /\ m.body.peer \in Peer
        /\ new = Append(old, m.body.peer)
    BY <1>5, <1>6
  <2>1. Copies(new, p) = IF m.body.peer = p THEN Copies(old, p) + 1 ELSE Copies(old, p)
    <3> HIDE DEF old, new
    <3> QED  BY <1>3, <2>0, CopiesAppend
  <2>2. m.body.peer = p => Cardinality(Received(n, "join", r, p)')
                             = Cardinality(Received(n, "join", r, p)) + 1
    BY <2>0, <1>6, DeliveredNew DEF NodeRoundsInv
  <2> QED
    BY <1>1, <1>2, <1>3, <2>1, <2>2
<1>7. \/ rounds' = rounds
      \/ \E i \in Node, m \in published : Deliver(i, m)
  BY DEF Next, vars, ClientPublish
<1> QED
  BY <1>4, <1>6, <1>7

LEMMA PublishedGrows == ASSUME [Next]_vars  PROVE published \subseteq published'
BY DEF Next, vars, ClientPublish, Deliver, Handle, HandleProposal, HandleJoin, HandlePhase,
       HandleAggregateComplete, HandleSubmit, HandleCheckpoint, HandleUnknown, Publish

LEMMA FollowedGrows ==
  ASSUME NodeRoundsTypeOK, NodeRoundsTypeOK', [Next]_vars, NEW n \in Node, NEW r
  PROVE  /\ Followed(n, r) => Followed(n, r)'
         /\ \A type, p : Received(n, type, r, p) \subseteq Received(n, type, r, p)'
<1>1. delivered[n] \subseteq delivered'[n]
  BY DeliveredGrow
<1>2. \A type, p : Received(n, type, r, p) \subseteq Received(n, type, r, p)'
  BY <1>1 DEF Received
<1> QED
  BY <1>2 DEF Followed

(* A round is known from its proposal on.                                  *)
LEMMA KnownKept ==
  ASSUME NodeRoundsInv, NodeRoundsTypeOK', [Next]_vars
  PROVE  KnownFromProposal'
<1> SUFFICES ASSUME NEW n \in Node, NEW r \in Round, Known(n, r)'
             PROVE  Received(n, "proposal", r, NoPeer)' # {}
  BY DEF KnownFromProposal
<1>1. CASE Known(n, r)
  BY <1>1, FollowedGrows DEF NodeRoundsInv, KnownFromProposal
<1>2. CASE ~ Known(n, r)
  <2>1. rounds'[n][r].phase # "none" /\ rounds[n][r].phase = "none"
    BY <1>2 DEF Known
  <2>2. PICK i \in Node, m \in published : Deliver(i, m)
    BY <2>1 DEF Next, vars, ClientPublish
  <2>3. m.body \in Body /\ Handle(i, m.body) /\ m.body.round \in Round
    BY <2>2 DEF Deliver, NodeRoundsInv, NodeRoundsTypeOK, Body
  <2>4. CASE m.body.type = "proposal" /\ HandleProposal(i, m.body.round)
    <3>1. i = n /\ m.body.round = r
      BY <2>1, <2>3, <2>4 DEF HandleProposal, NodeRoundsInv, NodeRoundsTypeOK
    <3>2. m.body = [type |-> "proposal", round |-> r, peer |-> NoPeer]
      BY <2>3, <2>4, <3>1 DEF Body, PeerTypes
    <3>3. m \in Received(n, "proposal", r, NoPeer)'
      BY <2>2, <3>1, <3>2, DeliveredNew DEF NodeRoundsInv
    <3> QED  BY <3>3
  <2>5. CASE ~ (m.body.type = "proposal" /\ HandleProposal(i, m.body.round))
    <3>1. ASSUME NEW phase, SetPhase(i, m.body.round, phase), Known(i, m.body.round)
          PROVE  rounds'[n][r].phase = "none"
      BY <2>1, <2>3, <3>1 DEF SetPhase, Known, NodeRoundsInv, NodeRoundsTypeOK
    <3>2. ASSUME rounds[i][m.body.round].phase \in {"proposed", "joining"},
                 Joined(i, m.body.round, m.body.peer)
          PROVE  rounds'[n][r].phase = "none"
      BY <2>1, <2>3, <3>2 DEF Joined, NodeRoundsInv, NodeRoundsTypeOK
    <3>3. ASSUME Submitted(i, m.body.round, m.body.peer)
          PROVE  rounds'[n][r].phase = "none"
      BY <2>1, <2>3, <3>3 DEF Submitted, NodeRoundsInv, NodeRoundsTypeOK
    <3> QED
      BY <2>1, <2>3, <2>5, <3>1, <3>2, <3>3
      DEF Handle, HandleJoin, HandlePhase, HandleAggregateComplete, HandleSubmit,
          HandleCheckpoint, HandleUnknown
  <2> QED  BY <2>4, <2>5
<1> QED  BY <1>1, <1>2

(* A scheduler announces a checkpoint handling aggregate_complete only.    *)
LEMMA AnnouncementsKept ==
  ASSUME NodeRoundsInv, NodeRoundsTypeOK', [Next]_vars
  PROVE  AnnouncedWhenFollowed'
<1>1. \A m \in published : (m.body.type = "checkpoint_available" =>
          \/ m.by = "client"
          \/ m.from \in Node /\ Followed(m.from, m.body.round)')
  BY FollowedGrows DEF NodeRoundsInv, AnnouncedWhenFollowed
<1>2. ASSUME NEW n, NEW by, NEW body, published' = published \cup {Published(n, by, body)},
             body.type = "checkpoint_available" =>
               by = "client" \/ (n \in Node /\ Followed(n, body.round)')
      PROVE  AnnouncedWhenFollowed'
  <2>1. LET new == Published(n, by, body) IN new.body = body /\ new.by = by /\ new.from = n
    BY DEF Published
  <2> QED
    BY <1>1, <1>2, <2>1 DEF AnnouncedWhenFollowed
<1>3. CASE published' = published
  BY <1>1, <1>3 DEF AnnouncedWhenFollowed
<1>4. ASSUME NEW n \in ApiNode, NEW body \in Body, ClientPublish(n, body)
      PROVE  AnnouncedWhenFollowed'
  BY <1>2, <1>4 DEF ClientPublish
<1>5. ASSUME NEW n \in Node, NEW m \in published, Deliver(n, m)
      PROVE  AnnouncedWhenFollowed'
  <2> DEFINE r == m.body.round
  <2>1. \/ published' = published
        \/ Publish(n, "aggregate_ready", r)
        \/ /\ m.body.type = "aggregate_complete" /\ Known(n, r)
           /\ Publish(n, "checkpoint_available", r)
    BY <1>5 DEF Deliver, Handle, HandleProposal, HandleJoin, HandlePhase,
         HandleAggregateComplete, HandleSubmit, HandleCheckpoint, HandleUnknown
  <2>2. m.body \in Body /\ r \in Round
    BY <1>5 DEF NodeRoundsInv, NodeRoundsTypeOK, Body
  <2>3. ASSUME m.body.type = "aggregate_complete", Known(n, r)
        PROVE  Followed(n, r)'
    <3>1. m.body = [type |-> "aggregate_complete", round |-> r, peer |-> NoPeer]
      BY <2>2, <2>3 DEF Body, PeerTypes
    <3>2. m \in Received(n, "aggregate_complete", r, NoPeer)'
      BY <1>5, <3>1, DeliveredNew DEF NodeRoundsInv
    <3>3. Received(n, "proposal", r, NoPeer) # {}
      BY <2>2, <2>3 DEF NodeRoundsInv, KnownFromProposal
    <3>4. Received(n, "proposal", r, NoPeer)' # {}
      BY <3>3, FollowedGrows DEF NodeRoundsInv
    <3> QED  BY <3>2, <3>4 DEF Followed
  <2> QED
    BY <1>2, <1>3, <2>1, <2>3 DEF Publish
<1> QED
  BY <1>3, <1>4, <1>5 DEF Next, vars

(* The table changes when a checkpoint is received, for participants.      *)
LEMMA EntryChanges ==
  ASSUME NodeRoundsInv, [Next]_vars, NEW n \in Node, NEW p \in Peer,
         rep'[n][p] # rep[n][p]
  PROVE  \E m \in published, r \in Round :
           /\ Deliver(n, m)
           /\ m.body = [type |-> "checkpoint_available", round |-> r, peer |-> NoPeer]
           /\ Known(n, r)
           /\ LET k == Copies(rounds[n][r].participants, p) IN
              /\ k \in Nat
              /\ k <= Cardinality(Received(n, "join", r, p))
              /\ rep'[n][p].completed = rep[n][p].completed + k
              /\ \/ rep'[n][p].failed = rep[n][p].failed
                 \/ rep'[n][p].failed = rep[n][p].failed + k
<1>1. PICK i \in Node, m \in published : Deliver(i, m)
  BY DEF Next, vars, ClientPublish
<1>2. m.body \in Body /\ Handle(i, m.body) /\ rep \in [Node -> [Peer -> Entry]]
  BY <1>1 DEF Deliver, NodeRoundsInv, NodeRoundsTypeOK
<1> DEFINE r == m.body.round
<1>3. /\ m.body = [type |-> "checkpoint_available", round |-> r, peer |-> NoPeer]
      /\ Known(i, r)
      /\ rep' = [rep EXCEPT ![i] = Rewards(rounds[i][r], @)]
  BY <1>2, RepHandled DEF NodeRoundsInv
<1>4. i = n /\ rep'[n][p] = Rewards(rounds[n][r], rep[n])[p]
  BY <1>2, <1>3
<1>5. r \in Round
  BY <1>2 DEF Body
<1>6. rounds[n][r] \in RoundRecord /\ rep[n] \in [Peer -> Entry]
  BY <1>5 DEF NodeRoundsInv, NodeRoundsTypeOK
<1>7. Copies(rounds[n][r].participants, p) <= Cardinality(Received(n, "join", r, p))
  BY <1>5 DEF NodeRoundsInv, ParticipantsJoined
<1> HIDE DEF r
<1> QED
  BY <1>1, <1>3, <1>4, <1>5, <1>6, <1>7, RewardsType

(* A peer is credited for a round it joined, once it is announced.         *)
LEMMA RewardNeedsAnnouncementKept ==
  ASSUME NodeRoundsInv, NodeRoundsTypeOK', [Next]_vars
  PROVE  RewardNeedsAnnouncement'
<1> SUFFICES ASSUME NEW n \in Node, NEW p \in Peer, rep'[n][p].completed > 0
             PROVE  \E r \in Round : /\ Received(n, "proposal", r, NoPeer)' # {}
                                     /\ Received(n, "join", r, p)' # {}
                                     /\ Announced(n, r)'
  BY DEF RewardNeedsAnnouncement
<1>1. \A r, type, q : Received(n, type, r, q) \subseteq Received(n, type, r, q)'
  BY FollowedGrows DEF NodeRoundsInv
<1>2. \A i \in Node : \A r : Followed(i, r) => Followed(i, r)'
  BY FollowedGrows DEF NodeRoundsInv
<1>3. CASE rep[n][p].completed > 0
  <2>1. PICK r \in Round : /\ Received(n, "proposal", r, NoPeer) # {}
                           /\ Received(n, "join", r, p) # {}
                           /\ Announced(n, r)
    BY <1>3 DEF NodeRoundsInv, RewardNeedsAnnouncement
  <2>2. Announced(n, r)'
    BY <1>1, <1>2, <2>1 DEF Announced
  <2> QED
    BY <1>1, <2>1, <2>2
<1>4. CASE ~ (rep[n][p].completed > 0)
  <2>1. PICK m \in published, r \in Round :
           /\ Deliver(n, m)
           /\ m.body = [type |-> "checkpoint_available", round |-> r, peer |-> NoPeer]
           /\ Known(n, r)
           /\ Copies(rounds[n][r].participants, p) \in Nat
           /\ Copies(rounds[n][r].participants, p) <= Cardinality(Received(n, "join", r, p))
           /\ rep'[n][p].completed
                = rep[n][p].completed + Copies(rounds[n][r].participants, p)
    BY <1>4, EntryChanges
  <2>2. rep[n][p].completed = 0
    BY <1>4 DEF NodeRoundsInv, NodeRoundsTypeOK, Entry
  <2>3. Cardinality(Received(n, "join", r, p)) # 0
    <3>1. Cardinality(Received(n, "join", r, p)) \in Nat
      BY DeliveredGrow, ReceivedGrow DEF NodeRoundsInv
    <3> QED  BY <2>1, <2>2, <3>1
  <2>4. Received(n, "join", r, p) # {}
    BY <2>3, FS_EmptySet
  <2>5. Received(n, "proposal", r, NoPeer) # {}
    BY <2>1 DEF NodeRoundsInv, KnownFromProposal
  <2>6. m \in Received(n, "checkpoint_available", r, NoPeer)'
    BY <2>1, DeliveredNew DEF NodeRoundsInv
  <2>7. m.by = "client" \/ (m.from \in Node /\ Followed(m.from, r))
    BY <2>1 DEF NodeRoundsInv, AnnouncedWhenFollowed
  <2>8. Announced(n, r)'
    BY <1>2, <2>6, <2>7 DEF Announced
  <2> QED
    BY <1>1, <2>4, <2>5, <2>8
<1> QED
  BY <1>3, <1>4

LEMMA UnionsGrow ==
  ASSUME NodeRoundsTypeOK, NEW n \in Node, delivered[n] \subseteq delivered'[n],
         IsFiniteSet(delivered'[n]), NEW p
  PROVE  /\ Cardinality(JoinsOf(n, p)) \in Nat /\ Cardinality(JoinsOf(n, p)') \in Nat
         /\ Cardinality(JoinsOf(n, p)) <= Cardinality(JoinsOf(n, p)')
         /\ Cardinality(CheckpointsOf(n)) \in Nat /\ Cardinality(CheckpointsOf(n)') \in Nat
         /\ Cardinality(CheckpointsOf(n)) <= Cardinality(CheckpointsOf(n)')
         /\ \A r \in Round : Cardinality(Received(n, "join", r, p)) <= Cardinality(JoinsOf(n, p))
<1>1. /\ JoinsOf(n, p) \subseteq JoinsOf(n, p)' /\ JoinsOf(n, p)' \subseteq delivered'[n]
      /\ CheckpointsOf(n) \subseteq CheckpointsOf(n)' /\ CheckpointsOf(n)' \subseteq delivered'[n]
      /\ \A r \in Round : Received(n, "join", r, p) \subseteq JoinsOf(n, p)
  <2>1. \A type, r, q : /\ Received(n, type, r, q) \subseteq Received(n, type, r, q)'
                       /\ Received(n, type, r, q)' \subseteq delivered'[n]
    BY DEF Received
  <2>2. JoinsOf(n, p) \subseteq JoinsOf(n, p)' /\ JoinsOf(n, p)' \subseteq delivered'[n]
    BY <2>1 DEF JoinsOf
  <2>3. CheckpointsOf(n) \subseteq CheckpointsOf(n)' /\ CheckpointsOf(n)' \subseteq delivered'[n]
    BY <2>1 DEF CheckpointsOf
  <2>4. \A r \in Round : Received(n, "join", r, p) \subseteq JoinsOf(n, p)
    BY DEF JoinsOf
  <2> QED
    BY <2>2, <2>3, <2>4
<1>2. IsFiniteSet(JoinsOf(n, p)') /\ IsFiniteSet(CheckpointsOf(n)')
  BY <1>1, FS_Subset
<1>3. IsFiniteSet(JoinsOf(n, p))
  BY <1>1, <1>2, Larger
<1> QED
  BY <1>1, <1>2, <1>3, Larger

LEMMA CheckpointsNew ==
  ASSUME NodeRoundsTypeOK, NodeRoundsTypeOK', NEW n \in Node, NEW m \in published,
         Deliver(n, m), NEW r \in Round,
         m.body = [type |-> "checkpoint_available", round |-> r, peer |-> NoPeer]
  PROVE  Cardinality(CheckpointsOf(n)') = Cardinality(CheckpointsOf(n)) + 1
<1>1. /\ m \notin delivered[n] /\ delivered'[n] = delivered[n] \cup {m}
      /\ delivered[n] \subseteq published
  BY DEF Deliver, NodeRoundsTypeOK
<1>2. m \notin CheckpointsOf(n) /\ CheckpointsOf(n) \subseteq published
  BY <1>1 DEF CheckpointsOf, Received
<1>3. CheckpointsOf(n)' = CheckpointsOf(n) \cup {m}
  <2>1. \A x \in Round : Received(n, "checkpoint_available", x, NoPeer)'
                          = Received(n, "checkpoint_available", x, NoPeer)
                              \cup (IF x = r THEN {m} ELSE {})
    BY <1>1 DEF Received
  <2> QED
    BY <2>1 DEF CheckpointsOf
<1>4. IsFiniteSet(CheckpointsOf(n))
  BY <1>2, FS_Subset DEF NodeRoundsTypeOK
<1> QED
  BY <1>2, <1>3, <1>4, FS_AddElement

LEMMA RewardsBoundedKept ==
  ASSUME NodeRoundsInv, NodeRoundsTypeOK', [Next]_vars
  PROVE  RewardsBounded'
<1> SUFFICES ASSUME NEW n \in Node, NEW p \in Peer
             PROVE  /\ rep'[n][p].failed <= rep'[n][p].completed
                    /\ rep'[n][p].completed
                         <= Cardinality(JoinsOf(n, p)') * Cardinality(CheckpointsOf(n)')
  BY DEF RewardsBounded, JoinsOf, CheckpointsOf
<1> DEFINE J == Cardinality(JoinsOf(n, p))  C == Cardinality(CheckpointsOf(n))
           J1 == Cardinality(JoinsOf(n, p)')  C1 == Cardinality(CheckpointsOf(n)')
<1>1. /\ J \in Nat /\ J1 \in Nat /\ J <= J1
      /\ C \in Nat /\ C1 \in Nat /\ C <= C1
      /\ \A r \in Round : Cardinality(Received(n, "join", r, p)) <= J
  BY DeliveredGrow, UnionsGrow DEF NodeRoundsInv
<1>2. rep[n][p].failed <= rep[n][p].completed /\ rep[n][p].completed <= J * C
  BY DEF NodeRoundsInv, RewardsBounded, JoinsOf, CheckpointsOf
<1>3. /\ rep[n][p].failed \in Nat /\ rep[n][p].completed \in Nat
  BY DEF NodeRoundsInv, NodeRoundsTypeOK, Entry
<1>4. CASE rep'[n][p] = rep[n][p]
  <2>1. J * C <= J1 * C1 /\ J * C \in Nat /\ J1 * C1 \in Nat
    <3> HIDE DEF J, C, J1, C1
    <3> QED  BY <1>1, ProductGrows
  <2> HIDE DEF J, C, J1, C1
  <2>2. rep'[n][p].completed <= J1 * C1
    BY <1>2, <1>3, <1>4, <2>1
  <2> QED
    BY <1>2, <1>4, <2>2 DEF J, C, J1, C1
<1>5. CASE rep'[n][p] # rep[n][p]
  <2>1. PICK m \in published, r \in Round :
           /\ Deliver(n, m)
           /\ m.body = [type |-> "checkpoint_available", round |-> r, peer |-> NoPeer]
           /\ LET k == Copies(rounds[n][r].participants, p) IN
              /\ k \in Nat
              /\ k <= Cardinality(Received(n, "join", r, p))
              /\ rep'[n][p].completed = rep[n][p].completed + k
              /\ \/ rep'[n][p].failed = rep[n][p].failed
                 \/ rep'[n][p].failed = rep[n][p].failed + k
    BY <1>5, EntryChanges
  <2> DEFINE k == Copies(rounds[n][r].participants, p)
  <2>2. C1 = C + 1
    BY <2>1, CheckpointsNew DEF NodeRoundsInv
  <2>3. k <= J /\ k \in Nat
    <3>1. Cardinality(Received(n, "join", r, p)) \in Nat
      BY DeliveredGrow, ReceivedGrow DEF NodeRoundsInv
    <3> QED  BY <1>1, <2>1, <3>1
  <2>4. J * C1 <= J1 * C1 /\ J * (C + 1) = J * C + J /\ J * C \in Nat /\ J1 * C1 \in Nat
    <3> HIDE DEF J, C, J1, C1
    <3>1. J * C1 <= J1 * C1 /\ J1 * C1 \in Nat
      BY <1>1, ProductGrows
    <3>2. J * (C + 1) = J * C + J /\ J * C \in Nat
      BY <1>1, ProductGrows
    <3> QED  BY <3>1, <3>2
  <2>5. rep'[n][p].completed = rep[n][p].completed + k
    BY <2>1
  <2>6. rep'[n][p].failed <= rep'[n][p].completed
    BY <1>2, <1>3, <2>1
  <2> HIDE DEF J, C, J1, C1, k
  <2>7. rep'[n][p].completed <= J1 * C1
    BY <1>1, <1>2, <1>3, <2>2, <2>3, <2>4, <2>5
  <2> QED
    BY <2>6, <2>7 DEF J, C, J1, C1
<1> QED
  BY <1>4, <1>5

-----------------------------------------------------------------------------
LEMMA NodeRoundsStarts == ASSUME Init  PROVE NodeRoundsInv
<1>1. NodeRoundsTypeOK
  BY FS_EmptySet DEF Init, NodeRoundsTypeOK, NoRound, RoundRecord, Entry, RoundPhase
<1>2. \A n \in Node, r \in Round : \A p : Received(n, "join", r, p) = {}
  BY DEF Init, Received
<1>3. ParticipantsJoined
  <2>1. \A n \in Node, r \in Round : rounds[n][r].participants = << >>
    BY DEF Init, NoRound
  <2>2. \A p : Copies(<< >>, p) <= 0
    BY CopiesEmpty
  <2> QED
    BY <1>2, <2>1, <2>2, FS_EmptySet DEF ParticipantsJoined
<1>4. KnownFromProposal /\ AnnouncedWhenFollowed /\ RewardNeedsAnnouncement
  <2>1. \A n \in Node, r \in Round : ~ Known(n, r)
    BY DEF Init, NoRound, Known
  <2> QED
    BY <2>1 DEF Init, KnownFromProposal, AnnouncedWhenFollowed, RewardNeedsAnnouncement
<1>5. RewardsBounded
  <2> SUFFICES ASSUME NEW n \in Node, NEW p \in Peer
               PROVE  0 <= Cardinality(JoinsOf(n, p)) * Cardinality(CheckpointsOf(n))
    BY DEF RewardsBounded, Init, JoinsOf, CheckpointsOf
  <2>1. JoinsOf(n, p) = {} /\ CheckpointsOf(n) = {}
    BY DEF Init, JoinsOf, CheckpointsOf, Received
  <2> QED
    BY <2>1, FS_EmptySet
<1> QED
  BY <1>1, <1>3, <1>4, <1>5 DEF NodeRoundsInv

(* Whatever the nodes, clients, rounds and peers, and however gossip       *)
(* orders, delays or drops messages, the inductive invariant of the        *)
(* schedulers holds.                                                       *)
THEOREM NodeRoundsSafety == Spec => []NodeRoundsInv
<1>1. Init => NodeRoundsInv
  BY NodeRoundsStarts
<1>2. NodeRoundsInv /\ [Next]_vars => NodeRoundsInv'
  <2> SUFFICES ASSUME NodeRoundsInv, [Next]_vars  PROVE NodeRoundsInv'
    OBVIOUS
  <2>1. NodeRoundsTypeOK'
    BY TypesKept DEF NodeRoundsInv
  <2>2. ParticipantsJoined'
    BY <2>1, ParticipantsKept
  <2>3. KnownFromProposal' /\ AnnouncedWhenFollowed'
    BY <2>1, KnownKept, AnnouncementsKept
  <2>4. RewardNeedsAnnouncement' /\ RewardsBounded'
    BY <2>1, RewardNeedsAnnouncementKept, RewardsBoundedKept
  <2> QED
    BY <2>1, <2>2, <2>3, <2>4 DEF NodeRoundsInv
<1> QED
  BY <1>1, <1>2, PTL DEF Spec

(* A node credits a peer only for a round it knows, the peer asked to join *)
(* and a client, or a node that followed the round to its aggregation,     *)
(* announced: whatever clients publish, a scheduler announces no more.     *)
THEOREM CreditNeedsAnnouncement == Spec => []RewardNeedsAnnouncement
<1>1. NodeRoundsInv => RewardNeedsAnnouncement
  BY DEF NodeRoundsInv
<1> QED
  BY <1>1, NodeRoundsSafety, PTL

(* The credit of a peer is bounded by its joins and the announcements      *)
(* received, and it is never charged more often than credited.             *)
THEOREM CreditIsBounded == Spec => []RewardsBounded
<1>1. NodeRoundsInv => RewardsBounded
  BY DEF NodeRoundsInv
<1> QED
  BY <1>1, NodeRoundsSafety, PTL

(* Joins that arrive once a round computes change neither its quorum nor   *)
(* who is rewarded.                                                        *)
THEOREM LateJoinsIgnored == Spec => LateJoinersStayOut
<1> DEFINE A == \A n \in Node, r \in Round :
                  rounds[n][r].phase \notin {"none", "proposed", "joining"} =>
                    \/ rounds'[n][r].participants = rounds[n][r].participants
                    \/ rounds'[n][r] = NewRound
<1>1. NodeRoundsInv /\ [Next]_vars => [A]_vars
  <2> SUFFICES ASSUME NodeRoundsInv, Next, NEW n \in Node, NEW r \in Round,
                      rounds[n][r].phase \notin {"none", "proposed", "joining"}
               PROVE  \/ rounds'[n][r].participants = rounds[n][r].participants
                      \/ rounds'[n][r] = NewRound
    BY Zenon
  <2>1. CASE rounds' = rounds
    BY <2>1
  <2>2. ASSUME rounds' # rounds, NEW i \in Node, NEW m \in published, Deliver(i, m)
        PROVE  \/ rounds'[n][r].participants = rounds[n][r].participants
               \/ rounds'[n][r] = NewRound
    <3>1. m.body \in Body /\ Handle(i, m.body) /\ rounds \in [Node -> [Round -> RoundRecord]]
      BY <2>2 DEF Deliver, NodeRoundsInv, NodeRoundsTypeOK
    <3>2. PICK e \in RoundRecord :
            /\ rounds' = [rounds EXCEPT ![i] = [@ EXCEPT ![m.body.round] = e]]
            /\ \/ e = NewRound
               \/ e.participants = rounds[i][m.body.round].participants
               \/ rounds[i][m.body.round].phase \in {"proposed", "joining"}
      <4>1. NodeRoundsTypeOK
        BY DEF NodeRoundsInv
      <4> QED
        BY <2>2, <3>1, <4>1, RoundsHandled
    <3>3. CASE i = n /\ m.body.round = r
      BY <3>1, <3>2, <3>3
    <3>4. CASE ~ (i = n /\ m.body.round = r)
      BY <3>1, <3>2, <3>4
    <3> QED
      BY <3>3, <3>4
  <2> QED
    BY <2>1, <2>2 DEF Next, ClientPublish
<1> QED
  BY <1>1, NodeRoundsSafety, PTL DEF Spec, LateJoinersStayOut

=============================================================================
