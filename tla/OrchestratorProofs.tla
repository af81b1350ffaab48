-------------------------- MODULE OrchestratorProofs --------------------------
(***************************************************************************)
(* What one round promises for every set of peers and every quorum, and    *)
(* what the rounds of one orchestrator promise for any gradients,          *)
(* aggregation methods and thresholds and any number of rounds. The        *)
(* theorems about Spec, the coordinator alone, use none of the assumptions *)
(* of Orchestrator; the coordinator of each of its rounds keeps the same   *)
(* promises, and the reputation records keep theirs across rounds.         *)
(***************************************************************************)
EXTENDS Orchestrator, ListProofs

-----------------------------------------------------------------------------
(* A smaller set of active peers never needs a larger quorum.               *)
LEMMA QuorumMonotone ==
  ASSUME NEW m \in Nat, NEW n \in Nat, m <= n
  PROVE  Quorum(m) \in Nat /\ Quorum(n) \in Nat /\ Quorum(m) <= Quorum(n)
<1>1. QuorumPct \in Nat
  BY RoundAssumption
<1>2. m * QuorumPct \in Nat /\ n * QuorumPct \in Nat /\ m * QuorumPct <= n * QuorumPct
  BY <1>1, SMT
<1>3. \A a, b \in Nat : a <= b => a \div 100 \in Nat /\ b \div 100 \in Nat
                                  /\ a \div 100 <= b \div 100
  BY SMT
<1> QED
  BY <1>2, <1>3 DEF Quorum

(* Sets of peers are finite, and taking peers away lowers the quorum.       *)
LEMMA ShrinkingActive ==
  ASSUME NEW S \in SUBSET Peer, NEW T \in SUBSET S
  PROVE  /\ Cardinality(S) \in Nat /\ Cardinality(T) \in Nat
         /\ Quorum(Cardinality(T)) \in Nat /\ Quorum(Cardinality(S)) \in Nat
         /\ Quorum(Cardinality(T)) <= Quorum(Cardinality(S))
<1>1. IsFiniteSet(Peer)
  BY RoundAssumption
<1>2. IsFiniteSet(S)
  BY <1>1, FS_Subset
<1>3. IsFiniteSet(T) /\ Cardinality(T) <= Cardinality(S)
  BY <1>2, FS_Subset
<1>4. Cardinality(S) \in Nat /\ Cardinality(T) \in Nat
  BY <1>2, <1>3, FS_CardinalityType
<1> QED
  BY <1>3, <1>4, QuorumMonotone

-----------------------------------------------------------------------------
(* Types and stored gradients are preserved together: the aggregate that    *)
(* finalize builds is well typed because every submitter stored a gradient. *)
LEMMA TypeStep == TypeOK /\ GradientsBacked /\ [Next]_vars => TypeOK' /\ GradientsBacked'
<1> SUFFICES ASSUME TypeOK, GradientsBacked, [Next]_vars
             PROVE  TypeOK' /\ GradientsBacked'
  OBVIOUS
<1> USE DEF TypeOK, Phase, GradientsBacked
<1>1. ASSUME NEW p \in Peer, RegisterPeer(p) PROVE TypeOK' /\ GradientsBacked'
  BY <1>1 DEF RegisterPeer
<1>2. CASE CloseRegistration
  BY <1>2 DEF CloseRegistration
<1>3. ASSUME NEW p \in Peer, MarkDropout(p) PROVE TypeOK' /\ GradientsBacked'
  BY <1>3 DEF MarkDropout
<1>4. ASSUME NEW p \in Peer, NEW g \in Grad, NEW r \in Root \cup {NoRoot},
             SubmitGradient(p, g, r)
      PROVE  TypeOK' /\ GradientsBacked'
  BY <1>4 DEF SubmitGradient, Submit
<1>5. CASE DeadlinePasses
  BY <1>5 DEF DeadlinePasses
<1>6. CASE CheckDeadline
  BY <1>6 DEF CheckDeadline
<1>7. CASE Finalize
  <2>1. \/ result' = result
        \/ result' = [p \in submitted \ dropped |-> grads[p]]
    BY <1>7 DEF Finalize
  <2>2. submitted \ dropped \in SUBSET Peer
    OBVIOUS
  <2>3. [p \in submitted \ dropped |-> grads[p]] \in [submitted \ dropped -> Grad]
    OBVIOUS
  <2>4. result' = NoResult \/ \E S \in SUBSET Peer : result' \in [S -> Grad]
    BY <2>1, <2>2, <2>3
  <2> QED
    BY <1>7, <2>4 DEF Finalize
<1>8. CASE VerifyConsistency
  BY <1>8 DEF VerifyConsistency
<1>9. CASE UNCHANGED vars
  BY <1>9 DEF vars
<1> QED
  BY <1>1, <1>2, <1>3, <1>4, <1>5, <1>6, <1>7, <1>8, <1>9 DEF Next

(* The cluster topology stays that of the frozen membership.                *)
LEMMA TopologyStep ==
  TypeOK /\ TopologyMatchesMembers /\ [Next]_vars => TopologyMatchesMembers'
<1> SUFFICES ASSUME TypeOK, TopologyMatchesMembers, [Next]_vars
             PROVE  TopologyMatchesMembers'
  OBVIOUS
<1> USE DEF TypeOK, TopologyMatchesMembers
<1>1. ASSUME NEW p \in Peer, RegisterPeer(p) PROVE TopologyMatchesMembers'
  BY <1>1 DEF RegisterPeer
<1>2. CASE CloseRegistration
  <2>1. Cardinality(peers) \in Nat /\ MinPeers \in Nat
    BY ShrinkingActive, RoundAssumption
  <2> QED
    BY <1>2, <2>1 DEF CloseRegistration
<1>3. ASSUME NEW p \in Peer, MarkDropout(p) PROVE TopologyMatchesMembers'
  BY <1>3 DEF MarkDropout
<1>4. ASSUME NEW p \in Peer, NEW g \in Grad, NEW r \in Root \cup {NoRoot},
             SubmitGradient(p, g, r)
      PROVE  TopologyMatchesMembers'
  BY <1>4 DEF SubmitGradient, Submit
<1>5. CASE DeadlinePasses \/ CheckDeadline \/ Finalize \/ VerifyConsistency
  BY <1>5 DEF DeadlinePasses, CheckDeadline, Finalize, VerifyConsistency
<1>6. CASE UNCHANGED vars
  BY <1>6 DEF vars
<1> QED
  BY <1>1, <1>2, <1>3, <1>4, <1>5, <1>6 DEF Next

(* A result awaiting verification stays current and backed by its quorum.    *)
LEMMA ResultStep ==
  TypeOK /\ GradientsBacked /\ ResultIsCurrent /\ [Next]_vars => ResultIsCurrent'
<1> SUFFICES ASSUME TypeOK, GradientsBacked, ResultIsCurrent, [Next]_vars, phase' = "VERIFYING"
             PROVE  /\ result' # NoResult
                    /\ submitted' \ dropped' \subseteq DOMAIN result'
                    /\ DOMAIN result' \subseteq submitted'
                    /\ \A p \in DOMAIN result' : result'[p] = grads'[p]
                    /\ Cardinality(submitted') >= MinPeers
                    /\ Cardinality(submitted') >= Quorum(Cardinality(active'))
  BY DEF ResultIsCurrent, active
<1>a. Cardinality(submitted) \in Nat /\ MinPeers \in Nat
  <2>1. submitted \in SUBSET Peer
    BY DEF TypeOK
  <2> QED
    BY <2>1, ShrinkingActive, RoundAssumption
<1>1. CASE Finalize
  <2>1. /\ CanFinalize
        /\ result' = [p \in submitted \ dropped |-> grads[p]]
        /\ UNCHANGED <<peers, submitted, dropped, grads>>
    BY <1>1 DEF Finalize
  <2>3. result' # NoResult
    <3>1. submitted \ dropped \in SUBSET Peer
      BY DEF TypeOK
    <3>2. \A S \in SUBSET Peer : NoResult \notin [S -> Grad]
      BY RoundAssumption
    <3>3. result' \in [submitted \ dropped -> Grad]
      BY <2>1 DEF GradientsBacked
    <3> QED
      BY <3>1, <3>2, <3>3
  <2> QED
    BY <2>1, <2>3 DEF CanFinalize, active
<1>2. CASE \/ \E p \in Peer : MarkDropout(p)
           \/ CheckDeadline
  <2>1. /\ phase = "VERIFYING"
        /\ dropped \subseteq dropped'
        /\ UNCHANGED <<peers, submitted, grads, result>>
    BY <1>2 DEF MarkDropout, CheckDeadline
  <2>2. active' \in SUBSET active /\ active \in SUBSET Peer
    BY <2>1 DEF active, TypeOK
  <2>3. /\ Quorum(Cardinality(active')) \in Nat
        /\ Quorum(Cardinality(active)) \in Nat
        /\ Quorum(Cardinality(active')) <= Quorum(Cardinality(active))
    BY <2>2, ShrinkingActive
  <2>4. Cardinality(submitted') >= Quorum(Cardinality(active'))
    BY <1>a, <2>1, <2>3 DEF ResultIsCurrent
  <2> QED
    BY <2>1, <2>4 DEF ResultIsCurrent
<1>3. CASE DeadlinePasses \/ UNCHANGED vars
  BY <1>3 DEF DeadlinePasses, vars, ResultIsCurrent, active
<1>4. CASE \/ \E p \in Peer : RegisterPeer(p)
           \/ CloseRegistration
           \/ \E p \in Peer, g \in Grad, r \in Root \cup {NoRoot} :
                SubmitGradient(p, g, r)
           \/ VerifyConsistency
  BY <1>4 DEF RegisterPeer, CloseRegistration, SubmitGradient, Submit,
                VerifyConsistency
<1> QED
  BY <1>1, <1>2, <1>3, <1>4 DEF Next

LEMMA RoundStarts == Init => RoundInv
BY DEF Init, RoundInv, TypeOK, Phase, GradientsBacked, TopologyMatchesMembers,
       ResultIsCurrent

LEMMA RoundStep == RoundInv /\ [Next]_vars => RoundInv'
BY TypeStep, TopologyStep, ResultStep DEF RoundInv


-----------------------------------------------------------------------------
(* The round's safety: types, stored gradients behind every submission, a    *)
(* topology equal to the frozen membership, and a VERIFYING round whose      *)
(* result is current and backed by a quorum.                                 *)
THEOREM RoundSafety == Spec => []RoundInv
BY RoundStarts, RoundStep, PTL DEF Spec

(* The topology names the peers that are registered and have not dropped.    *)
THEOREM TopologyAgrees == Spec => []TopologyMatchesMembers
<1>1. RoundInv => TopologyMatchesMembers
  BY DEF RoundInv
<1> QED
  BY <1>1, RoundSafety, PTL

(* A result that awaits verification is what the stored gradients give.      *)
THEOREM ResultsAreCurrent == Spec => []ResultIsCurrent
<1>1. RoundInv => ResultIsCurrent
  BY DEF RoundInv
<1> QED
  BY <1>1, RoundSafety, PTL

(* What a member of a closed round has submitted stays as it was submitted.  *)
THEOREM SubmissionsAreFinal == Spec => OneGradientPerPeer
<1>1. TypeOK /\ [Next]_vars =>
        [closed =>
           /\ \A p \in submitted : p \in submitted' /\ grads'[p] = grads[p]
           /\ \A e \in Root : Mismatched(e) \subseteq Mismatched(e)']_vars
  <2> SUFFICES ASSUME TypeOK, [Next]_vars, closed, NEW p \in submitted
               PROVE  p \in submitted' /\ grads'[p] = grads[p] /\ root'[p] = root[p]
    BY DEF Mismatched
  <2>1. p \in Peer
    BY DEF TypeOK
  <2>2. CASE \E q \in Peer, g \in Grad, r \in Root \cup {NoRoot} :
               SubmitGradient(q, g, r)
    BY <2>1, <2>2 DEF SubmitGradient, Submit, TypeOK
  <2>3. CASE \/ \E q \in Peer : MarkDropout(q)
             \/ CloseRegistration \/ DeadlinePasses \/ CheckDeadline
             \/ Finalize \/ VerifyConsistency
    BY <2>1, <2>3 DEF MarkDropout, CloseRegistration, DeadlinePasses,
                      CheckDeadline, Finalize, VerifyConsistency
  <2>4. CASE \E q \in Peer : RegisterPeer(q)
    BY <2>4 DEF RegisterPeer
  <2>5. CASE UNCHANGED vars
    BY <2>5 DEF vars
  <2> QED
    BY <2>2, <2>3, <2>4, <2>5 DEF Next
<1>2. Spec => []TypeOK
  BY RoundSafety, PTL DEF RoundInv
<1> QED
  BY <1>1, <1>2, PTL DEF Spec, OneGradientPerPeer

(* After the sweep the contributors to a closed round can only become fewer. *)
THEOREM StragglersStayOut == Spec => SweptRoundIsFrozen
<1>1. TypeOK /\ [Next]_vars =>
        [closed /\ peers \subseteq submitted \cup dropped =>
           /\ grads' = grads
           /\ submitted' \ dropped' \subseteq submitted \ dropped]_vars
  <2> SUFFICES ASSUME TypeOK, [Next]_vars, closed,
                      peers \subseteq submitted \cup dropped
               PROVE  /\ grads' = grads
                      /\ submitted' \ dropped' \subseteq submitted \ dropped
    OBVIOUS
  <2>1. ~ \E q \in Peer : RegisterPeer(q)
    BY DEF RegisterPeer
  <2>2. ~ \E q \in Peer, g \in Grad, r \in Root \cup {NoRoot} :
            SubmitGradient(q, g, r)
    BY DEF SubmitGradient, Submit
  <2>3. CASE \/ \E q \in Peer : MarkDropout(q)
             \/ CloseRegistration \/ DeadlinePasses \/ CheckDeadline
             \/ Finalize \/ VerifyConsistency
    BY <2>3 DEF MarkDropout, CloseRegistration, DeadlinePasses,
                CheckDeadline, Finalize, VerifyConsistency
  <2>4. CASE UNCHANGED vars
    BY <2>4 DEF vars
  <2> QED
    BY <2>1, <2>2, <2>3, <2>4 DEF Next
<1>2. Spec => []TypeOK
  BY RoundSafety, PTL DEF RoundInv
<1> QED
  BY <1>1, <1>2, PTL DEF Spec, SweptRoundIsFrozen

-----------------------------------------------------------------------------
Where == {"idle", "register", "train", "submit", "apply", "checkpoint"}
Record == [score : 0..20, completed : Nat, dropped : Nat, byzantine : Nat, banned : BOOLEAN]

OrchestratorTypeOK ==
  /\ pc \in Where
  /\ next \in Nat \ {0}
  /\ \E S \in SUBSET Peer : given \in [S -> Grad]
  /\ round_count \in Nat
  /\ record \in [Peer -> Record]

(* The coordinator holds the peers not banned: those of the list gone      *)
(* through so far, and all of them once registration has closed.           *)
UnbannedRegistered ==
  /\ pc = "register" =>
       peers = {p \in Peer : /\ ~record[p].banned
                             /\ \E i \in 1..Len(Capacities) : i < next /\ Capacities[i] = p}
  /\ pc \in {"train", "submit", "apply"} =>
       peers = {p \in ToSet(Capacities) : ~record[p].banned}

(* What the coordinator stores are gradients given to this call, of listed  *)
(* peers none of which drops; a round that succeeds has all of them.        *)
GivenGradients ==
  /\ dropped = {} /\ peers \subseteq ToSet(Capacities)
  /\ submitted \subseteq DOMAIN given
  /\ \A p \in submitted : grads[p] = given[p]
  /\ pc = "submit" =>
       \A i \in 1..Len(Admitted) : i < next /\ Admitted[i] \in DOMAIN given
                                     => Admitted[i] \in submitted
  /\ pc \in {"apply", "checkpoint"} =>
       phase = "VERIFYING" /\ submitted = peers \cap DOMAIN given

(* What is in the weights is the aggregate of the round's gradients.        *)
AppliedUpdate ==
  pc = "checkpoint" =>
    \E method \in Methods :
      update = RobustAggregate(Gradients(SubmittedPeers), method, MaxByzantine)

OrchestratorInv ==
  /\ RoundInv /\ OrchestratorTypeOK /\ UnbannedRegistered /\ RecordedOncePerRound
  /\ GivenGradients /\ AppliedUpdate

-----------------------------------------------------------------------------
(* What is recorded of a peer in a round that succeeded.                   *)
LEMMA ExtremesOfTwo ==
  ASSUME NEW x \in Int, NEW y \in Int
  PROVE  /\ Max({x, y}) \in {x, y} /\ x <= Max({x, y}) /\ y <= Max({x, y})
         /\ Min({x, y}) \in {x, y} /\ Min({x, y}) <= x /\ Min({x, y}) <= y
<1>1. (\E u \in {x, y} : \A w \in {x, y} : u >= w) /\ (\E u \in {x, y} : \A w \in {x, y} : u =< w)
  OBVIOUS
<1>2. /\ Max({x, y}) \in {x, y} /\ \A w \in {x, y} : Max({x, y}) >= w
      /\ Min({x, y}) \in {x, y} /\ \A w \in {x, y} : Min({x, y}) =< w
  BY <1>1 DEF Max, Min
<1> HIDE DEF Max, Min
<1> QED
  BY <1>2

LEMMA ScoresKeepCounts ==
  ASSUME NEW r \in Record, NEW score \in 0..20, NEW r1 \in WithScore(r, score)
  PROVE  /\ r1 \in Record /\ r1.completed = r.completed /\ r1.dropped = r.dropped
         /\ r1.score = score
<1>1. PICK b \in Bans(score) : r1 = [r EXCEPT !.score = score, !.banned = @ \/ b]
  BY DEF WithScore
<1> QED
  BY <1>1 DEF Record

(* Nothing but a dropout or an outlying gradient lowers a score.           *)
LEMMA DropoutRecorded ==
  ASSUME NEW r \in Record, NEW r1 \in RecordDropout(r)
  PROVE  r1 \in Record /\ r1.completed + r1.dropped = r.completed + r.dropped + 1
<1> DEFINE r0 == [r EXCEPT !.dropped = @ + 1]
<1>1. r0 \in Record /\ r0.completed = r.completed /\ r0.dropped = r.dropped + 1
  BY DEF Record
<1>2. 0 \in Int /\ r.score - 2 \in Int /\ r.score \in 0..20
  BY DEF Record
<1>3. Max({0, r.score - 2}) \in 0..20
  <2> DEFINE m == Max({0, r.score - 2})
  <2>1. m \in {0, r.score - 2} /\ 0 <= m
    BY <1>2, ExtremesOfTwo
  <2> HIDE DEF m
  <2>2. m \in 0..20
    BY <1>2, <2>1
  <2> QED
    BY <2>2 DEF m
<1>4. r1 \in WithScore(r0, Max({0, r.score - 2}))
  BY DEF RecordDropout
<1> HIDE DEF r0
<1>5. r1.completed = r0.completed /\ r1.dropped = r0.dropped /\ r1 \in Record
  BY <1>1, <1>3, <1>4, ScoresKeepCounts
<1> QED
  BY <1>1, <1>5 DEF Record

LEMMA OutlierRecorded ==
  ASSUME NEW r \in Record, NEW r1 \in RecordOutlier(r)
  PROVE  r1 \in Record /\ r1.completed + r1.dropped = r.completed + r.dropped + 1
<1> DEFINE r0 == [r EXCEPT !.byzantine = @ + 1, !.completed = @ + 1]
           loss == IF r.byzantine + 1 >= 3 THEN 5 ELSE 3
<1>1. r0 \in Record /\ r0.completed = r.completed + 1 /\ r0.dropped = r.dropped
  <2> DEFINE q == [r EXCEPT !.byzantine = @ + 1]
  <2>1. q \in Record /\ q.completed = r.completed /\ q.dropped = r.dropped
    BY DEF Record
  <2>2. r0 = [q EXCEPT !.completed = r.completed + 1]
    BY Zenon
  <2> HIDE DEF q, r0
  <2> QED
    BY <2>1, <2>2 DEF Record
<1>2. 0 \in Int /\ r.score - loss \in Int /\ r.score - loss <= 20
  BY DEF Record
<1>3. Max({0, r.score - loss}) \in 0..20
  <2> DEFINE m == Max({0, r.score - loss})
  <2> HIDE DEF loss
  <2>1. m \in {0, r.score - loss} /\ 0 <= m
    BY <1>2, ExtremesOfTwo
  <2> HIDE DEF m
  <2>2. m \in 0..20
    BY <1>2, <2>1
  <2> QED
    BY <2>2 DEF m
<1>4. r1 \in WithScore(r0, Max({0, r.score - loss}))
  BY DEF RecordOutlier
<1> HIDE DEF r0, loss
<1>5. r1 \in Record /\ r1.completed = r0.completed /\ r1.dropped = r0.dropped
  BY <1>1, <1>3, <1>4, ScoresKeepCounts
<1> QED
  BY <1>1, <1>5 DEF Record

LEMMA CompletionRecorded ==
  ASSUME NEW r \in Record, NEW r1 \in RecordCompletion(r)
  PROVE  /\ r1 \in Record /\ r1.completed + r1.dropped = r.completed + r.dropped + 1
         /\ r.score <= r1.score
<1> DEFINE r0 == [r EXCEPT !.completed = @ + 1]
<1>1. r0 \in Record /\ r0.completed = r.completed + 1 /\ r0.dropped = r.dropped
  BY DEF Record
<1>2. 20 \in Int /\ r.score + 1 \in Int /\ r.score \in 0..20
  BY DEF Record
<1>3. Min({20, r.score + 1}) \in 0..20 /\ r.score <= Min({20, r.score + 1})
  <2> DEFINE m == Min({20, r.score + 1})
  <2>1. m \in {20, r.score + 1} /\ m <= 20
    BY <1>2, ExtremesOfTwo
  <2> HIDE DEF m
  <2>2. m \in 0..20 /\ r.score <= m
    BY <1>2, <2>1
  <2> QED
    BY <2>2 DEF m
<1>4. /\ r1 \in Record /\ r1.completed = r0.completed /\ r1.dropped = r0.dropped
      /\ r1.score = Min({20, r.score + 1})
  BY <1>1, <1>3, ScoresKeepCounts DEF RecordCompletion
<1> QED
  BY <1>1, <1>3, <1>4 DEF Record

(* A registered peer is on record once more, another one as before; a peer *)
(* that submitted a gradient that is no outlier loses nothing.             *)
LEMMA RecordedOnce ==
  ASSUME OrchestratorTypeOK, NEW p \in Peer, NEW outliers, NEW r1 \in Recorded(p, outliers)
  PROVE  /\ r1 \in Record
         /\ p \notin peers => r1 = record[p]
         /\ p \in peers => r1.completed + r1.dropped = record[p].completed + record[p].dropped + 1
         /\ p \in DOMAIN given /\ p \notin outliers => record[p].score <= r1.score
<1>1. record[p] \in Record
  BY DEF OrchestratorTypeOK
<1>2. CASE p \notin peers
  BY <1>1, <1>2 DEF Recorded, Record
<1>3. CASE p \in peers
  <2>1. \/ p \in outliers /\ r1 \in RecordOutlier(record[p])
        \/ r1 \in RecordCompletion(record[p])
        \/ p \notin DOMAIN given /\ r1 \in RecordDropout(record[p])
    BY <1>3 DEF Recorded
  <2> QED
    BY <1>1, <1>3, <2>1, DropoutRecorded, OutlierRecorded, CompletionRecorded
<1> QED
  BY <1>2, <1>3

-----------------------------------------------------------------------------
(* Every step but the beginning of a round is one of its coordinator, or   *)
(* leaves it alone.                                                        *)
LEMMA CoordinatorSteps ==
  ASSUME RoundInv, OrchestratorTypeOK, [OrchestratorNext]_allVars
  PROVE  Begin \/ [Next]_vars
<1>1. CASE RegisterAllowed
  <2>1. Capacities[next] \in Peer
    BY <1>1, OrchestratorAssumption DEF RegisterAllowed, OrchestratorTypeOK
  <2> QED
    BY <1>1, <2>1 DEF RegisterAllowed, Next, vars, roundVars
<1>2. CASE Close
  BY <1>2 DEF Close, Next
<1>3. CASE SubmitGiven
  <2> DEFINE p == Admitted[next]
  <2>1. CASE p \notin DOMAIN given
    BY <1>3, <2>1 DEF SubmitGiven, vars, roundVars
  <2>2. CASE p \in DOMAIN given
    <3>1. SubmitGradient(p, given[p], NoRoot)
      BY <1>3, <2>2 DEF SubmitGiven
    <3>2. p \in Peer
      BY <3>1 DEF SubmitGradient, RoundInv, TypeOK
    <3>3. given[p] \in Grad
      BY <2>2 DEF OrchestratorTypeOK
    <3> QED
      BY <3>1, <3>2, <3>3 DEF Next
  <2> QED
    BY <2>1, <2>2
<1>4. CASE Aggregate
  BY <1>4 DEF Aggregate, Next
<1>5. CASE TrainStep \/ Apply \/ Checkpoint \/ UNCHANGED allVars
  BY <1>5 DEF TrainStep, Apply, Checkpoint, allVars, vars, roundVars
<1> QED
  BY <1>1, <1>2, <1>3, <1>4, <1>5 DEF OrchestratorNext

LEMMA CoordinatorKept ==
  ASSUME RoundInv, OrchestratorTypeOK, [OrchestratorNext]_allVars
  PROVE  RoundInv'
<1>1. CASE Begin
  BY <1>1 DEF Begin, RoundInv, TypeOK, Phase, GradientsBacked, TopologyMatchesMembers,
              ResultIsCurrent
<1> QED
  BY <1>1, CoordinatorSteps, RoundStep

LEMMA OrchestratorTypeKept ==
  ASSUME RoundInv, OrchestratorTypeOK, [OrchestratorNext]_allVars
  PROVE  OrchestratorTypeOK'
<1> USE DEF Where, Goto, Return
<1>1. CASE Begin
  <2>1. \E S \in SUBSET Peer : given' \in [S -> Grad]
    <3>1. PICK S \in SUBSET Peer : given' \in [S -> HonestGrad \cup OtherGrad]
      BY <1>1 DEF Begin
    <3>2. HonestGrad \cup OtherGrad \subseteq Grad
      BY OrchestratorAssumption
    <3> QED
      BY <3>1, <3>2
  <2> QED
    BY <1>1, <2>1 DEF Begin, OrchestratorTypeOK
<1>2. CASE RegisterAllowed
  BY <1>2 DEF RegisterAllowed, OrchestratorTypeOK
<1>3. CASE Close
  BY <1>3 DEF Close, OrchestratorTypeOK
<1>4. CASE TrainStep
  BY <1>4 DEF TrainStep, OrchestratorTypeOK
<1>5. CASE SubmitGiven
  BY <1>5 DEF SubmitGiven, OrchestratorTypeOK
<1>6. CASE Aggregate
  BY <1>6 DEF Aggregate, OrchestratorTypeOK
<1>7. CASE Apply
  <2>1. record' \in [Peer -> Record]
    <3>1. PICK T : record' \in [Peer -> T] /\ \A p \in Peer : record'[p] \in Recorded(p, Outliers)
      BY <1>7 DEF Apply
    <3>2. \A p \in Peer : record'[p] \in Record
      BY <3>1, RecordedOnce
    <3> QED
      BY <3>1, <3>2
  <2> QED
    BY <1>7, <2>1 DEF Apply, OrchestratorTypeOK
<1>8. CASE Checkpoint
  BY <1>8 DEF Checkpoint, OrchestratorTypeOK
<1>9. CASE UNCHANGED allVars
  BY <1>9 DEF allVars, ownVars, OrchestratorTypeOK
<1> QED
  BY <1>1, <1>2, <1>3, <1>4, <1>5, <1>6, <1>7, <1>8, <1>9 DEF OrchestratorNext

LEMMA RegistrationKept ==
  ASSUME OrchestratorInv, [OrchestratorNext]_allVars
  PROVE  UnbannedRegistered'
<1> USE DEF Goto, Return, Where
<1>0. OrchestratorTypeOK /\ UnbannedRegistered /\ Capacities \in Seq(Peer)
  BY OrchestratorAssumption DEF OrchestratorInv
<1>1. CASE Begin
  BY <1>0, <1>1 DEF Begin, UnbannedRegistered
<1>2. CASE RegisterAllowed
  <2> DEFINE p == Capacities[next]
             seen(n) == {q \in Peer : /\ ~record[q].banned
                                      /\ \E i \in 1..Len(Capacities) : i < n /\ Capacities[i] = q}
  <2>1. /\ p \in Peer /\ next \in 1..Len(Capacities) /\ next' = next + 1
        /\ pc = "register" /\ pc' = pc /\ record' = record /\ peers = seen(next)
    BY <1>0, <1>2 DEF RegisterAllowed, OrchestratorTypeOK, UnbannedRegistered
  <2>2. \A i \in 1..Len(Capacities) : i < next + 1 <=> i < next \/ i = next
    BY <2>1
  <2>3. seen(next + 1) = IF record[p].banned THEN seen(next) ELSE seen(next) \cup {p}
    BY <2>1, <2>2
  <2>4. peers' = IF record[p].banned THEN peers ELSE peers \cup {p}
    BY <1>2 DEF RegisterAllowed, Allowed, RegisterPeer, roundVars
  <2>5. peers' = seen(next + 1)
    BY <2>1, <2>3, <2>4
  <2> QED
    BY <2>1, <2>5 DEF UnbannedRegistered
<1>3. CASE Close
  <2>1. /\ pc = "register" /\ ~ (next <= Len(Capacities)) /\ record' = record /\ peers' = peers
        /\ pc' \in {"train", "idle"}
    BY <1>3, <1>0 DEF Close, CloseRegistration, OrchestratorTypeOK
  <2>2. \A i \in 1..Len(Capacities) : i < next
    BY <1>0, <2>1 DEF OrchestratorTypeOK
  <2>3. \A q : q \in ToSet(Capacities) <=> \E i \in 1..Len(Capacities) : Capacities[i] = q
    BY <1>0 DEF ToSet
  <2>4. ToSet(Capacities) \subseteq Peer
    BY <1>0, <2>3
  <2>5. peers = {q \in ToSet(Capacities) : ~record[q].banned}
    BY <1>0, <2>1, <2>2, <2>3, <2>4 DEF UnbannedRegistered
  <2> QED
    BY <2>1, <2>5 DEF UnbannedRegistered
<1>4. CASE TrainStep
  BY <1>0, <1>4 DEF TrainStep, UnbannedRegistered, roundVars
<1>5. CASE SubmitGiven
  <2>1. peers' = peers
    BY <1>5 DEF SubmitGiven, SubmitGradient, Submit, roundVars
  <2> QED
    BY <1>0, <1>5, <2>1 DEF SubmitGiven, UnbannedRegistered
<1>6. CASE Aggregate
  <2>1. peers' = peers
    BY <1>6 DEF Aggregate, Finalize
  <2> QED
    BY <1>0, <1>6, <2>1 DEF Aggregate, UnbannedRegistered
<1>7. CASE Apply
  BY <1>7 DEF Apply, UnbannedRegistered
<1>8. CASE Checkpoint
  BY <1>8 DEF Checkpoint, UnbannedRegistered
<1>9. CASE UNCHANGED allVars
  BY <1>0, <1>9 DEF allVars, ownVars, roundVars, UnbannedRegistered
<1> QED
  BY <1>1, <1>2, <1>3, <1>4, <1>5, <1>6, <1>7, <1>8, <1>9 DEF OrchestratorNext

(* A step that judges the peers counts the round, any other does neither.  *)
LEMMA RecordsKept ==
  ASSUME OrchestratorInv, [OrchestratorNext]_allVars
  PROVE  RecordedOncePerRound'
<1>1. OrchestratorTypeOK /\ UnbannedRegistered /\ RecordedOncePerRound
  BY DEF OrchestratorInv
<1>2. ToSet(Capacities) \subseteq Peer
  BY OrchestratorAssumption DEF ToSet
<1>3. CASE record' = record /\ round_count' = round_count
  BY <1>1, <1>3 DEF RecordedOncePerRound
<1>4. CASE Apply
  <2> SUFFICES ASSUME NEW p \in ToSet(Capacities)
               PROVE  LET recorded == record'[p].completed + record'[p].dropped IN
                        IF record'[p].banned THEN recorded <= round_count'
                        ELSE recorded = round_count'
    BY DEF RecordedOncePerRound
  <2> DEFINE n == record[p].completed + record[p].dropped
             n1 == record'[p].completed + record'[p].dropped
  <2>1. p \in Peer /\ record[p] \in Record /\ round_count \in Nat /\ n \in Nat
    BY <1>1, <1>2 DEF OrchestratorTypeOK, Record
  <2>2. record'[p] \in Recorded(p, Outliers) /\ round_count' = round_count + 1 /\ pc = "apply"
    BY <1>4, <2>1 DEF Apply
  <2>3. p \in peers <=> ~record[p].banned
    BY <1>1, <2>2 DEF UnbannedRegistered
  <2>4. /\ p \notin peers => record'[p] = record[p]
        /\ p \in peers => n1 = n + 1
    BY <1>1, <2>1, <2>2, RecordedOnce
  <2>5. IF record[p].banned THEN n <= round_count ELSE n = round_count
    BY <1>1 DEF RecordedOncePerRound
  <2>6. CASE record[p].banned
    BY <2>1, <2>2, <2>3, <2>4, <2>5, <2>6
  <2>7. CASE ~record[p].banned
    <3>1. n1 = round_count'
      BY <2>1, <2>2, <2>3, <2>4, <2>5, <2>7
    <3> QED
      BY <2>1, <2>2, <3>1
  <2> QED
    BY <2>6, <2>7
<1>5. Apply \/ (record' = record /\ round_count' = round_count)
  BY DEF OrchestratorNext, Begin, RegisterAllowed, Close, TrainStep, SubmitGiven, Aggregate,
         Checkpoint, allVars, ownVars
<1> QED
  BY <1>3, <1>4, <1>5

(* The lists made of the peers of a round name each of them once.          *)
LEMMA PeersListed ==
  ASSUME OrchestratorTypeOK, peers \subseteq ToSet(Capacities)
  PROVE  /\ Admitted \in Seq(Peer) /\ IsInjective(Admitted) /\ ToSet(Admitted) = peers
         /\ SubmittedPeers \in Seq(Peer) /\ IsInjective(SubmittedPeers)
         /\ ToSet(SubmittedPeers) = peers \cap DOMAIN given
<1>1. Capacities \in Seq(Peer) /\ IsInjective(Capacities)
  BY OrchestratorAssumption
<1>2. /\ Admitted \in Seq(Peer) /\ IsInjective(Admitted)
      /\ ToSet(Admitted) = ToSet(Capacities) \cap peers
  BY <1>1, SelectedList DEF Admitted
<1>3. /\ SubmittedPeers \in Seq(Peer) /\ IsInjective(SubmittedPeers)
      /\ ToSet(SubmittedPeers) = ToSet(Admitted) \cap DOMAIN given
  BY <1>2, SelectedList DEF SubmittedPeers
<1> QED
  BY <1>2, <1>3

LEMMA GivenKept ==
  ASSUME OrchestratorInv, [OrchestratorNext]_allVars
  PROVE  GivenGradients'
<1> USE DEF Goto, Return
<1>0. /\ RoundInv /\ TypeOK /\ GradientsBacked /\ OrchestratorTypeOK /\ GivenGradients
      /\ Capacities \in Seq(Peer)
  BY OrchestratorAssumption DEF OrchestratorInv, RoundInv
<1>1. CASE Begin
  BY <1>1 DEF Begin, GivenGradients
<1>2. CASE RegisterAllowed
  <2>1. /\ peers' \subseteq peers \cup {Capacities[next]} /\ submitted' \subseteq submitted
        /\ dropped' = {} /\ grads' = grads /\ given' = given /\ pc' = "register"
    BY <1>0, <1>2 DEF RegisterAllowed, RegisterPeer, roundVars, GivenGradients
  <2>2. Capacities[next] \in ToSet(Capacities)
    BY <1>0, <1>2 DEF RegisterAllowed, OrchestratorTypeOK, ToSet
  <2> QED
    BY <1>0, <2>1, <2>2 DEF GivenGradients
<1>3. CASE Close
  <2>1. pc' \in {"train", "idle"} /\ UNCHANGED <<peers, submitted, dropped, grads, given>>
    BY <1>3 DEF Close, CloseRegistration
  <2> QED
    BY <1>0, <2>1 DEF GivenGradients
<1>4. CASE TrainStep
  <2>1. pc' = "submit" /\ next' = 1 /\ UNCHANGED <<peers, submitted, dropped, grads, given>>
    BY <1>4 DEF TrainStep, roundVars
  <2>2. \A i \in 1..Len(Admitted') : ~(i < next')
    BY <2>1
  <2> QED
    BY <1>0, <2>1, <2>2 DEF GivenGradients
<1>5. CASE SubmitGiven
  <2> DEFINE p == Admitted[next]
  <2>1. /\ pc = "submit" /\ pc' = "submit" /\ next' = next + 1 /\ next \in Nat
        /\ UNCHANGED <<peers, dropped, given>>
        /\ \/ p \notin DOMAIN given /\ UNCHANGED <<submitted, grads>>
           \/ /\ p \in DOMAIN given /\ p \in peers /\ submitted' = submitted \cup {p}
              /\ grads' = [grads EXCEPT ![p] = given[p]]
    BY <1>0, <1>5 DEF SubmitGiven, SubmitGradient, Submit, roundVars, OrchestratorTypeOK
  <2>2. Admitted' = Admitted
    BY <2>1 DEF Admitted
  <2>3. submitted' \subseteq DOMAIN given /\ \A q \in submitted' : grads'[q] = given[q]
    BY <1>0, <2>1 DEF GivenGradients, TypeOK
  <2>4. \A i \in 1..Len(Admitted) : i < next + 1 /\ Admitted[i] \in DOMAIN given
                                     => Admitted[i] \in submitted'
    <3> SUFFICES ASSUME NEW i \in 1..Len(Admitted), i < next + 1, Admitted[i] \in DOMAIN given
                 PROVE  Admitted[i] \in submitted'
      OBVIOUS
    <3>1. i < next \/ i = next
      BY <2>1
    <3> QED
      BY <1>0, <2>1, <3>1 DEF GivenGradients
  <2> QED
    BY <1>0, <2>1, <2>2, <2>3, <2>4 DEF GivenGradients
<1>6. CASE Aggregate
  <2>1. /\ pc = "submit" /\ ~(next <= Len(Admitted)) /\ next \in Nat
        /\ UNCHANGED <<peers, submitted, dropped, grads, given>>
        /\ \/ pc' = "idle"
           \/ pc' = "apply" /\ phase' = "VERIFYING"
    BY <1>0, <1>6 DEF Aggregate, Finalize, OrchestratorTypeOK
  <2>2. Admitted \in Seq(Peer) /\ ToSet(Admitted) = peers
    BY <1>0, PeersListed DEF GivenGradients
  <2>3. \A i \in 1..Len(Admitted) : Admitted[i] \in DOMAIN given => Admitted[i] \in submitted
    BY <1>0, <2>1, <2>2 DEF GivenGradients
  <2>4. \A q \in peers : \E i \in 1..Len(Admitted) : Admitted[i] = q
    BY <2>2 DEF ToSet
  <2>5. submitted = peers \cap DOMAIN given
    BY <1>0, <2>3, <2>4 DEF GivenGradients, TypeOK
  <2> QED
    BY <1>0, <2>1, <2>5 DEF GivenGradients
<1>7. CASE Apply \/ Checkpoint
  <2>1. /\ pc \in {"apply", "checkpoint"} /\ pc' \in {"checkpoint", "idle"}
        /\ UNCHANGED <<phase, peers, submitted, dropped, grads, given>>
    BY <1>7 DEF Apply, Checkpoint, roundVars
  <2> QED
    BY <1>0, <2>1 DEF GivenGradients
<1>8. CASE UNCHANGED allVars
  <2>1. UNCHANGED <<pc, next, phase, peers, submitted, dropped, grads, given>>
    BY <1>8 DEF allVars, ownVars, roundVars
  <2> QED
    BY <1>0, <2>1 DEF GivenGradients, Admitted
<1> QED
  BY <1>1, <1>2, <1>3, <1>4, <1>5, <1>6, <1>7, <1>8 DEF OrchestratorNext

LEMMA UpdateKept ==
  ASSUME OrchestratorInv, [OrchestratorNext]_allVars
  PROVE  AppliedUpdate'
<1>1. CASE Apply
  <2>1. PICK method \in Methods :
          update' = RobustAggregate(Gradients(SubmittedPeers), method, MaxByzantine)
    BY <1>1 DEF Apply
  <2>2. peers' = peers /\ given' = given
    BY <1>1 DEF Apply, roundVars
  <2>3. Gradients(SubmittedPeers)' = Gradients(SubmittedPeers)
    BY <2>2 DEF Gradients, SubmittedPeers, Admitted
  <2> QED
    BY <2>1, <2>3 DEF AppliedUpdate
<1>2. CASE UNCHANGED allVars
  <2>1. UNCHANGED <<pc, peers, given, update>>
    BY <1>2 DEF allVars, ownVars, roundVars
  <2> QED
    BY <2>1 DEF OrchestratorInv, AppliedUpdate, Gradients, SubmittedPeers, Admitted
<1>3. CASE OrchestratorNext /\ ~Apply
  <2>1. pc' # "checkpoint"
    BY <1>3 DEF OrchestratorNext, Begin, RegisterAllowed, Close, TrainStep, SubmitGiven,
                Aggregate, Checkpoint, Goto, Return
  <2> QED
    BY <2>1 DEF AppliedUpdate
<1> QED
  BY <1>1, <1>2, <1>3

-----------------------------------------------------------------------------
LEMMA OrchestratorStarts == ASSUME OrchestratorInit  PROVE OrchestratorInv
<1>1. RoundInv
  BY RoundStarts DEF OrchestratorInit
<1>2. OrchestratorTypeOK
  <2>1. given \in [{} -> Grad]
    BY DEF OrchestratorInit
  <2> QED
    BY <2>1 DEF OrchestratorInit, OrchestratorTypeOK, Where, Record, NewRecord, Start
<1>3. UnbannedRegistered
  BY DEF OrchestratorInit, UnbannedRegistered
<1>4. RecordedOncePerRound
  BY OrchestratorAssumption DEF OrchestratorInit, RecordedOncePerRound, NewRecord, ToSet
<1>5. GivenGradients /\ AppliedUpdate
  BY DEF OrchestratorInit, Init, GivenGradients, AppliedUpdate
<1> QED
  BY <1>1, <1>2, <1>3, <1>4, <1>5 DEF OrchestratorInv

(* Through all rounds of an orchestrator its inductive invariant holds:    *)
(* each round keeps what RoundCoordinator promises, and holds the peers    *)
(* that are not banned.                                                    *)
THEOREM OrchestratorSafety == OrchestratorSpec => []OrchestratorInv
<1>1. OrchestratorInit => OrchestratorInv
  BY OrchestratorStarts
<1>2. OrchestratorInv /\ [OrchestratorNext]_allVars => OrchestratorInv'
  <2> SUFFICES ASSUME OrchestratorInv, [OrchestratorNext]_allVars  PROVE OrchestratorInv'
    OBVIOUS
  <2>1. RoundInv' /\ OrchestratorTypeOK'
    BY CoordinatorKept, OrchestratorTypeKept DEF OrchestratorInv
  <2> QED
    BY <2>1, RegistrationKept, RecordsKept, GivenKept, UpdateKept DEF OrchestratorInv
<1> QED
  BY <1>1, <1>2, PTL DEF OrchestratorSpec

(* Every counted round is on record once for every listed peer, for a      *)
(* banned one up to its ban, and a round that failed is on nobody's.       *)
THEOREM RecordsMatchRounds == OrchestratorSpec => []RecordedOncePerRound
<1>1. OrchestratorInv => RecordedOncePerRound
  BY DEF OrchestratorInv
<1> QED
  BY <1>1, OrchestratorSafety, PTL

(* A banned peer submits to no later round, and its record stays as it is. *)
THEOREM BansHold == OrchestratorSpec => BansAreFinal
<1> DEFINE A == \A p \in Peer : record[p].banned =>
                  /\ record'[p] = record[p]
                  /\ p \in submitted' => p \in submitted
<1>1. OrchestratorInv /\ [OrchestratorNext]_allVars => [A]_allVars
  <2> SUFFICES ASSUME OrchestratorInv, OrchestratorNext, NEW p \in Peer, record[p].banned
               PROVE  record'[p] = record[p] /\ (p \in submitted' => p \in submitted)
    BY Zenon
  <2>1. OrchestratorTypeOK /\ UnbannedRegistered
    BY DEF OrchestratorInv
  <2>2. CASE Apply
    <3>1. p \notin peers /\ record'[p] \in Recorded(p, Outliers) /\ submitted' = submitted
      BY <2>1, <2>2 DEF Apply, UnbannedRegistered, roundVars
    <3> QED
      BY <2>1, <3>1, RecordedOnce
  <2>3. CASE SubmitGiven
    <3>1. p \notin peers
      BY <2>1, <2>3 DEF SubmitGiven, UnbannedRegistered
    <3> QED
      BY <2>3, <3>1 DEF SubmitGiven, SubmitGradient, Submit, roundVars
  <2>4. CASE Begin
    BY <2>4 DEF Begin
  <2>5. CASE RegisterAllowed
    BY <2>5 DEF RegisterAllowed, RegisterPeer, roundVars
  <2>6. CASE Close
    BY <2>6 DEF Close, CloseRegistration
  <2>7. CASE Aggregate
    BY <2>7 DEF Aggregate, Finalize
  <2>8. CASE TrainStep \/ Checkpoint
    BY <2>8 DEF TrainStep, Checkpoint, roundVars
  <2> QED
    BY <2>2, <2>3, <2>4, <2>5, <2>6, <2>7, <2>8 DEF OrchestratorNext
<1> QED
  BY <1>1, OrchestratorSafety, PTL DEF OrchestratorSpec, BansAreFinal

-----------------------------------------------------------------------------
(* What the aggregation makes of any list of gradients.                    *)
LEMMA AtLeastOne ==
  ASSUME NEW x \in Int
  PROVE  Max({1, x}) \in Nat /\ 1 <= Max({1, x}) /\ (1 <= x => Max({1, x}) = x)
<1> DEFINE m == Max({1, x})
<1>1. m \in {1, x} /\ 1 <= m /\ x <= m
  BY ExtremesOfTwo
<1> HIDE DEF m
<1>2. m \in Nat /\ 1 <= m /\ (1 <= x => m = x)
  BY <1>1
<1> QED
  BY <1>2 DEF m

LEMMA ToleratedSome ==
  ASSUME NEW n \in Nat, NEW max_byzantine \in Nat
  PROVE  /\ Tolerated(n, max_byzantine) \in Nat \ {0}
         /\ \A f \in Nat \ {0} : Trimmed(n, f) \in 1..f
<1>1. n \div 5 \in Int
  OBVIOUS
<1>2. Max({1, n \div 5}) \in Nat \ {0}
  BY <1>1, AtLeastOne
<1>3. Tolerated(n, max_byzantine) \in Nat \ {0}
  BY <1>2 DEF Tolerated
<1>4. ASSUME NEW f \in Nat \ {0}  PROVE Trimmed(n, f) \in 1..f
  <2> DEFINE g == IF <<n, f>> \in RoundedDown THEN f - 1 ELSE f
             m == Max({1, g})
  <2>1. 1 \in Int /\ g \in Int /\ g <= f
    OBVIOUS
  <2> HIDE DEF g
  <2>2. m \in {1, g} /\ 1 <= m
    BY <2>1, ExtremesOfTwo
  <2>3. Trimmed(n, f) = m
    BY DEF Trimmed, g
  <2> HIDE DEF m
  <2> QED
    BY <2>1, <2>2, <2>3
<1> QED
  BY <1>3, <1>4

(* If all but t values lie within bounds, so does each that has t others   *)
(* on either side of it in order.                                          *)
LEMMA MiddleIsWithin ==
  ASSUME NEW gs \in Seq(Int), NEW H \in SUBSET DOMAIN gs, NEW t \in Nat,
         Cardinality(DOMAIN gs \ H) <= t,
         NEW lo \in Int, NEW hi \in Int, \A i \in H : lo <= gs[i] /\ gs[i] <= hi,
         NEW k \in 1..Len(gs), t < k, k <= Len(gs) - t
  PROVE  Sorted(gs)[k] \in Int /\ lo <= Sorted(gs)[k] /\ Sorted(gs)[k] <= hi
<1> DEFINE x == Sorted(gs)[k]
           others == DOMAIN gs \ H
           from == {i \in DOMAIN gs : x <= gs[i]}
<1>1. /\ x \in Int
      /\ Cardinality(Below(gs, x)) < k /\ k <= Cardinality(UpTo(gs, x))
  BY SortedPlaces
<1> HIDE DEF x
<1>2. /\ Len(gs) \in Nat /\ DOMAIN gs = 1..Len(gs) /\ \A i \in DOMAIN gs : gs[i] \in Int
  OBVIOUS
<1>3. /\ Cardinality(Below(gs, x)) \in Nat /\ Cardinality(UpTo(gs, x)) \in Nat
      /\ Cardinality(from) = Len(gs) - Cardinality(Below(gs, x))
  BY <1>1, SidesCounted
<1>4. IsFiniteSet(others) /\ Cardinality(others) \in Nat
  <2>1. IsFiniteSet(1..Len(gs)) /\ others \in SUBSET (1..Len(gs))
    BY <1>2, FS_Interval
  <2> QED
    BY <2>1, FS_Subset, FS_CardinalityType
<1>5. lo <= x
  <2> SUFFICES ASSUME ~(lo <= x)  PROVE FALSE
    OBVIOUS
  <2>1. \A i \in UpTo(gs, x) : i \in others
    BY <1>1, <1>2 DEF UpTo
  <2>2. UpTo(gs, x) \in SUBSET others
    BY <2>1
  <2>3. Cardinality(UpTo(gs, x)) <= Cardinality(others)
    BY <1>4, <2>2, FS_Subset
  <2> QED
    BY <1>1, <1>2, <1>3, <1>4, <2>3
<1>6. x <= hi
  <2> SUFFICES ASSUME ~(x <= hi)  PROVE FALSE
    OBVIOUS
  <2>1. \A i \in from : i \in others
    BY <1>1, <1>2
  <2>2. from \in SUBSET others
    BY <2>1
  <2> HIDE DEF from
  <2>3. Cardinality(from) <= Cardinality(others)
    BY <1>4, <2>2, FS_Subset
  <2> QED
    BY <1>1, <1>2, <1>3, <1>4, <2>3
<1> QED
  BY <1>1, <1>5, <1>6 DEF x

LEMMA AggregateWithin ==
  ASSUME NEW gs \in Seq(Int), NEW H \in SUBSET DOMAIN gs, NEW max_byzantine \in Nat,
         NEW f, f = Tolerated(Len(gs), max_byzantine), Len(gs) >= 2 * f + 1,
         Cardinality(DOMAIN gs \ H) <= Trimmed(Len(gs), f),
         NEW lo \in Int, NEW hi \in Int, \A i \in H : lo <= gs[i] /\ gs[i] <= hi,
         NEW method \in {"TRIMMED_MEAN", "MEDIAN"}
  PROVE  Between(lo, RobustAggregate(gs, method, max_byzantine), hi)
<1> DEFINE n == Len(gs)
           t == Trimmed(n, f)
<1>1. n \in Nat /\ DOMAIN gs = 1..n /\ \A i \in 1..n : gs[i] \in Int
  OBVIOUS
<1>2. f \in Nat \ {0} /\ t \in 1..f
  BY <1>1, ToleratedSome
<1> HIDE DEF t
<1>3. t \in Nat /\ n >= 2 * t + 1 /\ n # 1
  BY <1>1, <1>2
<1>4. ASSUME NEW k \in Int, t < k, k <= n - t
      PROVE  Sorted(gs)[k] \in Int /\ lo <= Sorted(gs)[k] /\ Sorted(gs)[k] <= hi
  <2>1. k \in 1..Len(gs)
    BY <1>1, <1>3, <1>4
  <2> QED
    BY <1>3, <1>4, <2>1, MiddleIsWithin DEF t
<1>5. CASE method = "MEDIAN"
  <2> DEFINE k == (n + 1) \div 2
  <2>1. k \in Int /\ t < k /\ k <= n - t
    BY <1>1, <1>3
  <2> HIDE DEF k
  <2>2. lo <= Sorted(gs)[k] /\ Sorted(gs)[k] <= hi /\ Sorted(gs)[k] \in Int
    BY <1>4, <2>1
  <2>3. RobustAggregate(gs, method, max_byzantine) = Quotient(Sorted(gs)[k], 1)
    BY <1>3, <1>5 DEF RobustAggregate, CoordinateMedian, k
  <2>4. lo * 1 = lo /\ hi * 1 = hi
    OBVIOUS
  <2> QED
    BY <2>2, <2>3, <2>4 DEF Between, Quotient
<1>6. CASE method = "TRIMMED_MEAN"
  <2> DEFINE s == Sorted(gs)
             kept == SubSeq(s, t + 1, n - t)
  <2>1. RobustAggregate(gs, method, max_byzantine) = TrimmedMean(gs, t)
    BY <1>3, <1>6 DEF RobustAggregate, t
  <2>2. ~(n - 2 * t < 1)
    BY <1>1, <1>3
  <2>3. TrimmedMean(gs, t) = Quotient(Total(kept), Len(kept))
    BY <2>2 DEF TrimmedMean, SimpleMean
  <2>4. \A k \in (t + 1)..(n - t) : s[k] \in Int /\ lo <= s[k] /\ s[k] <= hi
    BY <1>1, <1>3, <1>4
  <2> HIDE DEF s
  <2>5. t + 1 \in Int /\ n - t \in Int /\ t + 1 <= n - t
    BY <1>1, <1>3
  <2>6. /\ kept \in Seq(Int) /\ Len(kept) = (n - t) - (t + 1) + 1
        /\ \A i \in 1..((n - t) - (t + 1) + 1) : kept[i] = s[t + 1 + i - 1]
    BY <2>4, <2>5, SubSeqProperties
  <2>7. \A i \in 1..Len(kept) : lo <= kept[i] /\ kept[i] <= hi
    <3> SUFFICES ASSUME NEW i \in 1..Len(kept)  PROVE lo <= kept[i] /\ kept[i] <= hi
      OBVIOUS
    <3>1. i \in 1..((n - t) - (t + 1) + 1)
      BY <2>6
    <3>2. t + 1 + i - 1 \in (t + 1)..(n - t)
      BY <1>1, <1>3, <3>1
    <3>3. kept[i] = s[t + 1 + i - 1]
      BY <2>6, <3>1
    <3> QED
      BY <2>4, <3>2, <3>3
  <2> HIDE DEF kept
  <2>8. lo * Len(kept) <= Total(kept) /\ Total(kept) <= hi * Len(kept)
    BY <2>6, <2>7, TotalBetween
  <2> QED
    BY <2>1, <2>3, <2>8 DEF Between, Quotient
<1> QED
  BY <1>5, <1>6

-----------------------------------------------------------------------------
(* Scores are sums of distances, and fewer than half exceed three times    *)
(* the upper median.                                                       *)
LEMMA KrumScoresNatural ==
  ASSUME NEW gs \in Seq(Int), NEW k \in Nat
  PROVE  KrumScores(gs, k) \in Seq(Nat) /\ Len(KrumScores(gs, k)) = Len(gs)
<1> DEFINE n == Len(gs)
           others(i) == [j \in 1..(n - 1) |-> Distance(gs[i], gs[IF j < i THEN j ELSE j + 1])]
           nearest(i) == SubSeq(Sorted(others(i)), 1, Min({k, n - 1}))
<1>1. n \in Nat /\ DOMAIN gs = 1..n /\ \A i \in 1..n : gs[i] \in Int
  OBVIOUS
<1>2. ASSUME NEW i \in 1..n  PROVE Total(nearest(i)) \in Nat
  <2> DEFINE s == others(i)
             m == Min({k, n - 1})
  <2>1. n - 1 \in Nat
    BY <1>1
  <2>2. \A j \in 1..(n - 1) : gs[IF j < i THEN j ELSE j + 1] \in Int
    BY <1>1
  <2>3. \A x, y \in Int : Distance(x, y) \in Nat
    BY DEF Distance
  <2>4. \A j \in 1..(n - 1) : Distance(gs[i], gs[IF j < i THEN j ELSE j + 1]) \in Nat
    BY <1>1, <2>2, <2>3
  <2>5. s \in [1..(n - 1) -> Nat]
    BY <2>4
  <2> HIDE DEF s
  <2>10. s \in Seq(Int) /\ Len(s) = n - 1 /\ DOMAIN s = 1..(n - 1) /\ \A j \in DOMAIN s : s[j] \in Nat
    BY <2>1, <2>5
  <2>13. k \in Int /\ n - 1 \in Int
    BY <2>1
  <2>6. m \in {k, n - 1} /\ m <= n - 1 /\ m <= k
    BY <2>13, ExtremesOfTwo
  <2> HIDE DEF m
  <2>7. m \in Nat /\ m <= n - 1
    BY <2>1, <2>6
  <2>8. \A j \in 1..m : Sorted(s)[j] \in Nat
    <3> SUFFICES ASSUME NEW j \in 1..m  PROVE Sorted(s)[j] \in Nat
      OBVIOUS
    <3>1. j \in 1..Len(s)
      BY <2>1, <2>7, <2>10
    <3>2. Sorted(s)[j] \in ToSet(s)
      BY <2>10, <3>1, SortedPlaces
    <3> QED
      BY <2>10, <3>2 DEF ToSet
  <2> DEFINE q == SubSeq(Sorted(s), 1, m)
  <2>9. q \in Seq(Nat)
    BY <2>7, <2>8, SubSeqProperties
  <2> HIDE DEF q
  <2>11. Total(q) \in Nat
    BY <2>9, TotalNatural
  <2> QED
    BY <2>11 DEF q, s, m
<1>3. KrumScores(gs, k) = [i \in 1..n |-> Total(nearest(i))]
  BY <1>1 DEF KrumScores
<1> HIDE DEF nearest
<1> QED
  BY <1>1, <1>2, <1>3

LEMMA OutliersAreFew ==
  ASSUME NEW scores \in Seq(Nat)
  PROVE  /\ DetectOutliers(scores) \in SUBSET DOMAIN scores
         /\ IsFiniteSet(DetectOutliers(scores))
         /\ \/ DetectOutliers(scores) = {}
            \/ 2 * Cardinality(DetectOutliers(scores)) < Len(scores)
<1> DEFINE n == Len(scores)
           D == DetectOutliers(scores)
<1>1. n \in Nat /\ DOMAIN scores = 1..n /\ scores \in Seq(Int) /\ \A i \in 1..n : scores[i] \in Nat
  OBVIOUS
<1>2. D \in SUBSET DOMAIN scores
  BY DEF DetectOutliers
<1>3. IsFiniteSet(D) /\ Cardinality(D) \in Nat
  <2>1. IsFiniteSet(1..n)
    BY <1>1, FS_Interval
  <2> QED
    BY <1>1, <1>2, <2>1, FS_Subset, FS_CardinalityType
<1>4. CASE n < 3
  BY <1>2, <1>3, <1>4 DEF DetectOutliers
<1>5. CASE ~(n < 3)
  <2> DEFINE k == n \div 2 + 1
             median == Sorted(scores)[k]
             above == {i \in DOMAIN scores : median < scores[i]}
  <2>1. k \in 1..n /\ k \in Nat /\ n < 2 * k
    BY <1>1, <1>5
  <2>2. median \in ToSet(scores) /\ median \in Int /\ k <= Cardinality(UpTo(scores, median))
    BY <1>1, <2>1, SortedPlaces
  <2>3. D = {i \in DOMAIN scores : scores[i] > 3 * median}
    BY <1>5 DEF DetectOutliers
  <2> HIDE DEF k, median
  <2>4. median \in Nat
    BY <1>1, <2>2 DEF ToSet
  <2>5. \A i \in D : i \in above
    <3> SUFFICES ASSUME NEW i \in D  PROVE i \in above
      OBVIOUS
    <3>1. i \in DOMAIN scores /\ scores[i] > 3 * median /\ scores[i] \in Nat
      BY <1>1, <2>3
    <3>2. median < scores[i]
      BY <2>4, <3>1
    <3> QED
      BY <3>1, <3>2
  <2>6. /\ Cardinality(above) = n - Cardinality(UpTo(scores, median))
        /\ Cardinality(UpTo(scores, median)) \in Nat
    <3> HIDE DEF D
    <3>1. scores \in Seq(Int) /\ median \in Int
      BY <1>1, <2>2
    <3> QED
      BY <3>1, SidesCounted
  <2>7. IsFiniteSet(above) /\ D \in SUBSET above
    <3>1. IsFiniteSet(1..n) /\ above \in SUBSET (1..n)
      BY <1>1, FS_Interval
    <3>2. IsFiniteSet(above)
      BY <3>1, FS_Subset
    <3> QED
      BY <2>5, <3>2
  <2> HIDE DEF above, D
  <2>8. Cardinality(D) <= Cardinality(above)
    BY <2>7, FS_Subset
  <2>9. 2 * Cardinality(D) < n
    BY <1>1, <1>3, <2>1, <2>2, <2>6, <2>8
  <2> QED
    BY <1>2, <1>3, <2>9 DEF D
<1> QED
  BY <1>4, <1>5

-----------------------------------------------------------------------------
(* The gradients of a round as a list, one for every peer that submitted.  *)
LEMMA RoundGradients ==
  ASSUME OrchestratorInv, pc \in {"apply", "checkpoint"}
  PROVE  LET gs == Gradients(SubmittedPeers) IN
         /\ gs \in Seq(Int) /\ Len(gs) = Cardinality(submitted)
         /\ DOMAIN gs = DOMAIN SubmittedPeers /\ IsFiniteSet(submitted)
         /\ \A i \in DOMAIN gs : SubmittedPeers[i] \in submitted /\ gs[i] = given[SubmittedPeers[i]]
         /\ \A i, j \in DOMAIN gs : SubmittedPeers[i] = SubmittedPeers[j] => i = j
<1> DEFINE order == SubmittedPeers
           gs == Gradients(order)
<1>1. OrchestratorTypeOK /\ GivenGradients /\ submitted = peers \cap DOMAIN given
  BY DEF OrchestratorInv, GivenGradients
<1>2. order \in Seq(Peer) /\ IsInjective(order) /\ ToSet(order) = submitted
  BY <1>1, PeersListed DEF GivenGradients
<1> HIDE DEF order
<1>3. IsFiniteSet(submitted) /\ Cardinality(submitted) = Len(order)
  BY <1>2, LengthOfInjective
<1>4. Len(order) \in Nat /\ DOMAIN order = 1..Len(order)
  BY <1>2
<1>5. \A i \in DOMAIN order : order[i] \in submitted
  BY <1>2 DEF ToSet
<1>6. \A p \in submitted : given[p] \in Int
  BY <1>1, OrchestratorAssumption DEF OrchestratorTypeOK
<1>7. gs = [i \in 1..Len(order) |-> given[order[i]]]
  BY <1>4 DEF Gradients
<1>8. \A i \in 1..Len(order) : given[order[i]] \in Int
  BY <1>4, <1>5, <1>6
<1>9. gs \in [1..Len(order) -> Int]
  BY <1>7, <1>8
<1>10. gs \in Seq(Int) /\ Len(gs) = Len(order) /\ DOMAIN gs = 1..Len(order)
  BY <1>4, <1>9
<1>11. \A i, j \in DOMAIN order : order[i] = order[j] => i = j
  BY <1>2 DEF IsInjective
<1>12. \A i \in DOMAIN gs : gs[i] = given[order[i]]
  BY <1>7, <1>10
<1> QED
  BY <1>3, <1>4, <1>5, <1>10, <1>11, <1>12 DEF order

(* The outliers of a round are fewer than half of its submitters, unless   *)
(* there are none.                                                         *)
LEMMA OutliersAreMinority ==
  ASSUME OrchestratorInv, pc = "apply"
  PROVE  /\ IsFiniteSet(Outliers) /\ Cardinality(Outliers) \in Nat
         /\ Outliers = {} \/ 2 * Cardinality(Outliers) < Cardinality(submitted)
<1> DEFINE gs == Gradients(SubmittedPeers)
           k == Max({1, Len(gs) - Tolerated(Len(gs), MaxByzantine) - 2})
           scores == ScoreGradients(gs, MaxByzantine)
           D == DetectOutliers(scores)
           f == [i \in D |-> SubmittedPeers[i]]
<1>1. gs \in Seq(Int) /\ Len(gs) = Cardinality(submitted) /\ Len(gs) \in Nat
  BY RoundGradients
<1> HIDE DEF gs
<1>2. Tolerated(Len(gs), MaxByzantine) \in Nat
  BY <1>1, ToleratedSome, OrchestratorAssumption
<1>3. Len(gs) - Tolerated(Len(gs), MaxByzantine) - 2 \in Int
  BY <1>1, <1>2
<1>4. k \in Nat
  BY <1>3, AtLeastOne
<1>5. scores = KrumScores(gs, k)
  BY DEF ScoreGradients
<1> HIDE DEF k, scores
<1>6. scores \in Seq(Nat) /\ Len(scores) = Len(gs)
  BY <1>1, <1>4, <1>5, KrumScoresNatural
<1>7. IsFiniteSet(D) /\ (D = {} \/ 2 * Cardinality(D) < Len(scores))
  BY <1>6, OutliersAreFew
<1>8. Outliers = {SubmittedPeers[i] : i \in D}
  BY DEF Outliers, scores, gs
<1> HIDE DEF D
<1>9. f \in Surjection(D, Outliers)
  BY <1>8 DEF Surjection
<1> HIDE DEF f
<1>10. IsFiniteSet(Outliers) /\ Cardinality(Outliers) <= Cardinality(D)
  BY <1>7, <1>9, FS_Surjection
<1>11. Cardinality(Outliers) \in Nat /\ Cardinality(D) \in Nat
  BY <1>7, <1>10, FS_CardinalityType
<1>12. CASE D = {}
  BY <1>8, <1>10, <1>11, <1>12
<1>13. CASE 2 * Cardinality(D) < Len(scores)
  <2>1. 2 * Cardinality(Outliers) < Cardinality(submitted)
    BY <1>1, <1>6, <1>10, <1>11, <1>13
  <2> QED
    BY <1>10, <1>11, <2>1
<1> QED
  BY <1>7, <1>12, <1>13

(* Whatever the gradients, a round that takes reputation from any of its   *)
(* submitters takes it from fewer than half of them.                       *)
THEOREM FewAreOutliers == OrchestratorSpec => MinorityPenalised
<1> DEFINE losers == {p \in submitted : record'[p].score < record[p].score}
           A == losers # {} => 2 * Cardinality(losers) < Cardinality(submitted)
<1>1. OrchestratorInv /\ [OrchestratorNext]_allVars => [A]_allVars
  <2> SUFFICES ASSUME OrchestratorInv, OrchestratorNext  PROVE A
    BY Zenon
  <2>1. OrchestratorTypeOK /\ GivenGradients /\ submitted \subseteq Peer
    BY DEF OrchestratorInv, RoundInv, TypeOK
  <2>2. CASE Apply
    <3>1. pc = "apply" /\ \A p \in Peer : record'[p] \in Recorded(p, Outliers)
      BY <2>2 DEF Apply
    <3>2. /\ IsFiniteSet(Outliers) /\ Cardinality(Outliers) \in Nat
          /\ Outliers = {} \/ 2 * Cardinality(Outliers) < Cardinality(submitted)
      BY <3>1, OutliersAreMinority
    <3>3. ASSUME NEW p \in submitted, p \notin Outliers  PROVE record[p].score <= record'[p].score
      <4>1. p \in Peer /\ p \in DOMAIN given
        BY <2>1 DEF GivenGradients
      <4> QED
        BY <2>1, <3>1, <3>3, <4>1, RecordedOnce
    <3>4. ASSUME NEW p \in submitted  PROVE record[p].score \in Int /\ record'[p].score \in Int
      <4>1. p \in Peer /\ record'[p] \in Record
        BY <2>1, <3>1, RecordedOnce
      <4> QED
        BY <2>1, <4>1 DEF OrchestratorTypeOK, Record
    <3>5. \A p \in losers : p \in Outliers
      BY <3>3, <3>4
    <3>6. losers \in SUBSET Outliers
      BY <3>5
    <3>7. Cardinality(submitted) \in Nat
      BY <3>1, RoundGradients, FS_CardinalityType
    <3> HIDE DEF losers
    <3>8. Cardinality(losers) <= Cardinality(Outliers) /\ Cardinality(losers) \in Nat
      BY <3>2, <3>6, FS_Subset, FS_CardinalityType
    <3>9. CASE Outliers = {}
      BY <3>6, <3>9
    <3>10. CASE 2 * Cardinality(Outliers) < Cardinality(submitted)
      BY <3>2, <3>7, <3>8, <3>10
    <3> QED
      BY <3>2, <3>9, <3>10
  <2>3. CASE ~Apply
    <3>1. record' = record
      BY <2>3 DEF OrchestratorNext, Begin, RegisterAllowed, Close, TrainStep, SubmitGiven,
                  Aggregate, Checkpoint
    <3>2. \A p \in submitted : ~(record'[p].score < record[p].score)
      BY <2>1, <3>1 DEF OrchestratorTypeOK, Record
    <3> QED
      BY <3>2, Zenon
  <2> QED
    BY <2>2, <2>3
<1> QED
  BY <1>1, OrchestratorSafety, PTL DEF OrchestratorSpec, MinorityPenalised

(* With n >= 2 * f + 1 submitters, of which no more than are trimmed are   *)
(* Byzantine, what is applied to the weights lies between honest gradients.*)
THEOREM UpdatesStayHonest == OrchestratorSpec => []UpdateWithinHonest
<1>1. ASSUME OrchestratorInv  PROVE UpdateWithinHonest
  <2> DEFINE n == Cardinality(DOMAIN result)
             f == Tolerated(n, MaxByzantine)
             good == DOMAIN result \cap Honest
             bad == DOMAIN result \ Honest
             honest == {result[p] : p \in good}
             order == SubmittedPeers
             gs == Gradients(order)
             H == {i \in DOMAIN gs : order[i] \in Honest}
             into == [i \in DOMAIN gs \ H |-> order[i]]
  <2> SUFFICES ASSUME pc = "checkpoint", Methods \subseteq {"TRIMMED_MEAN", "MEDIAN"},
                      n >= 2 * f + 1, Cardinality(bad) <= Trimmed(n, f)
               PROVE  Between(Min(honest), update, Max(honest))
    BY DEF UpdateWithinHonest
  <2>1. /\ DOMAIN result = submitted /\ submitted \subseteq Peer
        /\ \A p \in DOMAIN result : result[p] = given[p] /\ result[p] \in Int
    <3>1. /\ GivenGradients /\ TypeOK /\ ResultIsCurrent
          /\ phase = "VERIFYING" /\ dropped = {} /\ Grad \subseteq Int
      BY <1>1, OrchestratorAssumption DEF OrchestratorInv, RoundInv, GivenGradients
    <3>2. result # NoResult /\ DOMAIN result = submitted
      BY <3>1 DEF ResultIsCurrent
    <3>3. \A p \in DOMAIN result : result[p] \in Int
      BY <3>1, <3>2 DEF TypeOK
    <3>4. \A p \in DOMAIN result : result[p] = given[p]
      BY <3>1, <3>2 DEF ResultIsCurrent, GivenGradients
    <3>5. submitted \subseteq Peer
      BY <3>1 DEF TypeOK
    <3> QED
      BY <3>2, <3>3, <3>4, <3>5
  <2>2. /\ gs \in Seq(Int) /\ Len(gs) = Cardinality(submitted) /\ IsFiniteSet(submitted)
        /\ \A i \in DOMAIN gs : order[i] \in submitted /\ gs[i] = given[order[i]]
        /\ \A i, j \in DOMAIN gs : order[i] = order[j] => i = j
    BY <1>1, RoundGradients
  <2> HIDE DEF order, gs
  <2>3. n = Len(gs) /\ n \in Nat /\ IsFiniteSet(DOMAIN result)
    BY <2>1, <2>2
  <2>4. f \in Nat \ {0} /\ Trimmed(n, f) \in 1..f
    BY <2>3, ToleratedSome, OrchestratorAssumption
  <2>5. IsFiniteSet(bad) /\ bad \in SUBSET DOMAIN result
    <3>1. bad \in SUBSET DOMAIN result
      OBVIOUS
    <3> HIDE DEF bad
    <3> QED
      BY <2>3, <3>1, FS_Subset
  <2>6. good # {}
    <3>1. CASE good = {}
      <4>1. bad = DOMAIN result
        BY <3>1
      <4>2. n <= Trimmed(n, f)
        BY <4>1
      <4> HIDE DEF n, f
      <4> QED
        BY <2>3, <2>4, <4>2 DEF n
    <3> QED
      BY <3>1
  <2>7. result \in [DOMAIN result -> Int]
    <3>1. TypeOK /\ result # NoResult
      BY <1>1 DEF OrchestratorInv, RoundInv, GivenGradients, ResultIsCurrent
    <3>2. \E D : result \in [D -> Grad]
      BY <3>1 DEF TypeOK
    <3> QED
      BY <2>1, <3>2
  <2>8. good \in SUBSET DOMAIN result
    OBVIOUS
  <2> HIDE DEF good
  <2>9. PICK least \in good : \A p \in good : result[least] <= result[p]
    BY <2>3, <2>6, <2>7, <2>8, LeastOf
  <2>10. PICK most \in good : \A p \in good : result[p] <= result[most]
    BY <2>3, <2>6, <2>7, <2>8, GreatestOf
  <2>11. /\ Min(honest) \in honest /\ \A x \in honest : Min(honest) =< x
         /\ Max(honest) \in honest /\ \A x \in honest : Max(honest) >= x
    <3>1. \A x \in honest : x \in Int /\ result[least] <= x /\ x <= result[most]
      BY <2>1, <2>8, <2>9, <2>10
    <3>2. result[least] \in honest /\ result[most] \in honest
      OBVIOUS
    <3>3. /\ \E x \in honest : \A y \in honest : x =< y
          /\ \E x \in honest : \A y \in honest : x >= y
      BY <2>1, <2>8, <3>1, <3>2
    <3> HIDE DEF honest
    <3> QED
      BY <3>3 DEF Min, Max
  <2> DEFINE lo == Min(honest)
             hi == Max(honest)
  <2> HIDE DEF lo, hi
  <2>12. lo \in Int /\ hi \in Int /\ \A x \in honest : lo <= x /\ x <= hi
    <3>1. \A x \in honest : x \in Int
      BY <2>1, <2>8
    <3>2. \A x, y \in Int : x >= y => y <= x
      OBVIOUS
    <3> HIDE DEF honest
    <3> QED
      BY <2>11, <3>1, <3>2 DEF lo, hi
  <2>13. \A i \in H : lo <= gs[i] /\ gs[i] <= hi
    <3> SUFFICES ASSUME NEW i \in H  PROVE gs[i] \in honest
      BY <2>12
    <3>1. order[i] \in good /\ gs[i] = result[order[i]]
      BY <2>1, <2>2 DEF good
    <3> QED
      BY <3>1
  <2>14. Cardinality(DOMAIN gs \ H) <= Cardinality(bad)
    <3>1. \A i \in DOMAIN gs \ H : order[i] \in bad
      BY <2>1, <2>2
    <3> HIDE DEF bad, H
    <3>2. into \in Injection(DOMAIN gs \ H, bad)
      BY <2>2, <3>1 DEF Injection, IsInjective
    <3> HIDE DEF into
    <3> QED
      BY <2>5, <3>2, FS_Injection
  <2>15. H \in SUBSET DOMAIN gs /\ Cardinality(DOMAIN gs \ H) <= Trimmed(Len(gs), f)
    <3>1. IsFiniteSet(DOMAIN gs \ H)
      <4>1. DOMAIN gs = 1..n /\ IsFiniteSet(1..n)
        BY <2>2, <2>3, FS_Interval
      <4>2. DOMAIN gs \ H \in SUBSET (1..n)
        BY <4>1
      <4> QED
        BY <4>1, <4>2, FS_Subset
    <3>2. Cardinality(DOMAIN gs \ H) \in Nat /\ Cardinality(bad) \in Nat
      BY <2>5, <3>1, FS_CardinalityType
    <3> HIDE DEF bad, f, n
    <3>3. Cardinality(DOMAIN gs \ H) <= Trimmed(n, f)
      BY <2>4, <2>14, <3>2
    <3> QED
      BY <2>3, <3>3
  <2>16. PICK method \in Methods : update = RobustAggregate(gs, method, MaxByzantine)
    BY <1>1 DEF OrchestratorInv, AppliedUpdate, gs, order
  <2>17. f = Tolerated(Len(gs), MaxByzantine) /\ Len(gs) >= 2 * f + 1 /\ MaxByzantine \in Nat
    BY <2>3, OrchestratorAssumption
  <2> HIDE DEF H, f, n, honest, bad
  <2>18. method \in {"TRIMMED_MEAN", "MEDIAN"}
    OBVIOUS
  <2>19. Between(lo, update, hi)
    BY <2>2, <2>12, <2>13, <2>15, <2>16, <2>17, <2>18, AggregateWithin
  <2> QED
    BY <2>19 DEF lo, hi
<1> QED
  BY <1>1, OrchestratorSafety, PTL
=============================================================================
