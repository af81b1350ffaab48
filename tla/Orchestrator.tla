----------------------------- MODULE Orchestrator -----------------------------
(***************************************************************************)
(* TrainingOrchestrator.run_round_sync (training/orchestrator.py) of one   *)
(* peer over successive rounds: admission (training/sybil.py), a fresh     *)
(* RoundCoordinator driven call by call, the local training step           *)
(* (training/trainer.py), the update, the reputation of the peers          *)
(* (training/reputation.py) and the checkpoint.                            *)
(*                                                                         *)
(* A reputation score is counted in twentieths: 10 stands for 0.5.         *)
(***************************************************************************)
EXTENDS RoundCoordinator, Aggregation

CONSTANTS
  Capacities,       \* peer_capacities, the same list in every round
  Local,            \* local_peer_id
  Honest,           \* peers whose gradients are in HonestGrad
  HonestGrad, OtherGrad,
  Methods,          \* aggregation methods a call may be configured with
  MaxByzantine,     \* byzantine_config.max_byzantine
  CheckpointEvery,
  MaxRounds         \* bound of the model on the rounds begun

(* The list names no peer twice, and the rounds that run_round_sync sets up *)
(* keep max_peers at its default.                                           *)
ASSUME OrchestratorAssumption ==
  /\ Capacities \in Seq(Peer) /\ IsInjective(Capacities)
  /\ MaxPeers = 0
  /\ Local \in Peer /\ Honest \subseteq Peer
  /\ HonestGrad \cup OtherGrad \subseteq Grad
  /\ Grad \subseteq Int
  /\ Methods \subseteq AggregationMethod
  /\ MaxByzantine \in Nat /\ CheckpointEvery \in Nat \ {0} /\ MaxRounds \in Nat

VARIABLES
  pc, next,      \* where run_round_sync is, and in its loops
  given,         \* all_peer_gradients of the round
  rounds,        \* rounds begun
  round_count,
  record,        \* the records of the ReputationTracker
  accumulated,   \* training steps whose gradients param.grad holds
  update         \* the last aggregate applied to the weights

roundVars == <<phase, peers, submitted, dropped, root, grads, closed, topology,
               deadline, result>>
ownVars == <<pc, next, given, rounds, round_count, record, accumulated, update>>
allVars == <<roundVars, ownVars>>

Start == 10           \* 0.5, the score of a peer without a record
BanThreshold == 2     \* 0.1
NewRecord == [score |-> Start, completed |-> 0, dropped |-> 0, byzantine |-> 0,
              banned |-> FALSE]
NoUpdate == Quotient(0, 0)

OrchestratorInit ==
  /\ Init
  /\ pc = "idle" /\ next = 1
  /\ given = << >>
  /\ rounds = 0 /\ round_count = 0
  /\ record = [p \in Peer |-> NewRecord]
  /\ accumulated = 0
  /\ update = NoUpdate

-----------------------------------------------------------------------------
(* sybil.py. A solution has at least the leading zero bits that were asked  *)
(* of it, and is verified against no more than that.                        *)
AutoDifficulty(n) ==
  CASE n < 10 -> 8 [] n \in 10..99 -> 16 [] n \in 100..999 -> 20 [] OTHER -> 24

Required(n, score) ==
  IF score >= Start THEN Max({0, AutoDifficulty(n) - 4}) ELSE AutoDifficulty(n)

VerifyAdmission(bits, n, score) == bits >= Required(n, score)

(* reputation.py. The scores are floating-point sums: at 0.1 itself they    *)
(* come out on either side of the threshold.                                *)
Bans(score) ==
  IF score < BanThreshold THEN {TRUE} ELSE IF score = BanThreshold THEN BOOLEAN ELSE {FALSE}

WithScore(r, score) ==
  {[r EXCEPT !.score = score, !.banned = @ \/ b] : b \in Bans(score)}

RecordDropout(r) ==
  WithScore([r EXCEPT !.dropped = @ + 1], Max({0, r.score - 2}))

RecordOutlier(r) ==
  WithScore([r EXCEPT !.byzantine = @ + 1, !.completed = @ + 1],
            Max({0, r.score - (IF r.byzantine + 1 >= 3 THEN 5 ELSE 3)}))

RecordCompletion(r) ==
  WithScore([r EXCEPT !.completed = @ + 1], Min({20, r.score + 1}))

(* Fault: bans are not looked at. *)
AllowedAlways(p) == p \in Peer
Allowed(p) == ~record[p].banned

Admitted == Selected(Capacities, peers)
SubmittedPeers == Selected(Admitted, DOMAIN given)
Gradients(order) == [i \in DOMAIN order |-> given[order[i]]]
Outliers ==
  {SubmittedPeers[i] : i \in DetectOutliers(ScoreGradients(Gradients(SubmittedPeers), MaxByzantine))}

(* Fault: the dropouts are not recorded. *)
RecordedSubmitted(p, outliers) ==
  IF p \notin DOMAIN given THEN {record[p]}
  ELSE IF p \notin peers THEN {record[p]}
  ELSE IF p \in outliers THEN RecordOutlier(record[p])
  ELSE RecordCompletion(record[p])

(* record_round_batch: the peers that submitted, then those that did not. *)
Recorded(p, outliers) ==
  IF p \notin peers THEN {record[p]}
  ELSE IF p \in outliers THEN RecordOutlier(record[p])
  ELSE IF p \in DOMAIN given THEN RecordCompletion(record[p])
  ELSE RecordDropout(record[p])

-----------------------------------------------------------------------------
Goto(where) == pc' = where /\ next' = 1
Return == Goto("idle")

(* A call with the gradients of some peers. The local proof of work is      *)
(* solved and verified, and the round gets a coordinator of its own.        *)
Begin ==
  /\ pc = "idle" /\ rounds < MaxRounds
  /\ rounds' = rounds + 1
  /\ \E S \in SUBSET Peer :
       given' \in {g \in [S -> HonestGrad \cup OtherGrad] :
                     \A p \in S : g[p] \in IF p \in Honest THEN HonestGrad ELSE OtherGrad}
  /\ VerifyAdmission(AutoDifficulty(Len(Capacities)), Len(Capacities), record[Local].score)
  /\ phase' = "PROPOSED" /\ peers' = {} /\ submitted' = {} /\ dropped' = {}
  /\ root' = [p \in Peer |-> NoRoot] /\ grads' = [p \in Peer |-> NoGrad]
  /\ closed' = FALSE /\ topology' = {} /\ deadline' = FALSE /\ result' = NoResult
  /\ Goto("register")
  /\ UNCHANGED <<round_count, record, accumulated, update>>

RegisterAllowed ==
  /\ pc = "register" /\ next <= Len(Capacities)
  /\ next' = next + 1
  /\ IF Allowed(Capacities[next]) THEN RegisterPeer(Capacities[next]) ELSE UNCHANGED roundVars
  /\ UNCHANGED <<pc, given, rounds, round_count, record, accumulated, update>>

Close ==
  /\ pc = "register" /\ next > Len(Capacities)
  /\ CloseRegistration
  /\ IF closed' THEN Goto("train") ELSE Return
  /\ UNCHANGED <<given, rounds, round_count, record, accumulated, update>>

(* train_step adds to what param.grad holds: nothing but an applied update  *)
(* clears it.                                                               *)
TrainStep ==
  /\ pc = "train"
  /\ accumulated' = accumulated + 1
  /\ Goto("submit")
  /\ UNCHANGED <<roundVars, given, rounds, round_count, record, update>>

SubmitGiven ==
  /\ pc = "submit" /\ next <= Len(Admitted)
  /\ next' = next + 1
  /\ LET p == Admitted[next] IN
       IF p \in DOMAIN given THEN SubmitGradient(p, given[p], NoRoot) ELSE UNCHANGED roundVars
  /\ UNCHANGED <<pc, given, rounds, round_count, record, accumulated, update>>

Aggregate ==
  /\ pc = "submit" /\ next > Len(Admitted)
  /\ Finalize
  /\ IF phase' = "VERIFYING" THEN Goto("apply") ELSE Return
  /\ UNCHANGED <<given, rounds, round_count, record, accumulated, update>>

(* The aggregate replaces the local gradients and is applied, the peers are *)
(* judged, and the round counts. Gradients are those of one parameter that  *)
(* all submitters name: for a parameter that none of them names             *)
(* set_gradients leaves the local gradients, and those are applied.         *)
Apply ==
  /\ pc = "apply"
  /\ \E method \in Methods :
       update' = RobustAggregate(Gradients(SubmittedPeers), method, MaxByzantine)
  /\ accumulated' = 0
  /\ \E outliers \in {Outliers} :
       /\ record' \in [Peer -> UNION {Recorded(p, outliers) : p \in Peer}]
       /\ \A p \in Peer : record'[p] \in Recorded(p, outliers)
  /\ round_count' = round_count + 1
  /\ IF round_count' % CheckpointEvery = 0 THEN Goto("checkpoint") ELSE Return
  /\ UNCHANGED <<roundVars, given, rounds>>

(* save and gc return, or raise: the call ends either way. *)
Checkpoint ==
  /\ pc = "checkpoint"
  /\ Return
  /\ UNCHANGED <<roundVars, given, rounds, round_count, record, accumulated, update>>

OrchestratorNext ==
  \/ Begin \/ RegisterAllowed \/ Close \/ TrainStep
  \/ SubmitGiven \/ Aggregate \/ Apply \/ Checkpoint

OrchestratorSpec == OrchestratorInit /\ [][OrchestratorNext]_allVars

-----------------------------------------------------------------------------
(* A ban outlasts the rounds: a banned peer submits to no later round, and  *)
(* so its record, whatever rounds follow, is never touched again.           *)
BansAreFinal ==
  [][\A p \in Peer : record[p].banned =>
       /\ record'[p] = record[p]
       /\ p \in submitted' => p \in submitted]_allVars

(* The reputation a round takes away for outlying gradients: whatever the   *)
(* gradients, fewer than half of those who submitted lose by it.            *)
MinorityPenalised ==
  [][LET losers == {p \in submitted : record'[p].score < record[p].score} IN
       losers # {} => 2 * Cardinality(losers) < Cardinality(submitted)]_allVars

(* byzantine.py: with no more Byzantine submitters than values are trimmed, *)
(* and n >= 2 * f + 1 as ByzantineConfig asks, what is applied to the       *)
(* weights lies between honest gradients, for the trimmed mean and the      *)
(* median, whoever drops out or has been banned.                            *)
UpdateWithinHonest ==
  pc = "checkpoint" /\ Methods \subseteq {"TRIMMED_MEAN", "MEDIAN"} =>
    LET n == Cardinality(DOMAIN result)
        f == Tolerated(n, MaxByzantine)
        honest == {result[p] : p \in DOMAIN result \cap Honest}
    IN n >= 2 * f + 1 /\ Cardinality(DOMAIN result \ Honest) <= Trimmed(n, f)
         => Between(Min(honest), update, Max(honest))

(* Every counted round is on record exactly once for every peer not banned, *)
(* for a banned one up to its ban, and rounds that failed, whoever's fault  *)
(* that was, are on nobody's record.                                        *)
RecordedOncePerRound ==
  \A p \in ToSet(Capacities) :
    LET recorded == record[p].completed + record[p].dropped IN
      IF record[p].banned THEN recorded <= round_count ELSE recorded = round_count
=============================================================================
