------------------------------- MODULE Network -------------------------------
(***************************************************************************)
(* TrainingNetwork of network.py, as a process that trains, is killed and  *)
(* is started again: the training rounds of kickstart.py on the data of    *)
(* data/pipeline.py, the genesis tracker, the credits of credits.py and    *)
(* the checkpoints <model>_<round>.pt that torch.save writes.              *)
(*                                                                         *)
(* The weights are known by how they came about: one element per round,    *)
(* the number of the process that trained it, the peers' gradients applied *)
(* in it included. Only total and model are restored from a file; credits, *)
(* milestones and peers live and die with the process. starts and served   *)
(* are auxiliary and outlive it: when processes were started, and the      *)
(* times of the free requests that those no longer running granted.        *)
(***************************************************************************)
EXTENDS Credits, Genesis

CONSTANTS
  Own,                 \* config.peer_id
  Remote,              \* other peers
  Outcomes,            \* what a round may yield: its loss and the quality of its sample
  Texts,               \* sizes of texts that load_text may be given, in tokens
  SeqLength, BatchSize, StepsPerRound,
  CheckpointInterval,
  MaxRounds, MaxStarts, MaxMutations   \* bounds of the model

ASSUME NetworkAssumption ==
  /\ Own \in Peer
  /\ {SeqLength, BatchSize, StepsPerRound, CheckpointInterval} \subseteq Nat \ {0}
  /\ MaxRounds \in Nat
  /\ IsFiniteSet(Remote) /\ Texts \subseteq Nat
  /\ \A outcome \in Outcomes : outcome.loss \in Int /\ outcome.quality \subseteq ToSet(Qualities)

VARIABLES
  process,      \* "down", "idle", or where run_training_round is: "save", "write"
  starts,
  served,
  tokens,       \* len(_token_buffer)
  peers,        \* peers
  model,        \* the weights of the kickstart
  total_rounds, \* _stats.total_rounds
  genesis,
  announced,    \* the milestones passed to the callbacks
  files         \* the checkpoints, by the number in their round id

network == <<process, starts, served, tokens, peers, model, total_rounds, genesis, announced,
             files>>
ledger == <<accounts, totals, gate, grants>>

NoFile == [exists |-> FALSE, whole |-> FALSE, model |-> << >>, total |-> 0]
Torn == [NoFile EXCEPT !.exists = TRUE]
Up == process # "down"
started == Len(starts)   \* processes so far

(* What a process has before __init__ and what is left of it afterwards. *)
NoProcess ==
  /\ process' = "down"
  /\ tokens' = 0 /\ peers' = {} /\ model' = << >> /\ total_rounds' = 0
  /\ genesis' = RecordBirth /\ announced' = << >>
  /\ accounts' = [p \in Peer |-> NoAccount]
  /\ totals' = [minted |-> 0, spent |-> 0, decayed |-> 0]
  /\ gate' = [rejected |-> 0, free |-> 0, paid |-> 0]
  /\ served' = [p \in Peer |-> served[p] \o grants[p]]
  /\ grants' = [p \in Peer |-> << >>]

NetworkInit ==
  /\ Init
  /\ process = "down" /\ starts = << >> /\ served = [p \in Peer |-> << >>]
  /\ tokens = 0 /\ peers = {} /\ model = << >> /\ total_rounds = 0
  /\ genesis = RecordBirth /\ announced = << >>
  /\ files = [n \in 0..(MaxRounds - 1) |-> NoFile]

(* __init__: everything is new, and the own account is opened. *)
Start ==
  /\ ~Up /\ started < MaxStarts
  /\ process' = "idle" /\ starts' = Append(starts, now)
  /\ RecordConnect(Own)
  /\ UNCHANGED <<served, tokens, peers, model, total_rounds, genesis, announced, files>>

(* The process is killed, in the middle of a write perhaps. *)
Crash ==
  /\ Up
  /\ NoProcess
  /\ UNCHANGED <<starts, files, now>>

LoadText(n) ==
  /\ process = "idle" /\ tokens = 0   \* bound of the model: one text
  /\ tokens' = tokens + n
  /\ UNCHANGED <<process, starts, served, peers, model, total_rounds, genesis,
                 announced, files, ledger, now>>

RegisterPeer(p) ==
  /\ process = "idle" /\ p \notin peers
  /\ peers' = peers \cup {p}
  /\ UNCHANGED <<process, starts, served, tokens, model, total_rounds, genesis,
                 announced, files, ledger, now>>

RemovePeer(p) ==
  /\ process = "idle" /\ p \in peers
  /\ peers' = peers \ {p}
  /\ UNCHANGED <<process, starts, served, tokens, model, total_rounds, genesis,
                 announced, files, ledger, now>>

(* Fault: the count of rounds is not restored. *)
LoadCheckpointUncounted(n) ==
  /\ process = "idle" /\ files[n].whole
  /\ model' = files[n].model
  /\ UNCHANGED <<process, starts, served, tokens, peers, total_rounds, genesis, announced,
                 files, ledger, now>>

(* load_checkpoint; torch.load raises on a file that is not whole. *)
LoadCheckpoint(n) ==
  /\ process = "idle" /\ files[n].whole
  /\ model' = files[n].model
  /\ total_rounds' = files[n].total
  /\ UNCHANGED <<process, starts, served, tokens, peers, genesis, announced, files,
                 ledger, now>>

-----------------------------------------------------------------------------
(* make_sequences and iter_batches: windows that leave a token to predict, *)
(* whole batches only.                                                     *)
Sequences == Cardinality({s \in 0..(tokens - SeqLength - 1) : s % SeqLength = 0})
Batches == Min({StepsPerRound, Sequences \div BatchSize})

(* Kickstart.train_round: the steps it takes; none on too little data. *)
Steps == IF tokens < SeqLength + 1 THEN 0 ELSE Batches

(* What _emit tells about milestones: those that record_round has added. *)
NewMilestones(before, after) ==
  SubSeq(after.milestones, Len(before.milestones) + 1, Len(after.milestones))

(* run_training_round up to the checkpoint. Without a step it returns and  *)
(* changes nothing; reputation.get_score is that of a peer without record. *)
TrainRound(outcome, pay) ==
  /\ process = "idle" /\ Steps > 0
  /\ total_rounds < MaxRounds
  /\ model' = Append(model, started)
  /\ total_rounds' = total_rounds + 1
  /\ genesis' = RecordRound(genesis, outcome.loss, outcome.quality,
                            Steps * BatchSize * SeqLength, Cardinality(peers) + 1)
  /\ announced' = announced \o NewMilestones(genesis, genesis')
  /\ EarnTrainingRound(Own, pay)
  /\ process' = IF total_rounds' % CheckpointInterval = 0 THEN "save" ELSE "idle"
  /\ UNCHANGED <<starts, served, tokens, peers, files>>

(* _save_checkpoint: torch.save truncates the file and writes it. The file *)
(* has the round id that the round began with.                             *)
SaveBegin ==
  /\ process = "save"
  /\ process' = "write"
  /\ files' = [files EXCEPT ![total_rounds - 1] = Torn]
  /\ UNCHANGED <<starts, served, tokens, peers, model, total_rounds, genesis, announced,
                 ledger, now>>

SaveEnd ==
  /\ process = "write"
  /\ process' = "idle"
  /\ files' = [files EXCEPT ![total_rounds - 1] =
                 [exists |-> TRUE, whole |-> TRUE, model |-> model, total |-> total_rounds]]
  /\ UNCHANGED <<starts, served, tokens, peers, model, total_rounds, genesis, announced,
                 ledger, now>>

(* genesis is public: evolution reports its mutations to it. *)
ReportMutation(generation) ==
  /\ process = "idle" /\ genesis.mutations < MaxMutations
  /\ total_rounds = MaxRounds   \* bound of the model: between the last rounds and the end
  /\ genesis' = RecordMutation(genesis, generation)
  /\ UNCHANGED <<process, starts, served, tokens, peers, model, total_rounds, announced,
                 files, ledger, now>>

-----------------------------------------------------------------------------
(* What callers do with the ledger and the gate between the rounds. *)
UseCredits ==
  /\ process = "idle"
  /\ UseLedger
  /\ UNCHANGED network

NetworkNext ==
  \/ Start \/ Crash
  \/ \E n \in Texts : LoadText(n)
  \/ \E p \in Remote : RegisterPeer(p) \/ RemovePeer(p)
  \/ \E n \in DOMAIN files : LoadCheckpoint(n)
  \/ \E outcome \in Outcomes, pay \in RoundPay : TrainRound(outcome, pay)
  \/ SaveBegin \/ SaveEnd
  \/ \E generation \in 1..MaxMutations : ReportMutation(generation)
  \/ UseCredits
  \/ Tick /\ UNCHANGED network

NetworkSpec == NetworkInit /\ [][NetworkNext]_<<network, vars>>

-----------------------------------------------------------------------------
(* A crash costs at most the rounds of one checkpoint interval: however     *)
(* processes crash, are started and resume from any checkpoint, there is a  *)
(* whole file of what the model was at most that many rounds ago. A process *)
(* that overwrites what its own model goes back to would violate it.        *)
ProgressSurvivesCrash ==
  Up => \E k \in 0..Len(model) :
          /\ Len(model) - k <= CheckpointInterval
          /\ k = 0 \/ \E n \in DOMAIN files :
                        files[n].whole /\ files[n].model = SubSeq(model, 1, k)

(* In any span of an hour a peer is granted at most twice its free requests *)
(* by the process that runs when it begins, for that is the hour that ends  *)
(* in it and the one that starts, and once more by every process started    *)
(* in it, which knows nothing of those before: across crashes and restarts  *)
(* the limit is no more than that, and no less.                             *)
Within(times, t) == Cardinality({i \in DOMAIN times : times[i] \in t..(t + Hour - 1)})

FreeTierPerProcess ==
  \A p \in Peer, t \in 1..MaxTime :
    Within(served[p], t) + Within(grants[p], t) <= (2 + Within(starts, t)) * FreePerHour

(* What s lists it lists once, and in the order in which t lists it. *)
SameOrder(s, t) ==
  \A i, j \in DOMAIN s : i < j =>
    \E k, l \in DOMAIN t : k < l /\ t[k] = s[i] /\ t[l] = s[j]

(* "Every milestone, every mutation, every training round is recorded":     *)
(* across rounds that reach several at once, a milestone is held when       *)
(* the history has earned it and only then, recorded once, and those of     *)
(* rounds are passed to the callbacks once and in their order.              *)
MilestonesAsEarned ==
  /\ IsInjective(genesis.milestones)
  /\ genesis.achieved = ToSet(genesis.milestones)
  /\ genesis.achieved \ ToSet(MutationMilestones) = Earned(genesis)
  /\ genesis.mutations > 0 <=> MutationMilestones[1] \in genesis.achieved
  /\ ToSet(announced) = Earned(genesis)
  /\ SameOrder(announced, genesis.milestones)
=============================================================================
