# Specifications of OpenClaw

TLA+ modules, TLC configurations and TLAPS proofs for the decentralised training
system in this repository: a Rust node (`node/`), a Python engine
(`engine/openclaw_engine/`) and an agent SDK (`agent-sdk/sssi/`). Every definition
is translated from the code; `PROJECT.json` maps each one to its lines.

## 1. The system

    agents --HTTP--> node API --commands--> swarm driver <==gossip==> other nodes
                                   ^             | events
                                   +-- scheduler <-+ --HTTP bridge--> Python engine
    engine: orchestrator -> round coordinator -> aggregation -> checkpoint store
            evolution protocol, credit ledger and inference gate beside it

| Component | State | Operations | What is hard |
|---|---|---|---|
| Round coordinator (`training/round_coordinator.py`) | phase, members, submissions, dropouts, result | register, close, submit, drop, deadline sweep, finalize, verify | only `register_peer` looks at how far the round has got; joins, timers and disconnects interleave |
| Shard map (`consensus/shard_map.rs`) | entries with Lamport versions, a clock | assign, remove a peer, merge | replicas, stale clones, ties, no tombstones |
| Scheduler (`scheduler/mod.rs`) | active rounds, reputation table | one handler per gossip message | messages lost, reordered, repeated by clients; several announcements of one round |
| Swarm driver and tasks (`network/mod.rs`, `main.rs`, `api/`) | two bounded channels | send and receive, each waiting | back pressure in both directions |
| Evolution protocol (`architecture/evolution.py`) | genome, proposals, votes in arrival order | propose, receive, vote, tally | no coordinator; repeated, late and changed votes |
| Checkpoint store (`model/checkpoint.py`) | directories `cas/`, links `latest/` | save, collect, load | crashes between file operations, processes sharing the directory |
| Credits (`credits.py`) | accounts, totals, gate counters | earn, spend, decay, free tier, connect | several books that must agree, windows of time |
| Orchestrator, reputation, admission (`training/`) | round count, scores, bans | one round from admission to checkpoint | partial failure between phases, rounds that fail, float thresholds |
| Aggregation (`training/byzantine.py`) | none | trimmed mean, median, Krum, Bulyan, outlier scores | which gradients are left when some drop out |
| All-reduce (`training/allreduce.py`, `hierarchical.py`, `cluster.py`) | gradients, position in the ring, tree of clusters | scatter-reduce, all-gather, broadcast | lost messages, uneven clusters, no round number in a message |
| Bridge (`bridge.rs`, `bridge.py`, `inference/pipeline_exec.py`) | a call in progress; step count and gradient mode of the engine | requests with retries, inferences beside them | requests carried out twice, reads without time limit, a context manager over an await |
| Network, genesis, kickstart (`network.py`, `genesis.py`, `kickstart.py`) | rounds, peers, milestones, checkpoint files | train a round, save, load, report | kills in the middle of a write, restarts from older files |
| Genomes and migration (`architecture/genome.py`, `mutations.py`, `migration.py`) | a list of genes, a compiled model | five mutations, migrate | genes are known by id, modules by position |
| Shards and pipeline (`model/shard.py`, `model/pipeline.py`) | shards of a model, activations under way | split, forward through local and remote stages | remainders of the division, stages that fail, overlapping calls |
| Compression and wire format (`training/compression.py`, `wire.py`) | none | compress, encode, decode | what the Merkle root covers and what it does not |
| Agent SDK (`agent-sdk/sssi/`) | sliding windows, contributions, tier | check, call, record | checks and records on two sides of an await |

The rest (tensor arithmetic, data download, dashboards, command lines, container
files) has no protocol state; `PROJECT.json` lists each part with the reason it is
left out.

**What makes each correct.** The coordinator aggregates current gradients of
registered peers, once each, and nobody swept away comes back. The shard map never
goes back in time and replicas that know the same agree, as far as versions can
tell. The scheduler credits peers only for rounds that were announced to it, and
announces none itself that was not reported aggregated. The node passes on every event,
once and in order, and keeps running. A genome is adopted only with the approval the
configuration asks for, and migrating to it should keep what the model has learned: the
code does for the leading genes only. A checkpoint is whole or absent, and a crash costs at most the rounds
since the last one. Every peer of an all-reduce returns with the same mean. What is
applied to the weights lies among honest gradients, and whoever is banned stays so.
A call of the engine is carried out once. A forward pass applies every layer of the
model once, whoever holds it, and a gradient that is accepted is the one that was
sent. Credits are conserved and the free tiers are bounded.

## 2. Modules

| Module | Models | Runs |
|---|---|---|
| `RoundCoordinator` | class `RoundCoordinator`, an action per method | `round`, `orchestrator` |
| `ShardMap` | replicas of `ShardMap`, clones in flight, the gossip path | `shard_map`, `shard_map_converged` |
| `NodeRounds` | the scheduler's rounds and reputation, on several nodes | `node_rounds` |
| `NodeChannels` | driver, scheduler, API tasks and their channels | `node`, `node_channels_deadlock` |
| `Bridge` | the node's HTTP client and the engine that answers | `node` |
| `Node` | `NodeChannels` and `Bridge` composed | `node` |
| `Genome` | genes, mutations, compilation, migration of weights | `model`, `evolution_migration` |
| `Evolution` | `EvolutionProtocol`, on several peers, over `Genome` | `model`, `evolution_migration` |
| `CheckpointStore` | `CheckpointStore`, per file operation and process | `model` |
| `Pipeline` | `split_model` and the forward passes of `PipelineExecutor` | `model` |
| `Merkle` | the Merkle root that shards, checkpoints and messages share | `model` |
| `Wire` | compressors, `encode` and `decode`, and damage in transit | `model` |
| `Credits` | `CreditLedger` and `InferenceGate` | `network` |
| `Genesis` | `GenesisTracker`, as operators on a record | `network` |
| `Network` | `TrainingNetwork` as a process that is killed and restarted, over `Credits` and `Genesis` | `network` |
| `ClusterTopology` | the tree of clusters, in Python and in Rust | `all_reduce` |
| `AllReduce` | the coroutines of one all-reduce and their messages | `all_reduce` |
| `Averaging` | what an all-reduce promises: the abstract specification | `all_reduce` |
| `Lists` | Python's `sorted`, `sum` and list comprehensions, in forms that proofs can use | `network`, `orchestrator` |
| `Aggregation` | the robust aggregation methods and outlier detection, over `Lists` | `orchestrator` |
| `Orchestrator` | `run_round_sync` over `RoundCoordinator`, with reputation and admission | `orchestrator` |
| `AgentSdk` | `Agent` with limiter, credits and server | `agent_sdk` |
| `ListProofs` | lemmas about `Lists`, by induction over lists and finite sets | |
| `OrchestratorProofs` | theorems about `RoundCoordinator`, `Aggregation` and `Orchestrator` | |
| `ModelProofs` | theorems about `CheckpointStore`, `Pipeline`, `Evolution`, `Genome`, `Merkle` and `Wire` | |
| `NodeProofs` | theorems about `Bridge`, `NodeChannels` and `Node` | |
| `NetworkProofs` | theorems about `Network` and, inside it, `Credits` and `Genesis` | |
| `SwarmProofs` | theorems about `ShardMap` and `AllReduce`, and the refinement of `Averaging` | |
| `NodeRoundsProofs`, `AgentSdkProofs` | theorems about the modules they are named after | |

Each `MC...` module extends the module it is named after and adds what TLC needs:
symmetry sets and constants that are functions. An operator introduced by a comment
"Fault:" is a plausible bug in the definition after it. No specification uses it; it
is there so that each property can be seen to fail when the code is wrong in that way.
`MCModel` joins four modules that share no variable. Its next-state relation moves
one of them while the others are where they began: the states of the four are
added up and not multiplied. For the same reason `MCNetwork.cfg` has a state constraint,
`TrainsOrServes`: TLC goes on from states in which the process trains and nobody is served,
and from those in which it only serves.

### RoundCoordinator

`peers` stands for the keys of `_peers` and of `_capacities`, `submitted` and
`dropped` for the flags of `PeerStatus`, `grads` for `_gradients`, `topology` for
the peers in `_cluster_manager`, `result` for the gradients that went into
`_result`. The caller is unconstrained, because nothing in the class orders its
calls. A gradient is an opaque value, the clock is the bit "the deadline has
passed". Byzantine scores, which only `summary()` reads, are left out.

The phase is weaker than its name: a late submission brings a completed round back
to `COMPUTING`, a failed registration stays open, `verify_consistency` completes a
round from any phase, and `finalize` leaves the round in `AGGREGATING` when every
submitter has dropped. The model has all of these; the properties say what holds
in spite of them.

### ShardMap

`entries` and `clock` are the two fields of each replica, `clones` the copies that
have left it. `Merge` is `ShardMap::merge` on any of them, however old.
`HandleShardMapUpdate` is the path from gossip: `to_bytes` of a non-empty map yields
no bytes, because JSON has no tuple keys, so only empty maps arrive that way. The
properties are therefore about `merge` itself. `origin` and `written` record who
assigned what and are read by properties only; `Converged` looks at what a `ShardEntry`
of the code says, the peer and the version.

### NodeRounds, NodeChannels, Bridge and Node

`NodeRounds` keeps the contents of the messages and leaves out the channels; a message is
delivered to each node at most once, in any order or never. `POST /publish` takes any
topic and any data, so clients publish every message of `Body`, those of the schedulers
included. No receiver can tell the difference; `by` records it for the properties.
`RewardNeedsAnnouncement` says what the code still guarantees: a peer is credited only for
a round whose proposal, join and announcement the node has received, and an announcement
that no client made comes from a node that had followed the round to its aggregation.
Scores are in tenths. A
checkpoint rewards a participant once per time it is listed (`Copies`), which is what the
loop over the list comes to. `NodeChannels` keeps the channels and leaves out the
contents: an event is "plain" (its handler uses no channel), "train" (its handler waits
for the engine) or "announce" (its handler sends a command). `AnnouncedInOrder` compares
the commands published and under way (`Sent`) with the handled events that ask for one
(`Due`): the numbers are the same and increase.

`Bridge` is one call of `train_step` from the connection to the answer, with the
retries of `request`, and the engine on the other side: an asyncio thread, so that a
step is what happens between two awaits. The engine reads a connection once; header
and body are written separately, so it may see the header alone, fail to parse and
close. Beside the call, pipeline inferences wait for activations inside
`torch.no_grad()`, which sets a flag of the thread (`grad_enabled`) and puts back
what it found. The engine may crash at any point and be started again.

`Node` joins the two: the handler of a "train" event makes the call and ends with
it. `Node`'s steps are steps of each part, or leave it alone.

### Evolution and Genome

A genome is the sequence of proposals that led to it. Votes are kept in the order
they arrive, since the last of a voter counts. Votes on the peer's current genome
can go any way: the evaluator compares freshly initialised models. A proposal
against another genome is answered by abstaining.

`Genes` says which genes such a sequence gives, for a choice of mutations; the
properties of migration range over all choices that `MutationGenerator` can make of
the first genome, so that the mutations need not be part of the state. Weights are
known by the gene they were initialised for and the generation in which they were
(`Initialised`); `Migrate` says which module receives whose.

`MatchingLayersKeepWeights` is what the comments of `migration.py` promise, that a layer
which does not change keeps its weights; it does not hold (section 4).
`LeadingGenesKeepWeights` is what does: a gene such that every gene before it compiles to
one module (`Leading`) has its own weights in its first module, through any list of
genomes adopted. The leading genes end with the first attention, feed-forward, activation,
dropout or skip gene. A standard transformer starts with attention, so only the first of
its genes is leading, and of all others the property says nothing.

### CheckpointStore

A save is: look for the directory, make a temporary one, write the weights, write
the metadata, rename, unlink the link, make the link. `gc` is: list, take those with
at least `keep_latest` newer ones (`Surplus`), then for each of these, newest first,
unlink its files in any order and remove the directory. Any process
may fail between any two of these (`Crash`). A rename replaces an empty directory
only, as POSIX has it. Roots are collision-free hashes: a root determines weights
and model. `condemned` is auxiliary: the directories `gc` has begun to remove and no
save has made anew.

### Pipeline, Merkle and Wire

An activation is the sequence of the layers applied to it. `SplitModel`, `NextShard` and
`BuildExecutor` are `split_model` and the construction of an executor, whose stages may
have either callable, both or none; `forward` takes a stage as remote with both,
`forward_async` with `send_fn`. Calls overlap and a remote stage may fail, which ends its
call.

The hash of `Merkle` is ideal: it keeps what it is given. `Wire` encodes the gradients of
some parameters with one of four compressors, damages at most one field on the way, and
decodes with the sender's compressor or with none. Cells are numbers; bytes of float16
read as float32 are `Garbage`, and half the number of cells. A chain of compressors
sends the payload of its last one only: a whole float16 tensor with zeros in it.

### Credits, Genesis and Network

Amounts and times are small integers. What all accounts hold together is the number of
`Holdings`, a set with a member per credit. What a balance loses by decay is any part of
it, nothing within a minute. `grants` is auxiliary: the times of the free requests this
ledger has granted. `Genesis`
keeps of the histories what milestones depend on; the milestones that one check finds
reached and not yet on record are added in the order of their list (`Selected`). In
`Network`, a process starts with nothing but its own account, trains when its text yields
a batch, saves `<model>_<round>.pt` in place in two steps, and may be killed anywhere;
only what `load_checkpoint` reads comes back. The weights are the list of the processes
that trained them, round by round. Two auxiliary variables outlive the process: `starts`,
when processes were started, and `served`, to which a crash adds the `grants` of the
process it ends. `FreeTierPerProcess` bounds the free requests of all of them together.

### AllReduce, ClusterTopology and Averaging

Every peer is a coroutine that walks up the tree, ring by ring, and down again,
broadcast by broadcast. A message is a chunk of the gradient; a lost one makes
`recv_fn` return nothing, and the peer goes on without it. The permutation from
which the clusters are cut stands for the VRF and is any of a set given by the
instance (rotations). A gradient has `Numel` elements, which `torch.chunk` cuts into chunks
of equal size and a shorter last one (`Chunk`); `ChunksAssumption` says that no ring has
more peers than there are chunks, because `reduce_async` raises otherwise. `Averaging` has neither rings nor messages: peers return, once
each, with the mean of the means of their clusters. `Averages` states that
`AllReduce` implements it, `result` being the gradient of a peer that is done.

### Orchestrator and Aggregation

`Orchestrator` extends `RoundCoordinator` and drives it as `run_round_sync` does, method
by method; `pc` and `next` are the program counter. Scores are in twentieths. A gradient
is one integer, fractions are pairs, and a mean is compared by cross-multiplication. The
trim ratio has its default `f / n`, and `RoundedDown` names the pairs for which `int(n *
(f / n))` is one less than `f`: floating-point arithmetic decides, the first time at `n =
71` with a fifth of the peers tolerated. At a score of exactly 0.1 the floating-point sums
fall on either side of the threshold, so a ban is possible and not certain. The gradients
of the model are those of one parameter, which every submitter names:
`set_gradients` (`trainer.py:137`) replaces the gradients of the parameters it is given, and
one that no submitter names would be applied with what was accumulated locally. A
`trim_ratio` given explicitly is not modelled.

### AgentSdk

Time is a number of ticks, the windows are counts per tick, a credit loses weight
with its age. A sum over a window (`Total`) is the number of its `Units`, one per request,
token or weighted credit. A coroutine in `infer_async` has checked and not yet recorded. Cancelled while it waits
(`InferAsyncCancelled`), it never does, although its request is under way. `free`
is auxiliary: what was recorded for calls admitted as free. The bounds of
`FreeTierBounded` grow with the number of coroutines, `Call`, which the code does not
limit, and are about what is recorded.

## 3. Runs

Run `tlc -config X.cfg M` for the `cfg` and `module` of a row in `PROJECT.json`.

| Run | Instance | What it shows |
|---|---|---|
| `round` | 4 peers, 3 needed, 2 gradients, 1 root | `TopologyMatchesMembers`, `ResultIsCurrent`, `OneGradientPerPeer`, `SweptRoundIsFrozen` |
| `shard_map` | 2 replicas, 2 keys, 2 peers, clocks to 2, 2 clones | `TiesAreConcurrent`, `ConvergedUpToTies`, `EntriesOnlyAdvance` |
| `node_rounds` | 2 nodes, 1 round, 1 peer, 5 client messages of any kind | `RewardNeedsAnnouncement`, `RewardsBounded`, `LateJoinersStayOut` |
| `node` | channels of 1, 3 events, 1 API request, 1 retry, 1 crash, 2 inferences | `EventsInOrder`, `AnnouncedInOrder`, `RetriesTrainOnce`, `GradientsLostByOverlapOnly`, `OnlyCircularWait` |
| `model` | 2 processes, 3 roots, 2 models, 1 failure | `WrittenAtomically`, `LatestWasWritten`, `NewestKept`, `CheckpointsImmutable` |
| | up to 4 layers, 2 calls | `ForwardIsWholeModel` |
| | up to 3 parameters of 3 shapes, 4 compressors, 1 damaged field | `DecodedAsEncoded` |
| | 3 peers, 1 proposer, 2 proposals, 3 votes stored per peer, 5 genes and their mutations | `AdoptedByTwo`, `VotesAreInformed`, `SameVotesSameOutcome`, `LeadingGenesKeepWeights` |
| `network` | 3 processes in turn that train, 3 rounds, a checkpoint after the second | `ProgressSurvivesCrash`, `MilestonesAsEarned` |
| | 2 processes in turn that serve, 2 accounts, 1 free request an hour, hours of 2 ticks, 3 ticks, 3 requests, 2 credits | `Conservation`, `FreeTierPerProcess`, `GateMatchesLedger` |
| `all_reduce` | up to 5 peers, clusters of 2 or 3, up to 3 levels, 1 lost message | `Averages` (refinement), `SimulationAgrees`, `NothingLeftOver`, `TreesMirror` |
| `orchestrator` | 4 peers, 1 Byzantine, 4 rounds, 2 methods | `UpdateWithinHonest`, `RecordedOncePerRound`, `BansAreFinal`, `MinorityPenalised` |
| `agent_sdk` | 2 coroutines, 4 ticks, 4 calls | `FreeTierBounded`, `TrainingNeverRefused` |

`shard_map_converged`, `node_channels_deadlock` and `evolution_migration` end in a
violation: see section 4.

**Bounds.** Four peers with a minimum of three let one peer drop or come late while
a quorum remains, and let the quorum of 67 percent and the minimum differ. Two
replicas with two clones give every relative age of two maps; a tie needs one
assignment on each side. Five client messages are one complete round (proposal, join,
start, submission, aggregation) in any order, with some left out or repeated; the
second node is there to announce the checkpoint to the first, and a client's
announcement may take the place of the aggregation. Channels of one place
with batches of two fill up in the middle of a batch, which is what the 256 places
of the code do with more peers; the theorem about the order of events needs no such
bound. One retry and one crash are the least that can repeat a step, two inferences
the least that overlap. Three votes per peer allow one voter to vote twice beside
another; two proposals against any genome make a peer adopt a genome that undoes what
it had adopted. Five genes have each kind of neighbour a mutation reaches, three leading
ones and two behind an activation or an attention gene.
Four layers divide into one to four shards with each remainder, and two calls are the
least that overlap. Three parameters, two of which may have the same elements in other
shapes, let a damaged name or shape fit; top-k keeps two elements of two or four.
Three roots of two models with `keep_latest` 1 make `gc` remove something while two
processes save, and one failure reaches every operation. A second process is the one
that may resume from an older file, and three rounds with a checkpoint after the second
leave one that is lost. Three ticks let the free hour turn over, and a second process
started within the hour grants the free request anew. That training and serving do not mix
in this run (`TrainsOrServes`) keeps it small; the theorems cover the mixture. Five peers
in clusters of two or three give even and uneven clusters, one to three levels, and
both sides of the threshold between the flat and the hierarchical ring; one lost
message reaches every receive. Four rounds are what takes a score from 0.5 to a ban,
with a failed round between. Two coroutines and a direct call are the least that pass
one check together; four ticks let a day of three end. `MaxClock`, `MaxClones`,
`MaxPublished`, `MaxEvents`, `MaxRequests`, `MaxVotes`, `MaxSent`, `MaxTime`,
`MaxMinted`, `MaxLayers`, `MaxCrashes`, `MaxLost`, `MaxRounds`, `MaxStarts`, `MaxMutations` and
`MaxCalls` are bounds of the models, not of the code; in `Evolution` the length of a
peer's history is bounded as well.

**Deadlock** is checked in `round` and `shard_map`. The other systems may stop: no
client publishes any more, a node waits for input or is in the circular wait, all
proposals are settled, all peers of an all-reduce have returned, a message has been
decoded, or a clock, a number
of rounds or of calls has reached its bound.

**Symmetry** is used in runs with safety properties only.

**Fairness.** `NodeChannels` assumes weak fairness of the driver's sends and receives,
of the scheduler as a whole and of each API task's send. Tokio runs every task that
can run, its bounded channels serve waiting senders in order and `select!` picks
among the ready branches at random. `Node` adds weak fairness of the engine while it
is up (asyncio serves every connection it has accepted); `NodeChannels` alone takes a
call to end. The engine need not be restarted, an inference may wait for ever, the
swarm is under no obligation to produce events, clients none to send requests.
An engine that stays up, accepts a request and never answers it is thereby left out:
`bridge.rs:201` reads without a time limit, so it would hold the scheduler for good, and
no property here is about it. `AllReduce` assumes that every peer's coroutine is scheduled and that the transport
reports each message as arrived or lost; with it `Averaging`'s promise that every
peer returns is checked. The remaining specifications assume none.

## 4. Where the code departs from what it says

Three runs end in a violation of what the code's comments say:

- `shard_map_converged`: `shard_map.rs:20` says the map "converges without
  coordination". Two replicas that assign one key to different peers at the same
  version name different peers for good, whatever they merge. `ConvergedUpToTies` is what does hold.
- `node_channels_deadlock`: `network/mod.rs:80`, "Main loop: drive the swarm and
  process commands." With both channels full, driver and scheduler wait for each
  other. `OnlyCircularWait` shows it is the only way to get stuck, an engine that
  does not answer aside.
- `evolution_migration`: `migration.py:6` says "Weight copying for matching layers", line
  28 "Changed activations: keep surrounding weights as-is". After the activation of a
  standard transformer is swapped, layers that did not change have other weights than
  before. `LeadingGenesKeepWeights` is what does hold. Only tests call
  `WeightMigrator.migrate`; no code path adopts a genome and migrates by itself.

The models contain the following as well, and the properties are stated so as to hold
in spite of it.

*Rounds.* `can_finalize` counts submitters that have dropped since
(`round_coordinator.py:237`), the aggregation does not: with three submissions and
two dropouts one gradient is the result, against the "minimum quorum" of line 9. A
submission that overtakes `start_compute` is dropped (`scheduler/mod.rs:373`) and its
sender charged as a non-submitter (line 458). Each announcement of a checkpoint
rewards the round again, and so does one that a client publishes, of a round nobody has
aggregated (`grpc_server.rs:73`, `scheduler/mod.rs:432`). Repeated submissions of one peer count separately towards
the quorum of `aggregate_ready`, which no receiver acts upon.

*Evolution.* Peers with the same set of votes decide alike unless a voter votes twice
with different decisions, which a proposal delivered twice brings about
(`evolution.py:372` promises it without that condition). A tally adopts a proposal
whatever the current genome has become, again after acceptance and after the deadline, so
mutations adopted before can be undone.

*Migration.* Modules are found by the position of a gene among all old genes but
among the parametric ones of the new genome. Genes after an activation, dropout or
skip gene, or after an attention or feed-forward gene, which compile to two modules,
get the weights of another module or are initialised anew (`migration.py:71`, against
"preserve as much learned behavior as possible" at line 32). Widening fixes the input
of the next gene of any type, an activation included. A skip whose source is the last
gene but one has no target and `_random_skip` raises.

*Bridge.* Two overlapping inferences leave gradients disabled: the second finds them
off and puts that back after the first has turned them on. Every `train_step` then
fails until the process is started again.

*All-reduce.* Clusters of unequal size give the mean of means, not the mean of the
peers; the flat ring used below the threshold by `reduce_all` and never by
`reduce_async` gives the latter. Python and Rust use the permutation in opposite
directions, so the members of a cluster differ. The chunks of a ring are taken to be
as many as its peers: `torch.chunk` may give fewer for small tensors, and the code
then raises.

*Orchestrator.* Local gradients accumulate over failed rounds, since only an applied
update clears them. A round that misses its quorum returns before
anything is recorded (`orchestrator.py:215`), so those who dropped out of it keep their
reputation, against "Straggler/dropout: -0.1" of `reputation.py:17`; `RecordedOncePerRound`
is stated of the rounds that count. With
identical honest gradients the median of the scores is zero and the slightest
deviation an outlier. The number trimmed is `int(n * (f / n))`, which rounding makes
one less for some `n` and `f`. The configured difficulty of the proof of work is
ignored when the number of peers is known.

*Network.* `torch.save` writes in place, so a crash leaves a torn file that loading by
modification time may pick. Credits and milestones die with the process. A process
that starts without loading overwrites the files of the one before round by round;
`ProgressSurvivesCrash` speaks of what a process's own model goes back to. Without
enough text a round returns having changed nothing, and a continuous run goes on so.

*Checkpoint store.* A crash in the middle of `gc` leaves a directory without its
files, which `save` then takes for the checkpoint; a crash between unlink and symlink
leaves a model without `latest` link; `gc` over all models removes what another
model's `latest` points to; saving weights the store already has leaves link and
timestamp as they were.

*Wire format.* The root covers the names and the data of the parameters, and neither
their shapes nor the flags nor the compression metadata: a message with one of these
damaged may be accepted and read as other numbers. What `DecodedAsEncoded` says of the
gradients therefore leaves these fields out. Top-k sends the positions of its elements as
float32, which is exact up to 2^24 only; tensors of that size are not in the model. A
chain decompresses with its last compressor alone, so top-k followed by fp16 saves half
and not what top-k would.

*Credits and SDK.* The uptime streak adds up over disconnections and is never reset.
The free hour of the gate starts with the request that finds it over, so twice the
limit fits into one hour. The ledger is not saved: a process that is started again
(`network.py:198`) opens every account anew (`credits.py:168`), with the welcome bonus and
a full free hour, so every restart within an hour adds a limit to it. The token budget of the SDK is tested for being exhausted
and not against the request, and a request whose coroutine is cancelled counts nowhere; a request for zero tokens is served free of it; the
daily limit on training rounds never refuses anybody (`TrainingNeverRefused`).

## 5. Proofs

TLAPS checks these for every value of the constants that satisfies the assumptions
of the modules.

| Theorem | States |
|---|---|
| `OrchestratorProofs!RoundSafety` | `Spec => []RoundInv` for the coordinator alone, type correctness included |
| `...!TopologyAgrees`, `ResultsAreCurrent` | `Spec => []TopologyMatchesMembers`, `Spec => []ResultIsCurrent` |
| `...!SubmissionsAreFinal`, `StragglersStayOut` | `Spec => OneGradientPerPeer`, `Spec => SweptRoundIsFrozen` |
| `...!OrchestratorSafety` | `OrchestratorSpec => []OrchestratorInv`, `RoundInv` included |
| `...!RecordsMatchRounds`, `BansHold` | `[]RecordedOncePerRound`, `BansAreFinal` |
| `...!FewAreOutliers`, `UpdatesStayHonest` | `OrchestratorSpec => MinorityPenalised`, `OrchestratorSpec => []UpdateWithinHonest` |
| `SwarmProofs!ShardSafety` | `Spec => []ShardInv`, type correctness included |
| `...!ClocksDominate`, `TiesStayConcurrent` | `Spec => []ClockDominates`, `Spec => []TiesAreConcurrent` |
| `...!Convergence`, `LastWriterWins` | `Spec => []ConvergedUpToTies`, `Spec => EntriesOnlyAdvance` |
| `...!RoundInvariant`, `HoldInvariant` | `ReduceSpec => []RoundInv`, `ReduceSpec => []HoldInv` |
| `...!RoundLeavesNothing` | `ReduceSpec => []NothingLeftOver` |
| `...!RoundKeepsPromise` | `ReduceSpec` `=> Promise!Init /\ [][Promise!Next]_(Promise!vars)`: the safety part of `Averages` |
| `...!RoundAgrees`, `DefaultRoundAgrees` | `[]SimulationAgrees`, for `n > Threshold` and `n <= SmallNetwork`; for all `n` if `Threshold <= SmallNetwork` |
| `...!RoundMirrors` | `ReduceSpec => TreesMirror`, if seven levels hold `MaxPeers` peers |
| `NodeRoundsProofs!NodeRoundsSafety` | `Spec => []NodeRoundsInv` |
| `...!CreditNeedsAnnouncement`, `CreditIsBounded` | `[]RewardNeedsAnnouncement`, `[]RewardsBounded` |
| `...!LateJoinsIgnored` | `Spec => LateJoinersStayOut` |
| `NodeProofs!BridgeSafety`, `NoDoubleTraining`, `GradientsComeBack` | `BridgeSpec => []BridgeInv`, `[]RetriesTrainOnce`, `[]GradientsLostByOverlapOnly` |
| `...!NodeImplementsBridge` | `NodeSpec => BridgeSpec` |
| `...!EventsArriveInOrder`, `AnnouncementsInOrder`, `NodeTrainsOnce` | `NodeSpec => []EventsInOrder`, `[]AnnouncedInOrder` and the bridge's two invariants |
| `ModelProofs!AtomicSaves`, `ImmutableCheckpoints` | `Spec => []WrittenAtomically`, `Spec => CheckpointsImmutable` |
| `...!LinksAreWritten`, `NewestSurvive` | `Spec => []LatestWasWritten`, `Spec => []NewestKept` |
| `...!PipelineSafety` | `PipelineSpec => []PipelineInv`, type correctness included |
| `...!ShardsCoverModel`, `ForwardAppliesModel` | `PipelineSpec => []SplitCoversModel`, `[]ForwardIsWholeModel` |
| `...!TwoApprove`, `VotersKnowTheBase`, `VotesDecide` | `EvolutionSpec` `=> []AdoptedByTwo`, `[]VotesAreInformed`, `[]SameVotesSameOutcome`, if `Quorate` |
| `...!LeadingGenesKept` | `EvolutionSpec => []LeadingGenesKeepWeights` |
| `...!MessagesVerified` | `WireSpec => []DecodedAsEncoded` |
| `NetworkProofs!LedgerSafety`, `RestartSafety`, `ProgressSafety` | `NetworkSpec` `=> []LedgerInv`, `[]RestartInv`, `[]ProgressInv` |
| `...!CreditsAreConserved`, `GateIsAccountedFor`, `FreeTierIsLimited` | `[]Conservation`, `[]GateMatchesLedger`, `[]FreeTierPerProcess` |
| `...!CrashesCostAnInterval`, `MilestonesEarned` | `[]ProgressSurvivesCrash`, `[]MilestonesAsEarned` |
| `AgentSdkProofs!AgentSafety` | `Spec => []AgentInv` |
| `...!RequestsAreBounded`, `TokensAreBounded`, `FreeTierIsBounded` | `[]FreeRequestsBounded`, `[]FreeTokensBounded`, `[]FreeTierBounded` |
| `...!TrainersContribute` | `Spec => []TrainingNeverRefused` |

**Sums.** A total over windows, accounts or messages is stated as the size of a set with
a member for each thing counted (`Copies`, `Holdings`, `Units`, `Held`), and
`FiniteSetTheorems` says how a set grows. TLC computes the same numbers.

**Lists.** `ListProofs` proves by induction what a filtered, sorted or summed list of any
length is. The provers cannot be given a predicate to induct over, but a set they can:
each proof takes the least counterexample out of the set of all (`LeastNatural`, from the
well-foundedness of the naturals) and contradicts it. `Lists` defines the operations by
what the lemmas then say of them: a list with the elements that are in a set is taken from
the places in ascending order (`SelectedList`: nothing lost, nothing twice, and nothing
out of order); the k-th value of a sorted list is one that fewer than k values are below
and at least k are no greater than (`SortedPlaces`: there is one); and a sum lies between
its length times its least and its greatest term (`TotalBetween`).

*RoundCoordinator* assumes finitely many peers, a positive minimum and that the
"none" values are no gradients or roots; its theorems use nothing of what
`Orchestrator` assumes. `ResultIsCurrent` is not inductive alone:
that a result holds gradients needs `GradientsBacked` (every submitter has stored
one), and the last conjuncts hold because every action that changes the tables while
a round is `VERIFYING` also leaves that phase, or only adds dropouts.

*Orchestrator* assumes that the list of peers names each once and that the coordinator has
no maximum of peers (`MaxPeers = 0`), as `TrainingOrchestrator` creates it. Every step of
`OrchestratorSpec` is one of the coordinator, a new coordinator or leaves it alone, so
`RoundInv` is kept. `UnbannedRegistered` says whom the coordinator holds: the peers not
banned, as far as the list has been gone through. With it `RecordedOncePerRound` follows:
whom a round records is whom it registered. A ban is final because no record is taken back
and `Allowed` is asked before every registration. `GivenGradients` says that a round that
succeeded has aggregated the gradients given to the call, of every registered peer that
had one, and `AppliedUpdate` that their aggregate is what was applied. What the aggregate
is worth follows from the order of the values alone. For `UpdateWithinHonest`: with no
more than t values outside the honest range, a value with t others on either side is in it
(`MiddleIsWithin`), which the median is and every value the trimmed mean keeps. For
`MinorityPenalised`: less than half of the scores exceed the upper median, and three times
it is no less since scores are sums of distances. The property asks for `n >= 2 * f + 1`,
as `ByzantineConfig` does for the trimmed mean; without it `f` may be set so high that
half of the values are an adversary's. It is not about Bulyan, which trims a quarter of
what Krum leaves whatever `f` is: of ten gradients with two Byzantine ones, honest ones
can be so far apart that Krum leaves more of an adversary than is trimmed. TLC checks four
honest gradients and one other, where it does stay between them (the assumption
`KrumOverBoundedInputs` of `MCOrchestrator`).

*ShardMap*: `TiesAreConcurrent` needs that a fresh version is unused, which follows
from the bound of every written version by its origin's clock. Two maps that absorb
each other have equal versions under each key; that and `TiesAreConcurrent` for the
entries held (`HeldWereWritten`) give `ConvergedUpToTies`.

*AllReduce* assumes of the trees only what `ReduceAssumption` says (the VRF permutes the
peers, gradients are integers) and that gradients are long enough for their rings. The tree
is sound (`TreeInv`): a peer is in one cluster of a level at most, the members of a level
are the leaders of the one below, and two peers share a ring on one level only (`MeetOnce`),
so that a channel carries the messages of one ring and of one broadcast. `RoundInv` then counts:
on each channel lie as many messages as the sender has sent and the receiver has not yet
taken, which `NothingLeftOver` is for peers that are done. `HoldInv` says what is in them,
as long as none was lost. A peer behind in its ring holds for each element the sum of a
window of members that ends with itself (`Part`); how wide it is depends on the distance of
the element's chunk (`Behind`) and on the step. A message is the window of its sender at the
time it was sent (`Shipped`), and a peer that takes it holds the window of one member more,
or of all (`RingElement`). After `2 * r - 2` messages every window is the whole ring: the
mean of the cluster. `MeanOfMeans` of `Averaging` is that, level by level, and what the
leaders send down is the mean of the top. The same window gives the lockstep simulation
(`LockstepRing`), whose ring takes the clusters of a level one by one in no order that
matters (`FoldLevel`). `SimulationAgrees` is proved wherever both take the same rings: above
the threshold, and where the tree is one cluster (`FlatInv`). The defaults put the threshold
at the size up to which `ClusterConfig.auto` makes one cluster, 64 both, so that nothing
lies between (`DefaultRoundAgrees`); between them the simulation takes one flat ring over an
even tree and agrees only when every division is exact, which TLC checks.

`RoundMirrors` compares the tree of `finalize` with that of `vrf.rs`. A permutation takes
the clusters of the one side to consecutive groups of `k` indices and such groups to the
clusters of the other (`LeavesSize`, `LeavesMirror`); as leaders differ, a level above has
groups of as many again (`GroupedSize`), and its largest cluster is the first
(`LargestCluster`). So the rounds counted on the tree are those `ScalingRounds` counts from
the sizes (`RoundsMirror`, over sums in any order, `CountIs`). The depths agree but for the
rounded logarithm's level (`DepthsMirror`), provided `MaxPeers <= k^7` for every cluster size
`k > 1`: `optimal_depth` stops at seven levels, `ClusterConfig.auto` does not. With the
default of 1000 that is a bound of 10^21 peers; with clusters of two it is 128.

*NodeRounds*: a peer is listed as often as its joins have been received, at most
(`ParticipantsJoined`); a node knows a round only from its proposal
(`KnownFromProposal`); and an announcement that is not a client's comes from a node that
has received the proposal and the aggregation of the round (`AnnouncedWhenFollowed`). Of the messages a
node has received, each checkpoint pays a participant once per listing, so that what was
paid is bounded by a product of two numbers of messages.

*Bridge*: `executed` is bounded because a call that is sent again has failed to read,
which only a connection closed before the step, or a crash, brings about. While
inferences overlap, `saved` is on for at most one of them unless they once
overlapped; that carries `GradientsLostByOverlapOnly`.

*Node*: each action of the composition maps to one of `Bridge` or leaves its
variables alone, which is the refinement `NodeImplementsBridge`. What the driver has
still to send, followed by the channel and by what the scheduler has taken, is what
the swarm has produced; `EventsInOrder` follows. It also says that the event in
progress has a greater number than all handled before (`Numbered`), so that the command
for it may follow those already sent, which is `AnnouncedInOrder`; taking a command of the
API out of the middle (`WithoutOne`) changes neither.

*CheckpointStore* assumes finitely many roots and at most one process that collects
(`Collector`): only one
`CheckpointStore` of a directory belongs to an orchestrator, and with two collectors
one could be about to unlink files of a directory another has removed and a save
remade. The invariant says how far the temporary directory of each save has got
(`SaveProgress`), and that what the collector is about to unlink is in a condemned
directory and still there (`GcProgress`): a rename only replaces an empty directory,
and in an empty directory nothing is left to unlink. For the links, a process between
rename and symlink has seen its directory complete. For `NewestKept`, `Keeping` says of all
that `gc` has still to remove, not only of what it has begun with, that enough newer
checkpoints are spared; as it removes the newest first, none of those is removed by it.

*Pipeline* assumes nothing but that `MaxLayers` is a number. `ShardsMeet` gives the first
layer of each shard in closed form: `k * (total \div n)` and as many more as shards
before it took one of the remainder. `CallsAdvance` says that a call before stage `d` has
applied the layers up to that bound, and the bound of the last stage is the whole model.

*Evolution* assumes `Quorate`: that the least number of voters times the quorum
exceeds one vote, as 2 and 60 percent do. Votes are only added to those sent, so
approvals of a mutation grow; all stored votes were sent (`StoredWereSent`); and a
proposed genome is an adopted one and one mutation more (`BasesByTwo`), whose last
mutation two peers approve when its proposal is accepted. The genome of a peer is in
its history (`CurrentIsHistory`), hence so is the base of what it votes on.
`OrderIsIrrelevant` is the lemma that lists of the same votes count the same.

`LeadingGenesKept` needs no quorum, only `GenesAssumption`: genes have different ids, a
proposal's id is new and names the gene it adds, and positions of additions are natural
numbers, as `MutationGenerator` draws them. `AdoptionInv` says that whatever is proposed or
adopted is a genome of different proposals that were broadcast. Then `GenesAreOwn` and
`AppliedGenes` show that no mutation gives two genes one id. As long as every gene up to
position `k` compiles to one module, the `k`-th gene, its module, the index that
`new_param_idx` has reached and the index of its old weights coincide (`CompiledPrefix`,
`ParamIdxIs`), no other gene writes there (`WritesOther`), and so a migration copies the
gene's own weights or initialises them afresh (`MigratedGene`). `UnbrokenStep` says how
the generation a gene's weights stem from goes on or starts again, and `GenesKeepWeights`
puts the steps together for any list of genomes, whether or not each extends the one before.

*Wire* assumes that names are numbers, that a tensor has as many cells as its shape says
and that top-k keeps no more than it has. The theorem rests on one lemma about
`Merkle`: lists of leaves with one root are one list (`RootsTell`), for an ideal hash. The
code neither hashes the number of leaves nor marks a promoted odd node, so that this is
not obvious. The argument goes down from the root layer by layer. In the d-th layer all
nodes but the last are d turns above the leaf their left children lead to (`Grown`); the
last may be less deep, having been promoted. A node that was combined therefore never
equals one that was promoted, so that a layer tells the one below and its length
(`NextLayerTells`), and layers above the root only repeat it (`RootStays`). `MessageInv`
says that a message under way is the encoded one but for the damaged field. What passes
the check has the sender's names and bytes (`VerifiedIsSent`), also where the root itself
was zeroed: the zero root is that of no parameters. What the compressors make of a tensor
is `SeenIsLossy`; for top-k, at each place of the order by magnitude there is one
cell (`PlaceTaken`), so that positions are not sent twice.

*Credits* and *Network* assume finitely many peers, a positive hour and interval, and that
amounts are natural numbers. `FreeTierPerProcess` speaks of any span of an hour; the
inductive `HoursKept` relates such spans to the hour of the account: what was granted in
this hour is what it counts, and no span that ends with it saw more than the limit before
it. So one process stays within two limits. `RestartInv` adds up the processes: all grants
of those before were made before this one began (`ServedBefore`), and until the first hour
of an account is over this one grants no more than one limit (`FirstHourKept`). A span in
which it began therefore has room for that limit beside all the others (`Room`,
`ServedWithin`), which its start has added to the bound; a span after it began has seen no
other process. `SafeEnough` carries `ProgressSurvivesCrash`: some multiple of the interval, not more
than an interval back, is in an intact file with the same weights, whatever a file that is
being written over or an older process left behind. For the milestones, that the levels of
each kind ascend (`GenesisAssumption`) makes one comparison stand for all: a level reached
is one that the best loss or the highest count has passed. `TrackerInv` is kept by each of
the four checks of a round in turn, which `RoundRecorded` puts together: what a check
appends is what it found earned and not yet achieved, and what is announced is what was
appended, so that `SameOrder` carries over.

*AgentSdk* assumes finitely many coroutines, that a credit keeps half its weight within a
day (its half-life is no shorter) and that a training round earns twice the threshold of a
contributor. The budgets are inductive with the calls in flight counted in advance
(`RequestBudget`, `TokenBudget`): a call that has passed the check uses up one of the
coroutines that may still exceed the limit. A tick only makes the windows smaller.

**Not proved, only model-checked.** `OnlyCircularWait` and the liveness of `Averages`:
liveness under fairness is out of the prover's reach. `SimulationAgrees` with a threshold
above the size of a single cluster holds of gradients whose divisions are exact, not of all.

## 6. Not modelled, and the plan

Left out, with the reasons in `PROJECT.json`: the work queue, which nothing uses;
the SDK's transport, command line and format adapters; the layers of a model and its
loading; peer discovery and configuration; dashboard and command line;
protocol buffers, deployment and site. Of modelled parts: `assess_quality`'s rules,
downloading and tokenising, hashes and the search for a proof of work, the bytes of a
message, `migrate_state_dict`, and reading operations throughout. Their
correctness is numerical or a matter of formats, not of states a checker can reach.

What is worth doing next, most useful first:

1. The orchestrator over `CheckpointStore`, with `load_latest` after a crash.
2. A round-level contract that `RoundCoordinator` implements as far as it does.
