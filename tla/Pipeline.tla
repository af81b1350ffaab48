------------------------------ MODULE Pipeline ------------------------------
(***************************************************************************)
(* model/shard.py and model/pipeline.py: split_model cuts the layers of a  *)
(* model into contiguous shards, and PipelineExecutor sends activations    *)
(* through them, some held by this process and some by other peers.  An    *)
(* activation is the sequence of the layers that have been applied to the  *)
(* input; layers are numbered from 0.                                      *)
(***************************************************************************)
EXTENDS Integers, Sequences

CONSTANTS
  MaxLayers,     \* bound on the layers of a model
  Caller         \* concurrent calls of forward and forward_async

ASSUME MaxLayersAssumption == MaxLayers \in Nat

VARIABLES
  total,         \* len(all_layers)
  n_shards,
  shards,        \* split so far: layer_start is inclusive, layer_end exclusive
  start,         \* of the next shard
  status,        \* "model", "splitting" or "executor"
  send_fn,       \* the stages with a send_fn
  recv_fn,       \* the stages with a recv_fn
  calls          \* phase, is it forward_async, stage and activation of each call

pipelineVars == <<total, n_shards, shards, start, status, send_fn, recv_fn, calls>>
splitVars == <<total, n_shards, shards, start, status, send_fn, recv_fn>>

NoCall == [phase |-> "idle", async |-> FALSE, stage |-> 0, activation |-> <<>>]

PipelineInit ==
  /\ total = 0 /\ n_shards = 0
  /\ shards = <<>> /\ start = 0
  /\ status = "model"
  /\ send_fn = {} /\ recv_fn = {}
  /\ calls = [c \in Caller |-> NoCall]

(* split_model raises for more shards than layers and for none at all.     *)
SplitModel(layers, n) ==
  /\ status = "model" /\ n \in 1..layers
  /\ status' = "splitting"
  /\ total' = layers /\ n_shards' = n
  /\ UNCHANGED <<shards, start, send_fn, recv_fn, calls>>

chunk_size == total \div n_shards
remainder == total % n_shards

ShardTo(end) ==
  /\ status = "splitting" /\ Len(shards) < n_shards
  /\ shards' = Append(shards, [layer_start |-> start, layer_end |-> end])
  /\ start' = end
  /\ UNCHANGED <<total, n_shards, status, send_fn, recv_fn, calls>>

(* One turn of the loop: the first shards take one more layer each.        *)
NextShard == ShardTo(start + chunk_size + (IF Len(shards) < remainder THEN 1 ELSE 0))

(* A stage for each shard; PipelineExecutor.local gives none a callable.   *)
BuildExecutor(sending, receiving) ==
  /\ status = "splitting" /\ Len(shards) = n_shards
  /\ status' = "executor"
  /\ send_fn' = sending /\ recv_fn' = receiving
  /\ UNCHANGED <<total, n_shards, shards, start, calls>>

Begin(c, async) ==
  /\ status = "executor" /\ calls[c].phase # "running"
  /\ calls' = [calls EXCEPT ![c] = [phase |-> "running", async |-> async, stage |-> 1, activation |-> <<>>]]
  /\ UNCHANGED splitVars

(* forward takes a stage as remote with both callables, forward_async with *)
(* send_fn alone.                                                          *)
Remote(c) == /\ calls[c].stage \in send_fn
             /\ calls[c].async \/ calls[c].stage \in recv_fn

(* ModelShard.forward: the layers of the shard, in order.                  *)
ShardForward(shard, activation) ==
  activation \o [i \in 1..(shard.layer_end - shard.layer_start) |-> shard.layer_start + i - 1]

(* Run here or, for a remote stage, by the peer that holds this shard; the *)
(* activation itself arrives unchanged (torch.save, torch.load).           *)
RunStage(c) ==
  /\ calls[c].phase = "running" /\ calls[c].stage <= n_shards
  /\ calls' = [calls EXCEPT ![c].stage = @ + 1,
                            ![c].activation = ShardForward(shards[calls[c].stage], @)]
  /\ UNCHANGED splitVars

(* Fault: a stage that does not answer is passed over. *)
StageFailsSkipped(c) ==
  /\ calls[c].phase = "running" /\ calls[c].stage <= n_shards /\ Remote(c)
  /\ calls' = [calls EXCEPT ![c].stage = @ + 1]
  /\ UNCHANGED splitVars

(* send_fn raises and the call ends; nothing of it is kept.                *)
StageFails(c) ==
  /\ calls[c].phase = "running" /\ calls[c].stage <= n_shards /\ Remote(c)
  /\ calls' = [calls EXCEPT ![c] = NoCall]
  /\ UNCHANGED splitVars

Return(c) ==
  /\ calls[c].phase = "running" /\ calls[c].stage > n_shards
  /\ calls' = [calls EXCEPT ![c].phase = "returned"]
  /\ UNCHANGED splitVars

PipelineNext ==
  \/ \E layers \in 1..MaxLayers, n \in 1..MaxLayers : SplitModel(layers, n)
  \/ NextShard
  \/ \E sending, receiving \in SUBSET (1..n_shards) : BuildExecutor(sending, receiving)
  \/ \E c \in Caller :
       \/ \E async \in BOOLEAN : Begin(c, async)
       \/ RunStage(c) \/ StageFails(c) \/ Return(c)

PipelineSpec == PipelineInit /\ [][PipelineNext]_pipelineVars

Size(i) == shards[i].layer_end - shards[i].layer_start

(***************************************************************************)
(* split_model: the shards of an executor follow each other from the first *)
(* layer to the last, none is empty, and their sizes differ by at most one *)
(* ("roughly equal shards").                                               *)
(***************************************************************************)
SplitCoversModel ==
  status = "executor" =>
    /\ Len(shards) = n_shards
    /\ shards[1].layer_start = 0 /\ shards[n_shards].layer_end = total
    /\ \A i \in 1..(n_shards - 1) : shards[i + 1].layer_start = shards[i].layer_end
    /\ \A i, j \in 1..n_shards : Size(i) > 0 /\ Size(i) <= Size(j) + 1

(***************************************************************************)
(* forward, forward_async: whichever stages are remote and whichever calls *)
(* failed or overlapped before, a call that returns has applied every      *)
(* layer of the model once and in order.                                   *)
(***************************************************************************)
ForwardIsWholeModel ==
  \A c \in Caller :
    calls[c].phase = "returned" => calls[c].activation = [i \in 1..total |-> i - 1]
=============================================================================
