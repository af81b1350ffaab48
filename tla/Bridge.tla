-------------------------------- MODULE Bridge --------------------------------
(***************************************************************************)
(* The bridge between node and engine: the HTTP client with retries of     *)
(* node/src/bridge.rs, which the scheduler uses for train_step, and the    *)
(* engine that answers: HttpBridgeServer and NodeBridge of bridge.py, the  *)
(* trainer, and InferenceServer with PipelineInferenceExecutor, whose      *)
(* inferences of other clients wait for activations in between.            *)
(*                                                                         *)
(* The engine is one asyncio thread: what happens between two awaits is    *)
(* one step, and whether gradients are recorded is a flag of the thread    *)
(* that torch.no_grad() sets and puts back. The switch of the layers       *)
(* between training and evaluation is left out, and so are requests that   *)
(* change nothing: health, get_gradients, merkle_root, set_gradients (it   *)
(* answers "ok" and does nothing) and inferences that wait for nobody.     *)
(***************************************************************************)
EXTENDS Integers, FiniteSets

CONSTANTS
  Inference,    \* requests for pipeline inference, each a task of the engine
  MaxRetries,   \* max_retries
  MaxCrashes    \* bound of the model on the crashes of the engine

ASSUME BridgeAssumption == {MaxRetries, MaxCrashes} \subseteq Nat

VARIABLES
  call,         \* the scheduler's call of train_step
  up,           \* the engine runs
  step_count,   \* steps of the trainer
  grad_enabled, \* the gradient mode of the engine's thread
  inferences,   \* the pipeline inferences in progress
  crashes, overlapped   \* auxiliary: crashes; two inferences were once in progress

bridge == <<call, up, step_count, grad_enabled, inferences, crashes, overlapped>>

(* "sent": written to an accepted connection; "trained": carried out and   *)
(* not yet answered; "unanswered" and "reset": what the client will read   *)
(* of a connection closed without an answer. executed and since are        *)
(* auxiliary: how often it was carried out, and the crashes before it.     *)
NoCall == [state |-> "none", attempt |-> 0, executed |-> 0, since |-> 0]
CallStates == {"none", "connect", "sent", "trained", "answered", "unanswered", "reset",
               "failed", "ok", "error"}
NoInference == [waits |-> FALSE, saved |-> TRUE]

BridgeInit ==
  /\ call = NoCall
  /\ up = TRUE /\ step_count = 0 /\ grad_enabled = TRUE
  /\ inferences = [i \in Inference |-> NoInference]
  /\ crashes = 0 /\ overlapped = FALSE

CallGoes(state) == call' = [call EXCEPT !.state = state]
EngineUnchanged == UNCHANGED <<up, step_count, grad_enabled, inferences, crashes, overlapped>>

-----------------------------------------------------------------------------
(* The node. *)
CallTrainStep ==
  /\ call.state = "none"
  /\ call' = [NoCall EXCEPT !.state = "connect", !.since = crashes]
  /\ EngineUnchanged

Connect ==
  /\ call.state = "connect"
  /\ CallGoes(IF up THEN "sent" ELSE "failed")
  /\ EngineUnchanged

(* Fault: the client gives up reading before the engine has answered. *)
ReadImpatient ==
  /\ call.state \in {"sent", "trained", "answered", "unanswered", "reset"}
  /\ CallGoes(CASE call.state = "answered"   -> "ok"
                [] call.state = "unanswered" -> "error"
                [] OTHER                     -> "failed")
  /\ EngineUnchanged

(* do_request reads to the end, without a time limit. What it cannot parse *)
(* it returns as an answer without data, which train_step takes for an     *)
(* error; only a failure to read is tried again.                           *)
Read ==
  /\ call.state \in {"answered", "unanswered", "reset"}
  /\ CallGoes(CASE call.state = "answered"   -> "ok"
                [] call.state = "unanswered" -> "error"
                [] call.state = "reset"      -> "failed")
  /\ EngineUnchanged

Retry ==
  /\ call.state = "failed"
  /\ IF call.attempt < MaxRetries
     THEN call' = [call EXCEPT !.state = "connect", !.attempt = @ + 1]
     ELSE CallGoes("error")
  /\ EngineUnchanged

CallReturns ==
  /\ call.state \in {"ok", "error"}
  /\ call' = NoCall
  /\ EngineUnchanged

-----------------------------------------------------------------------------
(* The engine. _handle_connection reads once. Header and body are written  *)
(* separately: without the body json.loads raises, the connection is       *)
(* closed, and what arrives then resets it.                                *)
HandleHeader ==
  /\ up /\ call.state = "sent"
  /\ \E closed \in {"unanswered", "reset"} : CallGoes(closed)
  /\ EngineUnchanged

(* Without gradients train_step raises in backward(), before it counts,    *)
(* and the connection is closed.                                           *)
HandleTrainStep ==
  /\ up /\ call.state = "sent"
  /\ IF grad_enabled
     THEN /\ call' = [call EXCEPT !.state = "trained", !.executed = @ + 1]
          /\ step_count' = step_count + 1
     ELSE /\ CallGoes("unanswered")
          /\ UNCHANGED step_count
  /\ UNCHANGED <<up, grad_enabled, inferences, crashes, overlapped>>

HandleAnswer ==
  /\ up /\ call.state = "trained"
  /\ CallGoes("answered")
  /\ EngineUnchanged

(* run_async up to its await, inside torch.no_grad(). *)
InferBegin(i) ==
  /\ up /\ ~inferences[i].waits
  /\ inferences' = [inferences EXCEPT ![i] = [waits |-> TRUE, saved |-> grad_enabled]]
  /\ grad_enabled' = FALSE
  /\ overlapped' = (overlapped \/ \E j \in Inference : inferences[j].waits)
  /\ UNCHANGED <<call, up, step_count, crashes>>

(* Fault: the mode is not put back. *)
InferEndLeaves(i) ==
  /\ up /\ inferences[i].waits
  /\ inferences' = [inferences EXCEPT ![i] = NoInference]
  /\ UNCHANGED <<call, up, step_count, grad_enabled, crashes, overlapped>>

(* The activation has come, or could not be had: no_grad() puts back the   *)
(* mode that it found.                                                     *)
InferEnd(i) ==
  /\ up /\ inferences[i].waits
  /\ inferences' = [inferences EXCEPT ![i] = NoInference]
  /\ grad_enabled' = inferences[i].saved
  /\ UNCHANGED <<call, up, step_count, crashes, overlapped>>

(* The engine dies, and with it what it has not written; it starts anew.   *)
EngineCrash ==
  /\ up /\ crashes < MaxCrashes
  /\ up' = FALSE /\ crashes' = crashes + 1
  /\ step_count' = 0 /\ grad_enabled' = TRUE /\ overlapped' = FALSE
  /\ inferences' = [i \in Inference |-> NoInference]
  /\ IF call.state \in {"sent", "trained"}
     THEN \E closed \in {"unanswered", "reset"} : CallGoes(closed)
     ELSE UNCHANGED call

EngineStart ==
  /\ ~up
  /\ up' = TRUE
  /\ UNCHANGED <<call, step_count, grad_enabled, inferences, crashes, overlapped>>

Client == Connect \/ Read \/ Retry
Engine == HandleHeader \/ HandleTrainStep \/ HandleAnswer
Others == EngineCrash \/ EngineStart \/ \E i \in Inference : InferBegin(i) \/ InferEnd(i)

BridgeNext == CallTrainStep \/ Client \/ CallReturns \/ Engine \/ Others
BridgeSpec == BridgeInit /\ [][BridgeNext]_bridge

-----------------------------------------------------------------------------
(* Retries do not train twice: only a crash of the engine between carrying *)
(* out a step and answering can make the node repeat it, so a call is      *)
(* carried out at most once more than the engine crashed meanwhile, and    *)
(* one that succeeds has been carried out.                                 *)
RetriesTrainOnce ==
  /\ call.executed <= 1 + crashes - call.since
  /\ call.state = "ok" => call.executed > 0

(* Nothing but the overlap of two inferences can leave gradients disabled  *)
(* once no inference is in progress.                                       *)
GradientsLostByOverlapOnly ==
  (\A i \in Inference : ~inferences[i].waits) => grad_enabled \/ overlapped
=============================================================================
