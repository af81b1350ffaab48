--------------------------------- MODULE Node ---------------------------------
(***************************************************************************)
(* The tasks of a node (module NodeChannels) with the bridge to its engine *)
(* (module Bridge): handling start_compute, the scheduler calls train_step *)
(* and receives no event before the call is over.                          *)
(***************************************************************************)
EXTENDS NodeChannels, Bridge

NodeInit == Init /\ BridgeInit

StartEvent ==
  /\ SchedulerRecv
  /\ IF scheduler'.doing = "train" THEN CallTrainStep ELSE UNCHANGED bridge

TrainStepOver == TrainStepReturns /\ CallReturns

NodeScheduler ==
  \/ StartEvent \/ TrainStepOver
  \/ (SchedulerSend \/ SchedulerDone) /\ UNCHANGED bridge
  \/ Client /\ UNCHANGED vars

NodeDriver ==
  \/ \E kind \in Kind : SwarmEvent(<<kind>>)
  \/ \E n \in 2..MaxBatch : SwarmEvent([i \in 1..n |-> "plain"])
  \/ DriverSend \/ HandleCommand

NodeNext ==
  \/ NodeScheduler
  \/ NodeDriver /\ UNCHANGED bridge
  \/ (\E t \in ApiTask : ApiRequest(t) \/ ApiSend(t)) /\ UNCHANGED bridge
  \/ (Engine \/ Others) /\ UNCHANGED vars

(* tokio as in NodeChannels. The engine, while it runs, gets to every      *)
(* request it has accepted; it may crash and need not be started again,    *)
(* and an inference may wait for its activation for ever.                  *)
node == <<vars, bridge>>
NodeFairness ==
  /\ WF_node(DriverSend /\ UNCHANGED bridge) /\ WF_node(HandleCommand /\ UNCHANGED bridge)
  /\ WF_node(NodeScheduler)
  /\ \A t \in ApiTask : WF_node(ApiSend(t) /\ UNCHANGED bridge)
  /\ WF_node(Engine /\ UNCHANGED vars)

NodeSpec == NodeInit /\ [][NodeNext]_node /\ NodeFairness
=============================================================================
