---------------------------- MODULE NodeChannels ----------------------------
(***************************************************************************)
(* The tasks of a Rust node (main.rs) and the two bounded channels between *)
(* them (network/mod.rs): the swarm driver sends events to the scheduler,  *)
(* the scheduler and the API send commands to the driver. Every send waits *)
(* for capacity, and no task receives while it waits.                      *)
(*                                                                         *)
(* Of a message only what its handler does with the channels matters: its  *)
(* kind. Events are numbered as the swarm produces them, handled and       *)
(* publishedFor are auxiliary. Heartbeats and dials use no channel.        *)
(***************************************************************************)
EXTENDS Integers, Sequences, SequencesExt, FiniteSets

CONSTANTS
  ApiTask,       \* connections of the API server
  Kind,          \* kinds of events that occur, of "plain", "train", "announce"
  Capacity,      \* capacity of each channel
  MaxBatch,      \* bound of the model on the peers of one mDNS event
  MaxEvents,     \* bound of the model on the events produced
  MaxRequests    \* bound of the model on the /publish requests

ASSUME ChannelsAssumption ==
  /\ Kind \subseteq {"plain", "train", "announce"}
  /\ {Capacity, MaxBatch} \subseteq Nat \ {0}
  /\ {MaxEvents, MaxRequests} \subseteq Nat

VARIABLES
  events,        \* the channel event_tx -> event_rx
  commands,      \* the channel command_tx -> command_rx
  sending,       \* the events of the swarm event the driver still has to send
  scheduler,     \* what the scheduler is doing
  api,           \* the API tasks waiting to send
  produced, requests, handled, publishedFor

vars == <<events, commands, sending, scheduler, api, produced, requests, handled,
          publishedFor>>

Event == [id : Nat \ {0}, kind : Kind]
NoEvent == [id |-> 0, kind |-> "plain"]
Idle == [doing |-> "recv", event |-> NoEvent]

(* A command of the scheduler carries the event that caused it, 0 the API's. *)
Init ==
  /\ events = << >> /\ commands = << >>
  /\ sending = << >>
  /\ scheduler = Idle
  /\ api = {}
  /\ produced = 0 /\ requests = 0
  /\ handled = << >> /\ publishedFor = << >>

-----------------------------------------------------------------------------
(* The driver. A swarm event gives one event, or one per peer of the list  *)
(* that mDNS discovered or let expire.                                     *)
SwarmEvent(kinds) ==
  /\ sending = << >>
  /\ produced + Len(kinds) <= MaxEvents
  /\ sending' = [i \in 1..Len(kinds) |-> [id |-> produced + i, kind |-> kinds[i]]]
  /\ produced' = produced + Len(kinds)
  /\ UNCHANGED <<events, commands, scheduler, api, requests, handled, publishedFor>>

(* Faults: an event is dropped when the channel is full; the driver waits  *)
(* for room for all the events it has.                                     *)
DriverTrySend ==
  /\ sending # << >>
  /\ events' = IF Len(events) < Capacity THEN Append(events, Head(sending)) ELSE events
  /\ sending' = Tail(sending)
  /\ UNCHANGED <<commands, scheduler, api, produced, requests, handled, publishedFor>>
DriverSendAll ==
  /\ sending # << >> /\ Len(events) + Len(sending) <= Capacity
  /\ events' = Append(events, Head(sending))
  /\ sending' = Tail(sending)
  /\ UNCHANGED <<commands, scheduler, api, produced, requests, handled, publishedFor>>

DriverSend ==
  /\ sending # << >> /\ Len(events) < Capacity
  /\ events' = Append(events, Head(sending))
  /\ sending' = Tail(sending)
  /\ UNCHANGED <<commands, scheduler, api, produced, requests, handled, publishedFor>>

(* handle_command; what gossipsub makes of it is logged at most. *)
HandleCommand ==
  /\ sending = << >> /\ commands # << >>
  /\ publishedFor' = IF Head(commands) = 0 THEN publishedFor
                     ELSE Append(publishedFor, Head(commands))
  /\ commands' = Tail(commands)
  /\ UNCHANGED <<events, sending, scheduler, api, produced, requests, handled>>

-----------------------------------------------------------------------------
(* The scheduler handles one event to the end before it receives the next. *)
DoingFor(kind) ==
  CASE kind = "train" -> "train" [] kind = "announce" -> "send" [] OTHER -> "done"

(* Fault: the next event is taken without waiting for the command. *)
SchedulerRecvEager ==
  /\ scheduler.doing \in {"recv", "send"} /\ events # << >>
  /\ scheduler' = [doing |-> DoingFor(Head(events).kind), event |-> Head(events)]
  /\ events' = Tail(events)
  /\ handled' = IF scheduler = Idle THEN handled ELSE Append(handled, scheduler.event)
  /\ UNCHANGED <<commands, sending, api, produced, requests, publishedFor>>

SchedulerRecv ==
  /\ scheduler.doing = "recv" /\ events # << >>
  /\ scheduler' = [doing |-> DoingFor(Head(events).kind), event |-> Head(events)]
  /\ events' = Tail(events)
  /\ UNCHANGED <<commands, sending, api, produced, requests, handled, publishedFor>>

(* engine.train_step has answered or failed. *)
TrainStepReturns ==
  /\ scheduler.doing = "train"
  /\ scheduler' = [scheduler EXCEPT !.doing = "done"]
  /\ UNCHANGED <<events, commands, sending, api, produced, requests, handled, publishedFor>>

SchedulerSend ==
  /\ scheduler.doing = "send" /\ Len(commands) < Capacity
  /\ commands' = Append(commands, scheduler.event.id)
  /\ scheduler' = [scheduler EXCEPT !.doing = "done"]
  /\ UNCHANGED <<events, sending, api, produced, requests, handled, publishedFor>>

SchedulerDone ==
  /\ scheduler.doing = "done"
  /\ handled' = Append(handled, scheduler.event)
  /\ scheduler' = Idle
  /\ UNCHANGED <<events, commands, sending, api, produced, requests, publishedFor>>

-----------------------------------------------------------------------------
(* The API server, POST /publish. *)
ApiRequest(t) ==
  /\ t \notin api /\ requests < MaxRequests
  /\ api' = api \cup {t} /\ requests' = requests + 1
  /\ UNCHANGED <<events, commands, sending, scheduler, produced, handled, publishedFor>>

ApiSend(t) ==
  /\ t \in api /\ Len(commands) < Capacity
  /\ commands' = Append(commands, 0)
  /\ api' = api \ {t}
  /\ UNCHANGED <<events, sending, scheduler, produced, requests, handled, publishedFor>>

Scheduler == SchedulerRecv \/ TrainStepReturns \/ SchedulerSend \/ SchedulerDone

Next ==
  \/ \E kind \in Kind : SwarmEvent(<<kind>>)
  \/ \E n \in 2..MaxBatch : SwarmEvent([i \in 1..n |-> "plain"])
  \/ DriverSend \/ HandleCommand
  \/ Scheduler
  \/ \E t \in ApiTask : ApiRequest(t) \/ ApiSend(t)

(* tokio runs every task that can run and serves waiting senders in turn;  *)
(* select! chooses among the ready branches at random; engine calls end.   *)
Fairness ==
  /\ WF_vars(DriverSend) /\ WF_vars(HandleCommand)
  /\ WF_vars(Scheduler)
  /\ \A t \in ApiTask : WF_vars(ApiSend(t))

Spec == Init /\ [][Next]_vars /\ Fairness

-----------------------------------------------------------------------------
InProgress == IF scheduler = Idle THEN << >> ELSE <<scheduler.event>>

(* Every event of the swarm is somewhere between the driver and the        *)
(* scheduler, once, and they are handled in the order they were produced.  *)
EventsInOrder ==
  LET all == handled \o InProgress \o events \o sending IN
    /\ Len(all) = produced
    /\ \A i \in 1..produced : all[i].id = i

(* The events handled so far that ask for an announcement, and what has    *)
(* been sent to the driver for them; 0 is the API's.                       *)
Due == {e \in ToSet(handled) \cup (IF scheduler.doing = "done" THEN {scheduler.event} ELSE {}) :
          e.kind = "announce"}
Sent == publishedFor \o commands

(* Each handled event that asks for an announcement is announced once, in  *)
(* the order of the events, whatever the API publishes in between.         *)
AnnouncedInOrder ==
  /\ ToSet(Sent) \ {0} = {e.id : e \in Due}
  /\ \A i, j \in DOMAIN Sent : i < j /\ 0 \notin {Sent[i], Sent[j]} => Sent[i] < Sent[j]

(* Both tasks wait for the other to receive: nothing moves any more. *)
CircularWait ==
  /\ sending # << >> /\ Len(events) = Capacity
  /\ scheduler.doing = "send" /\ Len(commands) = Capacity

(* The circular wait is the only way to get stuck: unless the node runs    *)
(* into it, every event is handled and every command published.            *)
OnlyCircularWait ==
  /\ \A n \in 1..MaxEvents : produced >= n ~> (Len(handled) >= n \/ CircularWait)
  /\ \A t \in ApiTask : t \in api ~> (t \notin api \/ CircularWait)
  /\ commands # << >> ~> (commands = << >> \/ CircularWait)

(* network/mod.rs:80, "Main loop: drive the swarm and process commands.":  *)
(* the loop gets back to its select, so every command is taken.            *)
CommandsTaken == Len(commands) = Capacity ~> Len(commands) < Capacity
=============================================================================
