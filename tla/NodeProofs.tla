------------------------------ MODULE NodeProofs ------------------------------
(***************************************************************************)
(* What retries and concurrent inferences do to training, for any number   *)
(* of retries, crashes and inferences (Bridge); that the composition of a  *)
(* node and its engine implements the bridge, and that for channels of any *)
(* capacity no event is lost, doubled or overtaken (Node).                 *)
(***************************************************************************)
EXTENDS Node, SequenceTheorems, TLAPS

Crashes(c) == crashes - c.since

(* A call may be one execution ahead of the crashes only as long as its    *)
(* connection has not been lost: between the execution and the next crash  *)
(* the engine answers, and the client reads to the end.                    *)
ExecutedOnce ==
  IF call.state \in {"trained", "answered", "ok"}
  THEN call.executed \in 1..(1 + Crashes(call))
  ELSE call.executed \in 0..Crashes(call)

(* As long as no two inferences have overlapped, at most one is in         *)
(* progress, and it found gradients enabled.                               *)
OneSavedMode ==
  ~overlapped =>
    /\ \A i, j \in Inference : inferences[i].waits /\ inferences[j].waits => i = j
    /\ \A i \in Inference : inferences[i].waits => inferences[i].saved
    /\ (\A i \in Inference : ~inferences[i].waits) => grad_enabled

Calls == [state : CallStates, attempt : Nat, executed : Nat, since : Nat]

BridgeTypeOK ==
  /\ call \in Calls
  /\ up \in BOOLEAN /\ grad_enabled \in BOOLEAN /\ overlapped \in BOOLEAN
  /\ step_count \in Nat /\ crashes \in Nat
  /\ inferences \in [Inference -> [waits : BOOLEAN, saved : BOOLEAN]]

BridgeInv == BridgeTypeOK /\ ExecutedOnce /\ OneSavedMode

-----------------------------------------------------------------------------
(* No step of the client, the engine or its other clients leaves the       *)
(* domains of the variables.                                               *)
LEMMA TypeStep == BridgeTypeOK /\ [BridgeNext]_bridge => BridgeTypeOK'
<1> SUFFICES ASSUME BridgeTypeOK, [BridgeNext]_bridge PROVE BridgeTypeOK'
    OBVIOUS
<1> USE DEF BridgeTypeOK, Calls, CallStates
<1>1. CASE CallTrainStep
    BY <1>1 DEF CallTrainStep, NoCall, EngineUnchanged
<1>2. CASE Client
  <2>1. call' \in Calls
    <3>1. CASE Connect
        BY <3>1 DEF Connect, CallGoes
    <3>2. CASE Read
        BY <3>2 DEF Read, CallGoes
    <3>3. CASE Retry
      <4>1. CASE call.attempt < MaxRetries
        <5>1. call' = [call EXCEPT !.state = "connect", !.attempt = @ + 1]
            BY <3>3, <4>1 DEF Retry
        <5>2. call.attempt + 1 \in Nat /\ "connect" \in CallStates
            OBVIOUS
        <5> QED BY <5>1, <5>2, Zenon DEF Calls
      <4>2. CASE ~(call.attempt < MaxRetries)
          BY <3>3, <4>2 DEF Retry, CallGoes
      <4> QED BY <4>1, <4>2
    <3> QED BY <1>2, <3>1, <3>2, <3>3 DEF Client
  <2> QED BY <1>2, <2>1 DEF Client, Connect, Read, Retry, EngineUnchanged
<1>3. CASE CallReturns
    BY <1>3 DEF CallReturns, NoCall, EngineUnchanged
<1>4. CASE Engine
  <2>1. CASE HandleHeader
      BY <2>1 DEF HandleHeader, CallGoes, EngineUnchanged
  <2>2. CASE HandleTrainStep
    <3>1. call' \in Calls /\ step_count' \in Nat
      <4>1. CASE grad_enabled
        <5>1. /\ call' = [call EXCEPT !.state = "trained", !.executed = @ + 1]
              /\ step_count' = step_count + 1
            BY <2>2, <4>1 DEF HandleTrainStep
        <5>2. call.executed + 1 \in Nat /\ step_count + 1 \in Nat /\ "trained" \in CallStates
            OBVIOUS
        <5>3. call' \in Calls
            BY <5>1, <5>2
        <5> QED BY <5>1, <5>2, <5>3
      <4>2. CASE ~grad_enabled
          BY <2>2, <4>2 DEF HandleTrainStep, CallGoes
      <4> QED BY <4>1, <4>2
    <3> QED BY <2>2, <3>1 DEF HandleTrainStep
  <2>3. CASE HandleAnswer
      BY <2>3 DEF HandleAnswer, CallGoes, EngineUnchanged
  <2> QED BY <1>4, <2>1, <2>2, <2>3 DEF Engine
<1>5. CASE Others
  <2>1. CASE EngineCrash
    <3>1. call' \in Calls
        BY <2>1 DEF EngineCrash, CallGoes
    <3>2. inferences' \in [Inference -> [waits : BOOLEAN, saved : BOOLEAN]]
        BY <2>1 DEF EngineCrash, NoInference
    <3>3. up' \in BOOLEAN /\ grad_enabled' \in BOOLEAN /\ overlapped' \in BOOLEAN
        BY <2>1, Zenon DEF EngineCrash
    <3>4. step_count' \in Nat /\ crashes' \in Nat
        BY <2>1 DEF EngineCrash
    <3> QED BY <3>1, <3>2, <3>3, <3>4
  <2>2. CASE EngineStart
      BY <2>2 DEF EngineStart
  <2>3. ASSUME NEW i \in Inference, InferBegin(i) PROVE BridgeTypeOK'
      BY <2>3 DEF InferBegin
  <2>4. ASSUME NEW i \in Inference, InferEnd(i) PROVE BridgeTypeOK'
      BY <2>4 DEF InferEnd, NoInference
  <2> QED BY <1>5, <2>1, <2>2, <2>3, <2>4 DEF Others
<1>6. CASE UNCHANGED bridge
    BY <1>6 DEF bridge
<1> QED BY <1>1, <1>2, <1>3, <1>4, <1>5, <1>6 DEF BridgeNext

(* The executions of a call stay within what the crashes explain. *)
LEMMA ExecutedStep ==
  BridgeTypeOK /\ ExecutedOnce /\ [BridgeNext]_bridge => ExecutedOnce'
<1> SUFFICES ASSUME BridgeTypeOK, ExecutedOnce, [BridgeNext]_bridge PROVE ExecutedOnce'
    OBVIOUS
<1> USE DEF BridgeTypeOK, ExecutedOnce, Crashes, Calls, CallStates
<1>1. CASE CallTrainStep
    BY <1>1 DEF CallTrainStep, NoCall, EngineUnchanged
<1>2. CASE Client
  <2>1. CASE Connect
      BY <2>1 DEF Connect, CallGoes, EngineUnchanged
  <2>2. CASE Read
      BY <2>2 DEF Read, CallGoes, EngineUnchanged
  <2>3. CASE Retry
      BY <2>3 DEF Retry, CallGoes, EngineUnchanged
  <2> QED BY <1>2, <2>1, <2>2, <2>3 DEF Client
<1>3. CASE CallReturns
    BY <1>3 DEF CallReturns, NoCall, EngineUnchanged
<1>4. CASE Engine
  <2>1. CASE HandleHeader
      BY <2>1 DEF HandleHeader, CallGoes, EngineUnchanged
  <2>2. CASE HandleTrainStep
    <3>1. CASE grad_enabled
      <4>1. /\ call' = [call EXCEPT !.state = "trained", !.executed = @ + 1]
            /\ crashes' = crashes /\ call.state = "sent"
          BY <2>2, <3>1 DEF HandleTrainStep
      <4> QED BY <4>1
    <3>2. CASE ~grad_enabled
        BY <2>2, <3>2 DEF HandleTrainStep, CallGoes
    <3> QED BY <3>1, <3>2
  <2>3. CASE HandleAnswer
      BY <2>3 DEF HandleAnswer, CallGoes, EngineUnchanged
  <2> QED BY <1>4, <2>1, <2>2, <2>3 DEF Engine
<1>5. CASE Others
  <2>1. CASE EngineCrash
      BY <2>1 DEF EngineCrash, CallGoes
  <2>2. CASE EngineStart
      BY <2>2 DEF EngineStart
  <2>3. ASSUME NEW i \in Inference, InferBegin(i) \/ InferEnd(i) PROVE ExecutedOnce'
      BY <2>3 DEF InferBegin, InferEnd
  <2> QED BY <1>5, <2>1, <2>2, <2>3 DEF Others
<1>6. CASE UNCHANGED bridge
    BY <1>6 DEF bridge
<1> QED BY <1>1, <1>2, <1>3, <1>4, <1>5, <1>6 DEF BridgeNext

(* An inference that begins alone finds gradients enabled and puts them    *)
(* back; one that does not is an overlap.                                  *)
LEMMA SavedModeStep ==
  BridgeTypeOK /\ OneSavedMode /\ [BridgeNext]_bridge => OneSavedMode'
<1> SUFFICES ASSUME BridgeTypeOK, OneSavedMode, [BridgeNext]_bridge PROVE OneSavedMode'
    OBVIOUS
<1> USE DEF BridgeTypeOK, OneSavedMode
<1>1. CASE UNCHANGED <<grad_enabled, inferences, overlapped>>
    BY <1>1
<1>2. CASE EngineCrash
    BY <1>2 DEF EngineCrash, NoInference
<1>3. ASSUME NEW i \in Inference, InferBegin(i) PROVE OneSavedMode'
    BY <1>3 DEF InferBegin
<1>4. ASSUME NEW i \in Inference, InferEnd(i) PROVE OneSavedMode'
  <2> SUFFICES ASSUME ~overlapped PROVE OneSavedMode'
      BY <1>4 DEF InferEnd
  <2>1. inferences[i].saved /\ grad_enabled'
      BY <1>4 DEF InferEnd
  <2> QED BY <1>4, <2>1 DEF InferEnd, NoInference
<1>5. BridgeNext => \/ UNCHANGED <<grad_enabled, inferences, overlapped>>
                    \/ EngineCrash
                    \/ \E i \in Inference : InferBegin(i) \/ InferEnd(i)
    BY DEF BridgeNext, CallTrainStep, Client, Connect, Read, Retry, CallReturns, Engine,
           HandleHeader, HandleTrainStep, HandleAnswer, Others, EngineStart, EngineUnchanged
<1>6. UNCHANGED bridge => UNCHANGED <<grad_enabled, inferences, overlapped>>
    BY DEF bridge
<1> QED BY <1>1, <1>2, <1>3, <1>4, <1>5, <1>6

-----------------------------------------------------------------------------
(* The inductive invariant of the bridge. *)
THEOREM BridgeSafety == BridgeSpec => []BridgeInv
<1>1. BridgeInit => BridgeInv
  <2> SUFFICES ASSUME BridgeInit PROVE BridgeInv
      OBVIOUS
  <2>1. BridgeTypeOK
      BY DEF BridgeInit, BridgeTypeOK, Calls, NoCall, NoInference, CallStates
  <2>2. ExecutedOnce
      BY DEF BridgeInit, ExecutedOnce, Crashes, NoCall
  <2>3. OneSavedMode
      BY DEF BridgeInit, OneSavedMode, NoInference
  <2> QED BY <2>1, <2>2, <2>3 DEF BridgeInv
<1>2. BridgeInv /\ [BridgeNext]_bridge => BridgeInv'
    BY TypeStep, ExecutedStep, SavedModeStep DEF BridgeInv
<1> QED BY <1>1, <1>2, PTL DEF BridgeSpec

(* However often a call is retried, it is carried out at most once more    *)
(* than the engine crashed meanwhile (bridge.rs request, do_request).      *)
THEOREM NoDoubleTraining == BridgeSpec => []RetriesTrainOnce
<1>1. BridgeInv => RetriesTrainOnce
    BY DEF BridgeInv, BridgeTypeOK, Calls, ExecutedOnce, Crashes, RetriesTrainOnce
<1> QED BY <1>1, BridgeSafety, PTL

(* For any number of pipeline inferences only an overlap of two can leave  *)
(* the engine without gradients (pipeline_exec.py run_async).              *)
THEOREM GradientsComeBack == BridgeSpec => []GradientsLostByOverlapOnly
<1>1. BridgeInv => GradientsLostByOverlapOnly
    BY DEF BridgeInv, OneSavedMode, GradientsLostByOverlapOnly
<1> QED BY <1>1, BridgeSafety, PTL

-----------------------------------------------------------------------------
AnyKind == {"plain", "train", "announce"}
AnyEvent == [id : Nat, kind : AnyKind]

(* What is still on its way, behind what has been handled. *)
Pipe == handled \o InProgress \o events \o sending

ChannelTypes ==
  /\ events \in Seq(AnyEvent) /\ sending \in Seq(AnyEvent) /\ handled \in Seq(AnyEvent)
  /\ scheduler \in [doing : {"recv", "train", "send", "done"}, event : AnyEvent]
  /\ scheduler.doing = "recv" => scheduler = Idle
  /\ produced \in Nat

ChannelsInv == ChannelTypes /\ EventsInOrder

-----------------------------------------------------------------------------
(* The next element moves from the end of one sequence to the front of the *)
(* other, and their concatenation stays the same.                          *)
LEMMA Passed ==
  ASSUME NEW S, NEW a \in Seq(S), NEW b \in Seq(S), b # << >>
  PROVE  /\ Append(a, Head(b)) \in Seq(S) /\ Tail(b) \in Seq(S)
         /\ Append(a, Head(b)) \o Tail(b) = a \o b
<1>1. /\ Head(b) \in S /\ Tail(b) \in Seq(S) /\ Len(Tail(b)) = Len(b) - 1
      /\ \A i \in 1..Len(Tail(b)) : Tail(b)[i] = b[i + 1]
      /\ Len(b) \in Nat \ {0} /\ Len(a) \in Nat /\ Head(b) = b[1]
    BY HeadTailProperties, EmptySeq
<1> DEFINE c == Append(a, Head(b))
           x == c \o Tail(b)
           y == a \o b
<1>2. /\ c \in Seq(S) /\ Len(c) = Len(a) + 1
      /\ \A i \in 1..Len(a) : c[i] = a[i]
      /\ c[Len(a) + 1] = b[1]
    BY <1>1
<1> HIDE DEF c
<1>3. /\ x \in Seq(S) /\ Len(x) = Len(c) + Len(Tail(b))
      /\ \A i \in 1..(Len(c) + Len(Tail(b))) :
           x[i] = IF i <= Len(c) THEN c[i] ELSE Tail(b)[i - Len(c)]
    BY <1>1, <1>2, ConcatProperties
<1>4. /\ y \in Seq(S) /\ Len(y) = Len(a) + Len(b)
      /\ \A i \in 1..(Len(a) + Len(b)) : y[i] = IF i <= Len(a) THEN a[i] ELSE b[i - Len(a)]
    BY ConcatProperties
<1> HIDE DEF x, y
<1>5. Len(x) = Len(y)
    BY <1>1, <1>2, <1>3, <1>4
<1>6. ASSUME NEW i \in 1..Len(x) PROVE x[i] = y[i]
  <2>1. CASE i <= Len(a)
    <3>1. x[i] = c[i]
        BY <2>1, <1>1, <1>2, <1>3
    <3>2. y[i] = a[i]
        BY <2>1, <1>1, <1>2, <1>3, <1>4
    <3>3. c[i] = a[i]
        BY <2>1, <1>1, <1>2
    <3> QED BY <3>1, <3>2, <3>3
  <2>2. CASE i = Len(a) + 1
      BY <2>2, <1>1, <1>2, <1>3, <1>4
  <2>3. CASE i > Len(a) + 1
    <3>1. /\ i - Len(c) \in 1..Len(Tail(b)) /\ i - Len(c) + 1 = i - Len(a)
          /\ ~(i <= Len(c)) /\ ~(i <= Len(a))
          /\ i \in 1..(Len(c) + Len(Tail(b))) /\ i \in 1..(Len(a) + Len(b))
        BY <2>3, <1>1, <1>2, <1>3
    <3>2. x[i] = Tail(b)[i - Len(c)]
        BY <3>1, <1>3
    <3>3. y[i] = b[i - Len(a)]
        BY <3>1, <1>4
    <3> QED BY <3>1, <3>2, <3>3, <1>1
  <2> QED BY <2>1, <2>2, <2>3, <1>1, <1>2, <1>3
<1>7. x = y
    BY <1>3, <1>4, <1>5, <1>6, SeqEqual
<1> QED BY <1>1, <1>2, <1>7 DEF c, x, y

-----------------------------------------------------------------------------
(* The driver appends the events of one swarm event, numbered on.          *)
LEMMA Produced ==
  ASSUME ChannelsInv, NEW kinds \in Seq(AnyKind), SwarmEvent(kinds)
  PROVE  ChannelsInv'
<1> DEFINE new == [i \in 1..Len(kinds) |-> [id |-> produced + i, kind |-> kinds[i]]]
           old == handled \o InProgress \o events
<1> USE DEF ChannelsInv, ChannelTypes
<1>1. new \in Seq(AnyEvent) /\ Len(new) = Len(kinds) /\ Len(kinds) \in Nat
    BY DEF AnyEvent
<1>2. InProgress \in Seq(AnyEvent) /\ InProgress' = InProgress
    BY DEF InProgress, SwarmEvent
<1>3. old \in Seq(AnyEvent)
    BY <1>2, ConcatProperties
<1>4. Pipe = old
    BY <1>3, ConcatEmptySeq DEF Pipe, SwarmEvent
<1>5. Pipe' = old \o new
    BY <1>2 DEF Pipe, SwarmEvent
<1> DEFINE all == old \o new
<1>6. Len(old) = produced /\ \A i \in 1..produced : old[i].id = i
    BY <1>4 DEF EventsInOrder, Pipe
<1>7. \A i \in 1..Len(kinds) : new[i].id = produced + i
    OBVIOUS
<1> HIDE DEF old, new
<1>8. /\ Len(all) = Len(old) + Len(new)
      /\ \A i \in 1..(Len(old) + Len(new)) :
           all[i] = IF i <= Len(old) THEN old[i] ELSE new[i - Len(old)]
  <2>1. old \in Seq(AnyEvent) /\ new \in Seq(AnyEvent)
      BY <1>1, <1>3
  <2> HIDE DEF ChannelsInv, ChannelTypes
  <2> QED BY <2>1, ConcatProperties
<1> HIDE DEF all
<1>9. ASSUME NEW i \in 1..(produced + Len(kinds)) PROVE all[i].id = i
  <2>1. CASE i <= produced
      BY <2>1, <1>1, <1>6, <1>8
  <2>2. CASE i > produced
    <3>1. i - produced \in 1..Len(kinds)
        BY <2>2, <1>1
    <3>2. new[i - produced].id = produced + (i - produced)
        BY <3>1, <1>7
    <3>3. all[i] = new[i - produced]
        BY <2>2, <1>1, <1>6, <1>8
    <3> QED BY <3>2, <3>3
  <2> QED BY <2>1, <2>2
<1>10. EventsInOrder'
  <2>1. Pipe' = all /\ produced' = produced + Len(kinds)
      BY <1>5 DEF all, SwarmEvent
  <2> QED BY <2>1, <1>1, <1>6, <1>8, <1>9 DEF EventsInOrder, Pipe
<1>11. ChannelTypes'
    BY <1>1 DEF SwarmEvent, new
<1> QED BY <1>10, <1>11

(* Steps that produce nothing and leave the pipeline as it is. *)
LEMMA PipeKept ==
  ASSUME ChannelsInv, ChannelTypes', Pipe' = Pipe, produced' = produced
  PROVE  ChannelsInv'
BY DEF ChannelsInv, EventsInOrder, Pipe

(* Every step of driver, scheduler and API keeps the order of the events. *)
LEMMA ChannelsStep == ChannelsInv /\ [Next]_vars => ChannelsInv'
<1> SUFFICES ASSUME ChannelsInv, [Next]_vars PROVE ChannelsInv'
    OBVIOUS
<1> USE DEF ChannelTypes
<1>0. ChannelTypes /\ InProgress \in Seq(AnyEvent)
    BY DEF ChannelsInv, InProgress
<1>1. ASSUME NEW kind \in Kind, SwarmEvent(<<kind>>) PROVE ChannelsInv'
  <2>1. <<kind>> \in Seq(AnyKind)
      BY ChannelsAssumption DEF AnyKind
  <2> QED BY <1>1, <2>1, Produced
<1>2. ASSUME NEW n \in 2..MaxBatch, SwarmEvent([i \in 1..n |-> "plain"]) PROVE ChannelsInv'
  <2>1. [i \in 1..n |-> "plain"] \in Seq(AnyKind)
      BY ChannelsAssumption DEF AnyKind
  <2> QED BY <1>2, <2>1, Produced
<1>3. CASE DriverSend
  <2>1. /\ events' = Append(events, Head(sending)) /\ sending' = Tail(sending)
        /\ sending # << >> /\ InProgress' = InProgress
        /\ UNCHANGED <<handled, scheduler, produced>>
      BY <1>3 DEF DriverSend, InProgress
  <2>2. /\ events' \in Seq(AnyEvent) /\ sending' \in Seq(AnyEvent)
        /\ events' \o sending' = events \o sending
      BY <1>0, <2>1, Passed
  <2>3. Pipe' = Pipe
    <3>1. /\ handled \in Seq(AnyEvent) /\ InProgress \in Seq(AnyEvent)
          /\ events \in Seq(AnyEvent) /\ sending \in Seq(AnyEvent)
        BY <1>0
    <3> DEFINE front == handled \o InProgress
    <3>2. front \in Seq(AnyEvent)
        BY <3>1, ConcatProperties
    <3>3. Pipe = (front \o events) \o sending /\ Pipe' = (front \o events') \o sending'
        BY <2>1 DEF Pipe
    <3> HIDE DEF front
    <3>4. (front \o events) \o sending = front \o (events \o sending)
        BY <3>1, <3>2, ConcatAssociative
    <3>5. (front \o events') \o sending' = front \o (events' \o sending')
      <4>1. events' \in Seq(AnyEvent) /\ sending' \in Seq(AnyEvent)
          BY <2>2
      <4> QED BY <3>2, <4>1, ConcatAssociative
    <3> QED BY <2>2, <3>3, <3>4, <3>5
  <2> QED BY <1>0, <2>1, <2>2, <2>3, PipeKept
<1>4. CASE SchedulerRecv
  <2>1. /\ events # << >> /\ events' = Tail(events) /\ scheduler = Idle
        /\ scheduler' = [doing |-> DoingFor(Head(events).kind), event |-> Head(events)]
        /\ UNCHANGED <<handled, sending, produced>>
      BY <1>0, <1>4 DEF SchedulerRecv
  <2>2. Head(events) \in AnyEvent /\ DoingFor(Head(events).kind) \in {"train", "send", "done"}
      BY <1>0, <2>1, HeadTailProperties DEF AnyEvent, AnyKind, DoingFor
  <2>3. InProgress = << >> /\ InProgress' = Append(<< >>, Head(events))
      BY <2>1, <2>2 DEF InProgress, Idle
  <2>4. /\ events' \in Seq(AnyEvent) /\ InProgress' \in Seq(AnyEvent)
        /\ InProgress' \o events' = InProgress \o events
      BY <1>0, <2>1, <2>3, Passed
  <2>5. Pipe' = Pipe
    <3>1. /\ handled \in Seq(AnyEvent) /\ InProgress \in Seq(AnyEvent)
          /\ events \in Seq(AnyEvent) /\ sending \in Seq(AnyEvent)
        BY <1>0
    <3>2. (handled \o InProgress) \o events = handled \o (InProgress \o events)
        BY <3>1, ConcatAssociative
    <3>3. (handled \o InProgress') \o events' = handled \o (InProgress' \o events')
      <4>1. InProgress' \in Seq(AnyEvent) /\ events' \in Seq(AnyEvent)
          BY <2>4
      <4> QED BY <3>1, <4>1, ConcatAssociative
    <3>4. /\ Pipe = ((handled \o InProgress) \o events) \o sending
          /\ Pipe' = ((handled \o InProgress') \o events') \o sending
        BY <2>1 DEF Pipe
    <3> QED BY <2>4, <3>2, <3>3, <3>4
  <2>6. ChannelTypes'
      BY <1>0, <2>1, <2>2, <2>4
  <2> QED BY <2>1, <2>5, <2>6, PipeKept
<1>5. CASE TrainStepReturns \/ SchedulerSend
  <2>1. /\ scheduler' = [scheduler EXCEPT !.doing = "done"]
        /\ scheduler.doing \in {"train", "send"}
        /\ UNCHANGED <<events, sending, handled, produced>>
      BY <1>5 DEF TrainStepReturns, SchedulerSend
  <2>2. InProgress' = InProgress
      BY <1>0, <2>1 DEF InProgress, Idle
  <2> QED BY <1>0, <2>1, <2>2, PipeKept DEF Pipe
<1>6. CASE SchedulerDone
  <2>1. /\ handled' = Append(handled, scheduler.event) /\ scheduler' = Idle
        /\ scheduler.doing = "done"
        /\ UNCHANGED <<events, sending, produced>>
      BY <1>6 DEF SchedulerDone
  <2>2. /\ InProgress = <<scheduler.event>> /\ InProgress' = << >>
        /\ InProgress # << >> /\ Head(InProgress) = scheduler.event
        /\ Tail(InProgress) = << >>
      BY <2>1 DEF InProgress, Idle
  <2>3. /\ handled' \in Seq(AnyEvent) /\ InProgress' \in Seq(AnyEvent)
        /\ handled' \o InProgress' = handled \o InProgress
      BY <1>0, <2>1, <2>2, Passed
  <2>4. Pipe' = Pipe
      BY <2>1, <2>3 DEF Pipe
  <2> QED BY <1>0, <2>1, <2>3, <2>4, PipeKept DEF Idle, NoEvent, AnyEvent, AnyKind
<1>7. CASE UNCHANGED <<events, sending, scheduler, handled, produced>>
    BY <1>0, <1>7, PipeKept DEF Pipe, InProgress
<1>8. CASE HandleCommand \/ UNCHANGED vars \/ \E t \in ApiTask : ApiRequest(t) \/ ApiSend(t)
    BY <1>7, <1>8 DEF HandleCommand, ApiRequest, ApiSend, vars
<1> QED BY <1>1, <1>2, <1>3, <1>4, <1>5, <1>6, <1>8 DEF Next, Scheduler

-----------------------------------------------------------------------------
(* The scheduler sends for announcements only, and only when it has not    *)
(* finished with the event.                                                *)
CommandsInv ==
  /\ publishedFor \in Seq(Nat) /\ commands \in Seq(Nat)
  /\ scheduler.doing = "send" => scheduler.event.kind = "announce"
  /\ scheduler.doing = "train" => scheduler.event.kind = "train"
  /\ AnnouncedInOrder

(* Events have been handled up to the one in progress, which is the next.  *)
LEMMA Numbered ==
  ASSUME ChannelsInv
  PROVE  /\ \A i \in 1..Len(handled) : handled[i].id = i
         /\ scheduler.doing # "recv" => scheduler.event.id = Len(handled) + 1
<1> USE DEF ChannelsInv, ChannelTypes
<1> DEFINE front == handled \o InProgress
           mid == front \o events
<1>1. /\ handled \in Seq(AnyEvent) /\ events \in Seq(AnyEvent) /\ sending \in Seq(AnyEvent)
      /\ InProgress \in Seq(AnyEvent)
    BY DEF InProgress
<1>2. /\ front \in Seq(AnyEvent) /\ Len(front) = Len(handled) + Len(InProgress)
      /\ \A i \in 1..Len(front) :
           front[i] = IF i <= Len(handled) THEN handled[i] ELSE InProgress[i - Len(handled)]
  <2>1. handled \in Seq(AnyEvent) /\ InProgress \in Seq(AnyEvent)
      BY <1>1
  <2> HIDE DEF ChannelsInv, ChannelTypes
  <2> QED BY <2>1, ConcatProperties
<1> HIDE DEF front
<1>3. /\ mid \in Seq(AnyEvent) /\ Len(mid) = Len(front) + Len(events)
      /\ \A i \in 1..Len(mid) : mid[i] = IF i <= Len(front) THEN front[i] ELSE events[i - Len(front)]
  <2>1. front \in Seq(AnyEvent) /\ events \in Seq(AnyEvent)
      BY <1>1, <1>2
  <2> HIDE DEF ChannelsInv, ChannelTypes
  <2> QED BY <2>1, ConcatProperties
<1> HIDE DEF mid
<1>4. /\ Len(mid \o sending) = Len(mid) + Len(sending)
      /\ \A i \in 1..(Len(mid) + Len(sending)) :
           (mid \o sending)[i] = IF i <= Len(mid) THEN mid[i] ELSE sending[i - Len(mid)]
  <2>1. mid \in Seq(AnyEvent) /\ sending \in Seq(AnyEvent)
      BY <1>1, <1>3
  <2> HIDE DEF ChannelsInv, ChannelTypes
  <2> QED BY <2>1, ConcatProperties
<1>5. /\ Len(mid \o sending) = produced
      /\ \A i \in 1..produced : (mid \o sending)[i].id = i
    BY DEF EventsInOrder, mid, front
<1>6. Len(handled) \in Nat /\ Len(InProgress) \in Nat /\ Len(events) \in Nat /\ Len(sending) \in Nat
    BY <1>1
<1>7. ASSUME NEW i \in 1..Len(front) PROVE front[i].id = i
  <2>1. i \in 1..Len(mid) /\ i \in 1..(Len(mid) + Len(sending)) /\ i <= Len(mid)
      BY <1>2, <1>3, <1>6
  <2>2. (mid \o sending)[i] = front[i]
      BY <2>1, <1>3, <1>4
  <2> QED BY <2>1, <2>2, <1>4, <1>5
<1>8. ASSUME NEW i \in 1..Len(handled) PROVE handled[i].id = i
  <2>1. i \in 1..Len(front) /\ i <= Len(handled)
      BY <1>2, <1>6
  <2> QED BY <2>1, <1>2, <1>7
<1>9. ASSUME scheduler.doing # "recv" PROVE scheduler.event.id = Len(handled) + 1
  <2>1. InProgress = <<scheduler.event>>
      BY <1>9 DEF InProgress, Idle
  <2>2. Len(InProgress) = 1 /\ InProgress[1] = scheduler.event
      BY <2>1
  <2>3. /\ Len(handled) + 1 \in 1..Len(front) /\ ~(Len(handled) + 1 <= Len(handled))
        /\ (Len(handled) + 1) - Len(handled) = 1
      BY <2>2, <1>2, <1>6
  <2> HIDE DEF ChannelsInv, ChannelTypes
  <2>4. front[Len(handled) + 1] = scheduler.event
      BY <2>2, <2>3, <1>2
  <2> QED BY <2>3, <2>4, <1>7
<1> QED BY <1>8, <1>9

(* What is in a sequence whose end is appended.                            *)
LEMMA Appended ==
  ASSUME NEW S, NEW s \in Seq(S), NEW x \in S
  PROVE  ToSet(Append(s, x)) = ToSet(s) \cup {x}
<1>1. /\ Append(s, x) \in Seq(S) /\ Len(Append(s, x)) = Len(s) + 1 /\ Len(s) \in Nat
      /\ \A i \in 1..Len(s) : Append(s, x)[i] = s[i]
      /\ Append(s, x)[Len(s) + 1] = x
    OBVIOUS
<1> QED BY <1>1 DEF ToSet

(* A greater number may follow what is increasing up to zeros; so may 0.   *)
LEMMA StaysIncreasing ==
  ASSUME NEW s \in Seq(Nat), NEW x \in Nat,
         \A i, j \in DOMAIN s : i < j /\ 0 \notin {s[i], s[j]} => s[i] < s[j],
         x = 0 \/ \A i \in DOMAIN s : s[i] < x
  PROVE  \A i, j \in DOMAIN Append(s, x) :
           i < j /\ 0 \notin {Append(s, x)[i], Append(s, x)[j]} => Append(s, x)[i] < Append(s, x)[j]
<1> DEFINE t == Append(s, x)
<1>1. /\ t \in Seq(Nat) /\ Len(t) = Len(s) + 1 /\ Len(s) \in Nat
      /\ \A i \in 1..Len(s) : t[i] = s[i]
      /\ t[Len(s) + 1] = x
      /\ DOMAIN t = 1..Len(t) /\ DOMAIN s = 1..Len(s)
    OBVIOUS
<1> HIDE DEF t
<1>2. ASSUME NEW i \in DOMAIN t, NEW j \in DOMAIN t, i < j, 0 \notin {t[i], t[j]}
      PROVE  t[i] < t[j]
  <2>1. i \in 1..Len(s) /\ t[i] = s[i]
      BY <1>1, <1>2
  <2>2. CASE j = Len(s) + 1
      BY <2>1, <2>2, <1>1, <1>2
  <2>3. CASE j # Len(s) + 1
    <3>1. j \in 1..Len(s) /\ t[j] = s[j]
        BY <2>3, <1>1, <1>2
    <3> QED BY <2>1, <3>1, <1>1, <1>2
  <2> QED BY <2>2, <2>3
<1> QED BY <1>2 DEF t

(* Leaving out the element after the first n.                              *)
LEMMA WithoutOne ==
  ASSUME NEW a \in Seq(Nat), NEW b \in Seq(Nat), b # << >>, Head(b) = 0
  PROVE  /\ ToSet(a \o Tail(b)) \ {0} = ToSet(a \o b) \ {0}
         /\ (\A i, j \in DOMAIN (a \o b) :
               i < j /\ 0 \notin {(a \o b)[i], (a \o b)[j]} => (a \o b)[i] < (a \o b)[j])
            => \A i, j \in DOMAIN (a \o Tail(b)) :
                 i < j /\ 0 \notin {(a \o Tail(b))[i], (a \o Tail(b))[j]}
                   => (a \o Tail(b))[i] < (a \o Tail(b))[j]
<1> DEFINE x == a \o b
           y == a \o Tail(b)
<1>1. /\ Tail(b) \in Seq(Nat) /\ Len(Tail(b)) = Len(b) - 1
      /\ \A i \in 1..Len(Tail(b)) : Tail(b)[i] = b[i + 1]
      /\ Len(b) \in Nat \ {0} /\ Len(a) \in Nat /\ b[1] = 0
    BY HeadTailProperties, EmptySeq
<1>2. /\ x \in Seq(Nat) /\ Len(x) = Len(a) + Len(b) /\ DOMAIN x = 1..Len(x)
      /\ \A i \in 1..Len(x) : x[i] = IF i <= Len(a) THEN a[i] ELSE b[i - Len(a)]
    BY ConcatProperties
<1>3. /\ y \in Seq(Nat) /\ Len(y) = Len(a) + Len(Tail(b)) /\ DOMAIN y = 1..Len(y)
      /\ \A i \in 1..Len(y) : y[i] = IF i <= Len(a) THEN a[i] ELSE Tail(b)[i - Len(a)]
    BY <1>1, ConcatProperties
<1> HIDE DEF x, y
<1> DEFINE n == Len(a)
           m == Len(b)
           skip(i) == IF i <= n THEN i ELSE i + 1
<1>a. n \in Nat /\ m \in Nat /\ m > 0 /\ DOMAIN x = 1..(n + m) /\ DOMAIN y = 1..(n + m - 1)
    BY <1>1, <1>2, <1>3
<1>b. /\ \A i \in 1..n : x[i] = a[i] /\ y[i] = a[i]
      /\ \A i \in 1..m : x[n + i] = b[i]
  <2>1. ASSUME NEW i \in 1..n PROVE x[i] = a[i] /\ y[i] = a[i]
    <3>1. /\ Len(a) \in Nat /\ Len(b) \in Nat \ {0} /\ Len(x) = Len(a) + Len(b)
          /\ Len(y) = Len(a) + (Len(b) - 1) /\ i \in 1..Len(a)
        BY <1>1, <1>2, <1>3
    <3>2. i \in 1..Len(x) /\ i \in 1..Len(y) /\ i <= Len(a)
        BY <3>1
    <3>3. x[i] = a[i]
        BY <3>2, <1>2
    <3>4. y[i] = a[i]
        BY <3>2, <1>3
    <3> QED BY <3>3, <3>4
  <2>2. ASSUME NEW i \in 1..m PROVE x[n + i] = b[i]
    <3>1. n + i \in 1..Len(x) /\ ~(n + i <= Len(a)) /\ (n + i) - Len(a) = i
        BY <1>1, <1>2
    <3> QED BY <3>1, <1>2
  <2> QED BY <2>1, <2>2
<1>c. \A i \in 1..(m - 1) : y[n + i] = b[i + 1]
  <2> SUFFICES ASSUME NEW i \in 1..(m - 1) PROVE y[n + i] = b[i + 1]
      OBVIOUS
  <2>1. n + i \in 1..Len(y) /\ ~(n + i <= Len(a)) /\ (n + i) - Len(a) = i /\ i \in 1..Len(Tail(b))
      BY <1>1, <1>3
  <2> QED BY <2>1, <1>1, <1>3
<1>d. x[n + 1] = 0
    BY <1>1, <1>a, <1>b
<1> HIDE DEF n, m
<1>4. ASSUME NEW i \in DOMAIN y PROVE skip(i) \in DOMAIN x /\ y[i] = x[skip(i)]
  <2>1. CASE i <= n
      BY <2>1, <1>a, <1>b
  <2>2. CASE i > n
    <3>1. PICK k \in 1..(m - 1) : i = n + k
      <4>1. i - n \in 1..(m - 1) /\ i = n + (i - n)
          BY <2>2, <1>a
      <4> QED BY <4>1
    <3>2. k + 1 \in 1..m /\ i + 1 = n + (k + 1) /\ i + 1 \in 1..(n + m) /\ ~(i <= n)
        BY <3>1, <1>a
    <3>3. y[i] = b[k + 1] /\ x[i + 1] = b[k + 1]
        BY <3>1, <3>2, <1>b, <1>c
    <3> QED BY <3>2, <3>3, <1>a
  <2> QED BY <2>1, <2>2, <1>a
<1>5. ASSUME NEW k \in DOMAIN x, x[k] # 0 PROVE \E i \in DOMAIN y : y[i] = x[k]
  <2>1. k # n + 1
      BY <1>5, <1>d
  <2>2. CASE k <= n
    <3>1. k \in DOMAIN y /\ skip(k) = k
        BY <2>2, <1>a, <1>5
    <3> QED BY <3>1, <1>4
  <2>3. CASE k > n + 1
    <3>1. k - 1 \in DOMAIN y /\ skip(k - 1) = k
        BY <2>3, <1>a, <1>5
    <3> QED BY <3>1, <1>4
  <2> QED BY <2>1, <2>2, <2>3, <1>a, <1>5
<1>6. ToSet(y) \ {0} = ToSet(x) \ {0}
    BY <1>4, <1>5 DEF ToSet
<1>7. ASSUME \A i, j \in DOMAIN x : i < j /\ 0 \notin {x[i], x[j]} => x[i] < x[j],
             NEW i \in DOMAIN y, NEW j \in DOMAIN y, i < j, 0 \notin {y[i], y[j]}
      PROVE  y[i] < y[j]
  <2>1. skip(i) < skip(j)
      BY <1>a, <1>7
  <2>2. /\ skip(i) \in DOMAIN x /\ y[i] = x[skip(i)]
        /\ skip(j) \in DOMAIN x /\ y[j] = x[skip(j)]
      BY <1>4
  <2> HIDE DEF skip
  <2> QED BY <2>1, <2>2, <1>7
<1> QED BY <1>6, <1>7 DEF x, y

(* Steps after which the same is due and the same has been sent.           *)
LEMMA CommandsKept ==
  ASSUME CommandsInv, publishedFor' = publishedFor, commands' = commands, Due' = Due,
         scheduler'.doing = "send" => scheduler'.event.kind = "announce",
         scheduler'.doing = "train" => scheduler'.event.kind = "train"
  PROVE  CommandsInv'
<1>1. Sent' = Sent
    BY DEF Sent
<1> QED BY <1>1 DEF CommandsInv, AnnouncedInOrder

(* A command of the scheduler or of the API goes to the end of the channel. *)
LEMMA CommandSent ==
  ASSUME CommandsInv, NEW c \in Nat, commands' = Append(commands, c), publishedFor' = publishedFor,
         {e.id : e \in Due'} = {e.id : e \in Due} \cup ({c} \ {0}),
         c = 0 \/ \A e \in Due : e.id \in Nat /\ e.id < c,
         scheduler'.doing = "send" => scheduler'.event.kind = "announce",
         scheduler'.doing = "train" => scheduler'.event.kind = "train"
  PROVE  CommandsInv'
<1>1. publishedFor \in Seq(Nat) /\ commands \in Seq(Nat) /\ Sent \in Seq(Nat)
    BY ConcatProperties DEF CommandsInv, Sent
<1>2. Sent' = Append(Sent, c)
  <2>1. publishedFor \o Append(commands, c) = Append(publishedFor \o commands, c)
      BY <1>1, SMT
  <2> QED BY <2>1 DEF Sent
<1>3. ToSet(Sent') = ToSet(Sent) \cup {c}
    BY <1>1, <1>2, Appended
<1>4. ToSet(Sent) \ {0} = {e.id : e \in Due}
    BY DEF CommandsInv, AnnouncedInOrder
<1>5. ToSet(Sent') \ {0} = {e.id : e \in Due'}
    BY <1>3, <1>4
<1>6. c = 0 \/ \A i \in DOMAIN Sent : Sent[i] < c
  <2> SUFFICES ASSUME c # 0, NEW i \in DOMAIN Sent PROVE Sent[i] < c
      OBVIOUS
  <2>1. Sent[i] = 0 \/ Sent[i] \in {e.id : e \in Due}
      BY <1>4 DEF ToSet
  <2> QED BY <2>1
<1>7. \A i, j \in DOMAIN Sent : i < j /\ 0 \notin {Sent[i], Sent[j]} => Sent[i] < Sent[j]
    BY DEF CommandsInv, AnnouncedInOrder
<1>8. \A i, j \in DOMAIN Sent' : i < j /\ 0 \notin {Sent'[i], Sent'[j]} => Sent'[i] < Sent'[j]
    BY <1>1, <1>2, <1>6, <1>7, StaysIncreasing
<1>9. commands' \in Seq(Nat) /\ publishedFor' \in Seq(Nat)
    BY <1>1
<1> QED BY <1>5, <1>8, <1>9 DEF CommandsInv, AnnouncedInOrder

(* Every step announces what it has to, and nothing else.                  *)
LEMMA CommandsStep == ChannelsInv /\ CommandsInv /\ [Next]_vars => CommandsInv'
<1> SUFFICES ASSUME ChannelsInv, CommandsInv, [Next]_vars PROVE CommandsInv'
    OBVIOUS
<1>0. ChannelTypes
    BY DEF ChannelsInv
<1>1. ASSUME NEW kinds, SwarmEvent(kinds) PROVE CommandsInv'
    BY <1>1, CommandsKept DEF SwarmEvent, Due, CommandsInv
<1>2. CASE DriverSend \/ (UNCHANGED vars) \/ \E t \in ApiTask : ApiRequest(t)
    BY <1>2, CommandsKept DEF DriverSend, ApiRequest, vars, Due, CommandsInv
<1>3. CASE HandleCommand
  <2>1. /\ commands # << >> /\ commands' = Tail(commands)
        /\ publishedFor' = IF Head(commands) = 0 THEN publishedFor
                           ELSE Append(publishedFor, Head(commands))
        /\ scheduler' = scheduler /\ Due' = Due
      BY <1>3 DEF HandleCommand, Due
  <2>2. publishedFor \in Seq(Nat) /\ commands \in Seq(Nat) /\ Head(commands) \in Nat
        /\ Tail(commands) \in Seq(Nat)
      BY <2>1, HeadTailProperties DEF CommandsInv
  <2>3. publishedFor' \in Seq(Nat) /\ commands' \in Seq(Nat)
      BY <2>1, <2>2
  <2>4. AnnouncedInOrder
      BY DEF CommandsInv
  <2>5. CASE Head(commands) = 0
    <3>1. Sent' = publishedFor \o Tail(commands)
        BY <2>1, <2>5 DEF Sent
    <3>2. /\ ToSet(Sent') \ {0} = ToSet(Sent) \ {0}
          /\ \A i, j \in DOMAIN Sent' : i < j /\ 0 \notin {Sent'[i], Sent'[j]} => Sent'[i] < Sent'[j]
        BY <2>1, <2>2, <2>4, <2>5, <3>1, WithoutOne DEF Sent, AnnouncedInOrder
    <3> QED BY <2>1, <2>3, <2>4, <3>2 DEF CommandsInv, AnnouncedInOrder
  <2>6. CASE Head(commands) # 0
    <3>1. Sent' = Sent
        BY <2>1, <2>2, <2>6, Passed DEF Sent
    <3> QED BY <2>1, <2>3, <2>4, <3>1 DEF CommandsInv, AnnouncedInOrder
  <2> QED BY <2>5, <2>6
<1>4. CASE SchedulerRecv
  <2>1. /\ scheduler.doing = "recv" /\ events # << >> /\ UNCHANGED <<commands, handled, publishedFor>>
        /\ scheduler' = [doing |-> DoingFor(Head(events).kind), event |-> Head(events)]
      BY <1>4 DEF SchedulerRecv
  <2>2. /\ scheduler'.doing = DoingFor(Head(events).kind) /\ scheduler'.event = Head(events)
      BY <2>1
  <2>3. Head(events).kind \in AnyKind
    <3>1. events \in Seq(AnyEvent)
        BY <1>0 DEF ChannelTypes
    <3>2. Head(events) \in AnyEvent
        BY <2>1, <3>1, HeadTailProperties
    <3> QED BY <3>2 DEF AnyEvent
  <2>4. /\ scheduler'.doing = "send" => scheduler'.event.kind = "announce"
        /\ scheduler'.doing = "train" => scheduler'.event.kind = "train"
        /\ scheduler'.doing = "done" => scheduler'.event.kind # "announce"
      BY <2>2, <2>3 DEF DoingFor, AnyKind
  <2>5. Due' = Due
      BY <2>1, <2>4 DEF Due
  <2> QED BY <2>1, <2>4, <2>5, CommandsKept
<1>5. CASE TrainStepReturns
  <2>1. /\ scheduler'.doing = "done" /\ scheduler'.event = scheduler.event
        /\ scheduler.doing = "train" /\ UNCHANGED <<commands, handled, publishedFor>>
      BY <1>0, <1>5 DEF TrainStepReturns, ChannelTypes
  <2>2. Due' = Due
      BY <2>1 DEF Due, CommandsInv
  <2> QED BY <2>1, <2>2, CommandsKept
<1>6. CASE SchedulerSend
  <2>1. /\ scheduler'.doing = "done" /\ scheduler'.event = scheduler.event
        /\ scheduler.doing = "send" /\ UNCHANGED <<handled, publishedFor>>
        /\ commands' = Append(commands, scheduler.event.id)
      BY <1>0, <1>6 DEF SchedulerSend, ChannelTypes
  <2>2. scheduler.event.kind = "announce" /\ scheduler.event.id = Len(handled) + 1
      BY <2>1, Numbered DEF CommandsInv
  <2>3. Due' = Due \cup {scheduler.event}
      BY <2>1, <2>2 DEF Due
  <2>4. handled \in Seq(AnyEvent) /\ Len(handled) \in Nat /\ DOMAIN handled = 1..Len(handled)
      BY <1>0 DEF ChannelTypes
  <2>5. scheduler.event.id \in Nat /\ scheduler.event.id # 0
      BY <2>2, <2>4
  <2>6. ASSUME NEW e \in Due PROVE e.id \in Nat /\ e.id < scheduler.event.id
    <3>1. PICK i \in 1..Len(handled) : e = handled[i]
        BY <2>1, <2>4, <2>6 DEF Due, ToSet
    <3>2. e.id = i
        BY <3>1, Numbered
    <3> QED BY <2>2, <2>4, <3>2
  <2>7. {e.id : e \in Due'} = {e.id : e \in Due} \cup ({scheduler.event.id} \ {0})
      BY <2>3, <2>5
  <2> QED BY <2>1, <2>5, <2>6, <2>7, CommandSent
<1>7. CASE SchedulerDone
  <2>1. /\ handled' = Append(handled, scheduler.event) /\ scheduler' = Idle
        /\ scheduler.doing = "done" /\ UNCHANGED <<commands, publishedFor>>
      BY <1>7 DEF SchedulerDone
  <2>2. handled \in Seq(AnyEvent) /\ scheduler.event \in AnyEvent
      BY <1>0 DEF ChannelTypes
  <2>3. ToSet(handled') = ToSet(handled) \cup {scheduler.event}
      BY <2>1, <2>2, Appended
  <2>4. Due' = Due
      BY <2>1, <2>3 DEF Due, Idle
  <2> QED BY <2>1, <2>4, CommandsKept DEF Idle
<1>8. ASSUME NEW t \in ApiTask, ApiSend(t) PROVE CommandsInv'
  <2>1. commands' = Append(commands, 0) /\ UNCHANGED <<publishedFor, scheduler, handled>>
      BY <1>8 DEF ApiSend
  <2>2. Due' = Due
      BY <2>1 DEF Due
  <2>3. {e.id : e \in Due'} = {e.id : e \in Due} \cup ({0} \ {0})
      BY <2>2
  <2> QED BY <2>1, <2>3, CommandSent DEF CommandsInv
<1> QED BY <1>1, <1>2, <1>3, <1>4, <1>5, <1>6, <1>7, <1>8 DEF Next, Scheduler

-----------------------------------------------------------------------------
(* The composition makes only the steps of its parts. *)
LEMMA NodeSteps == [NodeNext]_node => [Next]_vars /\ [BridgeNext]_bridge
BY DEF node, NodeNext, NodeScheduler, NodeDriver, StartEvent, TrainStepOver, Next, Scheduler,
       BridgeNext

(* A node with its engine implements the specification of the bridge. *)
THEOREM NodeImplementsBridge == NodeSpec => BridgeSpec
<1>1. NodeInit => BridgeInit
    BY DEF NodeInit
<1> QED BY <1>1, NodeSteps, PTL DEF NodeSpec, BridgeSpec

(* Nothing has been produced at the start.                                 *)
LEMMA ChannelsStart == NodeInit => ChannelsInv
<1> SUFFICES ASSUME NodeInit PROVE ChannelsInv
    OBVIOUS
<1>1. ChannelTypes
    BY DEF NodeInit, Init, ChannelTypes, Idle, NoEvent, AnyEvent, AnyKind
<1>2. Pipe = << >> /\ produced = 0
    BY DEF NodeInit, Init, Pipe, InProgress
<1> QED BY <1>1, <1>2 DEF ChannelsInv, EventsInOrder, Pipe

(* For channels of any capacity, whatever the scheduler waits for, the     *)
(* events of the swarm are handled once, in the order they came            *)
(* (network/mod.rs handle_swarm_event, scheduler/mod.rs run).              *)
THEOREM EventsArriveInOrder == NodeSpec => []EventsInOrder
<1>1. NodeInit => ChannelsInv
    BY ChannelsStart
<1>2. ChannelsInv /\ [NodeNext]_node => ChannelsInv'
    BY NodeSteps, ChannelsStep
<1>3. ChannelsInv => EventsInOrder
    BY DEF ChannelsInv
<1> QED BY <1>1, <1>2, <1>3, PTL DEF NodeSpec

(* For channels of any capacity and any number of API requests, what the   *)
(* scheduler announces (scheduler/mod.rs:306) reaches the driver once per  *)
(* event and in their order, and nothing else does.                        *)
THEOREM AnnouncementsInOrder == NodeSpec => []AnnouncedInOrder
<1>1. NodeInit => ChannelsInv
    BY ChannelsStart
<1>2. NodeInit => CommandsInv
  <2> SUFFICES ASSUME NodeInit PROVE CommandsInv
      OBVIOUS
  <2>1. /\ handled = << >> /\ commands = << >> /\ publishedFor = << >> /\ scheduler = Idle
      BY DEF NodeInit, Init
  <2>2. Due = {}
      BY <2>1 DEF Due, Idle, ToSet
  <2>3. Sent = << >> /\ ToSet(Sent) = {}
      BY <2>1 DEF Sent, ToSet
  <2> QED BY <2>1, <2>2, <2>3 DEF CommandsInv, AnnouncedInOrder, Idle
<1>3. ChannelsInv /\ [NodeNext]_node => ChannelsInv'
    BY NodeSteps, ChannelsStep
<1>4. ChannelsInv /\ CommandsInv /\ [NodeNext]_node => CommandsInv'
    BY NodeSteps, CommandsStep
<1>5. CommandsInv => AnnouncedInOrder
    BY DEF CommandsInv
<1> QED BY <1>1, <1>2, <1>3, <1>4, <1>5, PTL DEF NodeSpec

(* The retries of a node, and the gradients of its engine. *)
THEOREM NodeTrainsOnce == NodeSpec => [](RetriesTrainOnce /\ GradientsLostByOverlapOnly)
BY NodeImplementsBridge, NoDoubleTraining, GradientsComeBack, PTL
=============================================================================
