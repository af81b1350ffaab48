------------------------------ MODULE AllReduce ------------------------------
(***************************************************************************)
(* Hierarchical all-reduce of one training round: ClusterManager           *)
(* (training/cluster.py), HierarchicalAllReduce.reduce_async and reduce_all *)
(* (training/hierarchical.py) and the ring they run in every cluster       *)
(* (training/allreduce.py). Each peer is a coroutine; channels are FIFO    *)
(* per sender and receiver, and a message may be lost, in which case       *)
(* recv_fn returns nothing and the receiver goes on without it.            *)
(*                                                                         *)
(* A gradient is a function from elements to integers, chosen in the       *)
(* instance so that every division by a ring size is exact.                *)
(***************************************************************************)
EXTENDS ClusterTopology

CONSTANTS
  MaxPeers,         \* peers that may register
  ClusterSizes,     \* cluster sizes a round may be configured with
  SmallNetwork,     \* 64 in ClusterConfig.auto: one cluster up to here
  Threshold,        \* hierarchical_threshold
  PermutationsOf,   \* PermutationsOf[n]: outputs of the VRF for n peers
  Numel,            \* elements of the flattened gradient
  Gradient,         \* Gradient[i]: what the peer with index i brings
  NoTree, NoResult,
  MaxLost           \* bound of the model on lost messages

Index == Indices(MaxPeers)
Elements == Indices(Numel)

ASSUME ReduceAssumption ==
  /\ {MaxPeers, SmallNetwork, Threshold, Numel, MaxLost} \subseteq Nat
  /\ IsFiniteSet(ClusterSizes) /\ ClusterSizes \subseteq Nat \ {0}
  /\ \A n \in 1..MaxPeers : PermutationsOf[n] \subseteq Permuted(n)
  /\ Gradient \in [Index -> [Elements -> Int]]
  /\ NoResult \notin [Elements -> Int]
  /\ \A n \in 1..MaxPeers : \A p \in PermutationsOf[n], k \in 1..n, d \in 1..(n + 1) :
       AssignClusters(p, Config(k, d)) # NoTree

(* The flattened gradient is long enough for torch.chunk to cut it into a   *)
(* chunk for every peer of a ring; otherwise reduce_async raises.           *)
ASSUME ChunksAssumption ==
  \A r \in 2..Max(ClusterSizes \cup {SmallNetwork, Threshold}) :
    (r - 1) * CeilDiv(Numel, r) < Numel

VARIABLES
  n_participants,  \* peers registered with the ClusterManager
  tree,          \* the levels of clusters, NoTree before finalize
  perm, config,  \* what finalize computed the tree from
  grad,          \* grad[i]: the gradient peer i works on
  at,            \* at[i]: where peer i is in reduce_async
  channel,       \* channel[i][j]: messages from i to j
  lost           \* messages lost

reduceVars == <<n_participants, tree, perm, config, grad, at, channel, lost>>

Waiting == [pc |-> "waiting", level |-> 0, step |-> 0]
Done == [Waiting EXCEPT !.pc = "done"]

ReduceInit ==
  /\ n_participants = 0
  /\ tree = NoTree /\ perm = << >> /\ config = Config(0, 0)
  /\ grad = Gradient
  /\ at = [i \in Index |-> Waiting]
  /\ channel = [i \in Index |-> [j \in Index |-> << >>]]
  /\ lost = 0

-----------------------------------------------------------------------------
(* The peers of a ring in the order of their indices. *)
Ring(i, level) == ClusterOf(tree, i, level)
Position(i, S) == Cardinality({j \in S : j < i})
AtPosition(p, S) == CHOOSE j \in S : Position(j, S) = p % Cardinality(S)
Right(i, S) == AtPosition(Position(i, S) + 1, S)
Left(i, S) == AtPosition(Position(i, S) + Cardinality(S) - 1, S)

(* torch.chunk: all chunks but the last have the same size.                *)
Chunk(c, r) == {e \in Elements : e \div CeilDiv(Numel, r) = c % r}

(* Scatter-reduce takes r - 1 steps, all-gather another r - 1. In step s a *)
(* peer sends chunk position - s and receives the one before it: modulo r  *)
(* the index formulas of the two phases are the same.                      *)
SendIndex(i, S, s) == Position(i, S) - s + 2 * Cardinality(S)

(* Fault: one chunk too many is added. *)
GatheringLate(S, s) == s >= Cardinality(S)

Gathering(S, s) == s >= Cardinality(S) - 1
LastStep(S) == 2 * Cardinality(S) - 3

(* Where reduce_async continues: the next ring with company, upwards...    *)
Up(i, level, t) ==
  LET rings == {l \in Path(t, i) : l >= level /\ Cardinality(ClusterOf(t, i, l)) > 1} IN
    IF rings = {} THEN [pc |-> "down", level |-> Max(Path(t, i)), step |-> 0]
    ELSE [pc |-> "send", level |-> Min(rings), step |-> 0]

(* ... and the levels below, downwards. *)
Down(level) == IF level = 0 THEN Done ELSE [pc |-> "down", level |-> level - 1, step |-> 0]

-----------------------------------------------------------------------------
(* Registering the same peer again changes nothing. *)
RegisterPeer ==
  /\ tree = NoTree
  /\ n_participants < MaxPeers
  /\ n_participants' = n_participants + 1
  /\ UNCHANGED <<tree, perm, config, grad, at, channel, lost>>

Finalize ==
  LET n == n_participants IN
    /\ tree = NoTree /\ n > 0
    /\ \E k \in ClusterSizes : \E c \in AutoConfigs(n, k, SmallNetwork) : config' = c
    /\ perm' \in PermutationsOf[n]
    /\ tree' = AssignClusters(perm', config')
    /\ at' = [i \in Index |-> IF i < n THEN Up(i, 0, tree') ELSE Waiting]
    /\ UNCHANGED <<n_participants, grad, channel, lost>>

(* Fault: a peer sends its own chunk in every step. *)
RingSendOwn(i) ==
  /\ at[i].pc = "send"
  /\ LET S == Ring(i, at[i].level)
         chunk == Chunk(Position(i, S), Cardinality(S))
     IN channel' = [channel EXCEPT ![i][Right(i, S)] =
                      Append(@, [e \in chunk |-> grad[i][e]])]
  /\ at' = [at EXCEPT ![i].pc = "recv"]
  /\ UNCHANGED <<n_participants, tree, perm, config, grad, lost>>

RingSend(i) ==
  /\ at[i].pc = "send"
  /\ LET S == Ring(i, at[i].level)
         chunk == Chunk(SendIndex(i, S, at[i].step), Cardinality(S))
     IN channel' = [channel EXCEPT ![i][Right(i, S)] =
                      Append(@, [e \in chunk |-> grad[i][e]])]
  /\ at' = [at EXCEPT ![i].pc = "recv"]
  /\ UNCHANGED <<n_participants, tree, perm, config, grad, lost>>

(* The chunk received is added or, when gathering, taken over. *)
Received(i, S, message) ==
  [e \in Elements |->
     IF e \notin DOMAIN message THEN grad[i][e]
     ELSE IF Gathering(S, at[i].step) THEN message[e]
     ELSE grad[i][e] + message[e]]

Averaged(g, r) == [e \in Elements |-> g[e] \div r]

(* The last step of a ring divides by its size. *)
AfterStep(i, S, g) ==
  IF at[i].step < LastStep(S)
  THEN /\ grad' = [grad EXCEPT ![i] = g]
       /\ at' = [at EXCEPT ![i].pc = "send", ![i].step = @ + 1]
  ELSE /\ grad' = [grad EXCEPT ![i] = Averaged(g, Cardinality(S))]
       /\ at' = [at EXCEPT ![i] = Up(i, at[i].level + 1, tree)]

RingReceive(i) ==
  /\ at[i].pc = "recv"
  /\ LET S == Ring(i, at[i].level)  left == Left(i, S) IN
       /\ channel[left][i] # << >>
       /\ channel' = [channel EXCEPT ![left][i] = Tail(@)]
       /\ \/ /\ AfterStep(i, S, Received(i, S, Head(channel[left][i])))
             /\ UNCHANGED lost
          \/ /\ lost < MaxLost /\ lost' = lost + 1
             /\ AfterStep(i, S, grad[i])
  /\ UNCHANGED <<n_participants, tree, perm, config>>

(* Fault: a leader sends to the clusters below as well, and again there. *)
BroadcastBelow(i) ==
  /\ at[i].pc = "down"
  /\ LET S == UNION {Ring(i, l) : l \in 0..at[i].level} IN
       /\ i = Leader(Ring(i, at[i].level))
       /\ channel' = [channel EXCEPT ![i] =
                        [j \in Index |-> IF j \in S \ {i} THEN Append(@[j], grad[i]) ELSE @[j]]]
  /\ at' = [at EXCEPT ![i] = Down(at[i].level)]
  /\ UNCHANGED <<n_participants, tree, perm, config, grad, lost>>

(* The leader of a cluster sends the result to its members. *)
Broadcast(i) ==
  /\ at[i].pc = "down"
  /\ LET S == Ring(i, at[i].level) IN
       /\ i = Leader(S)
       /\ channel' = [channel EXCEPT ![i] =
                        [j \in Index |-> IF j \in S \ {i} THEN Append(@[j], grad[i]) ELSE @[j]]]
  /\ at' = [at EXCEPT ![i] = Down(at[i].level)]
  /\ UNCHANGED <<n_participants, tree, perm, config, grad, lost>>

ReceiveBroadcast(i) ==
  /\ at[i].pc = "down"
  /\ LET leader == Leader(Ring(i, at[i].level)) IN
       /\ i # leader
       /\ channel[leader][i] # << >>
       /\ channel' = [channel EXCEPT ![leader][i] = Tail(@)]
       /\ \/ /\ grad' = [grad EXCEPT ![i] = Head(channel[leader][i])]
             /\ UNCHANGED lost
          \/ /\ lost < MaxLost /\ lost' = lost + 1
             /\ UNCHANGED grad
  /\ at' = [at EXCEPT ![i] = Down(at[i].level)]
  /\ UNCHANGED <<n_participants, tree, perm, config>>

Step(i) == RingSend(i) \/ RingReceive(i) \/ Broadcast(i) \/ ReceiveBroadcast(i)

ReduceNext ==
  \/ RegisterPeer \/ Finalize
  \/ \E i \in Index : Step(i)

(* The coroutine of every peer is scheduled and the transport reports every *)
(* message as arrived or lost.                                              *)
ReduceFairness == \A i \in Index : WF_reduceVars(Step(i))

ReduceSpec == ReduceInit /\ [][ReduceNext]_reduceVars /\ ReduceFairness

-----------------------------------------------------------------------------
(* RingAllReduce.reduce_all: all peers of a ring in lockstep. *)
RingReduceAll(S, g) ==
  LET r == Cardinality(S)
      round[s \in 0..(2 * r - 2)] ==
        IF s = 0 THEN [i \in S |-> g[i]]
        ELSE LET old == round[s - 1] IN
          [i \in S |-> [e \in Elements |->
             IF e \notin Chunk(SendIndex(i, S, s), r) THEN old[i][e]
             ELSE IF s < r THEN old[i][e] + old[Left(i, S)][e]
             ELSE old[Left(i, S)][e]]]
  IN [i \in DOMAIN g |-> IF i \in S THEN Averaged(round[2 * r - 2][i], r) ELSE g[i]]

AllClusters(level) == {level[c] : c \in DOMAIN level}

(* HierarchicalAllReduce.reduce_all: a flat ring up to the threshold, else  *)
(* rings bottom-up and broadcasts top-down.                                 *)
ReduceAll(t, n) ==
  LET depth == Cardinality(DOMAIN t)
      up[l \in 0..depth] ==
        IF l = 0 THEN [i \in Indices(n) |-> Gradient[i]]
        ELSE FoldSet(LAMBDA S, g : IF Cardinality(S) > 1 THEN RingReduceAll(S, g) ELSE g,
                     up[l - 1], AllClusters(t[l - 1]))
      down[l \in 0..depth] ==
        IF l = depth THEN up[depth]
        ELSE [i \in Indices(n) |-> IF InLevel(t, i, l)
                                   THEN down[l + 1][Leader(ClusterOf(t, i, l))]
                                   ELSE down[l + 1][i]]
  IN IF n <= Threshold THEN RingReduceAll(Indices(n), [i \in Indices(n) |-> Gradient[i]])
     ELSE down[0]

AllDone == tree # NoTree /\ \A i \in Indices(n_participants) : at[i] = Done

Even == \A l \in DOMAIN tree : \A S, T \in AllClusters(tree[l]) :
          Cardinality(S) = Cardinality(T)

-----------------------------------------------------------------------------
(* reduce_async is what Averaging promises: whatever the order in which the *)
(* peers run, each returns once with the mean of the means of the clusters, *)
(* unless a message was lost, and a lost message stops nobody.              *)
Promise == INSTANCE Averaging WITH
  result <- [i \in Index |-> IF at[i].pc = "done" THEN grad[i] ELSE NoResult]
Averages == Promise!Spec

(* The lockstep simulation the tests use computes what the peers compute by *)
(* messages. Below the threshold it takes one flat ring, whose mean is      *)
(* another one when the clusters are uneven.                                *)
SimulationAgrees ==
  AllDone /\ lost = 0 /\ (n_participants > Threshold \/ Even) =>
    \A i \in Indices(n_participants) :
      grad[i] = ReduceAll(tree, n_participants)[i]

(* A round leaves no message behind that the next one, whose messages are   *)
(* not told apart from this one's, would take for its own: what the peers   *)
(* send and what they receive matches on every pair, also after a loss.     *)
NothingLeftOver ==
  AllDone => \A i, j \in Index : channel[i][j] = << >>

InverseOf(p) == [v \in DOMAIN p |-> CHOOSE i \in DOMAIN p : p[i] = v]

(* hierarchical.py "mirrors" vrf.rs. finalize computes the tree that the    *)
(* Rust side computes from the inverse permutation: the members of a cluster *)
(* differ in general; their sizes and the number of rounds that both        *)
(* announce do not, and the depth at most by the level a rounded logarithm  *)
(* adds.                                                                    *)
TreesMirror ==
  [][tree # tree' =>
       LET rust == RustAssignClusters(perm', config') IN
         /\ tree' = RustAssignClusters(InverseOf(perm'), config')
         /\ \A c \in DOMAIN tree'[0] : Cardinality(tree'[0][c]) = Cardinality(rust[0][c])
         /\ TotalRounds(tree') = ScalingRounds(n_participants, config')
         /\ n_participants > SmallNetwork =>
              config'.depth - OptimalDepth(n_participants, config'.size) \in {0, 1}]_reduceVars
=============================================================================
