--------------------------- MODULE ClusterTopology ---------------------------
(***************************************************************************)
(* The tree of clusters of one training round: training/hierarchical.py    *)
(* and training/cluster.py, and the same tree in node/src/consensus/       *)
(* vrf.rs. A peer is its index in the sorted list of participants. A       *)
(* permutation stands for the output of the VRF; a cluster is a set, since *)
(* both sources sort its members.                                          *)
(***************************************************************************)
EXTENDS Integers, Sequences, FiniteSets, FiniteSetsExt

Indices(n) == 0..(n - 1)
CeilDiv(a, b) == (a + b - 1) \div b

Power(k, d) ==
  LET power[e \in 0..d] == IF e = 0 THEN 1 ELSE k * power[e - 1] IN power[d]

(* What the VRF makes of n peers: a permutation of their indices.          *)
Permuted(n) == {p \in [Indices(n) -> Indices(n)] : \A i, j \in Indices(n) : p[i] = p[j] => i = j}

(* A configuration as assign_clusters_vrf uses it. *)
Config(k, d) == [size |-> k, depth |-> d]

(* ClusterConfig.auto: one cluster up to "small" peers (64 in the code),   *)
(* then the least depth with size ^ depth >= n. The quotient of two        *)
(* logarithms may come out above the integer it stands for when n is a     *)
(* power of the size: one level more.                                      *)
AutoConfigs(n, target, small) ==
  LET k == Min({target, n})
      least == Min({d \in 1..n : Power(k, d) >= n})
  IN IF n <= small \/ k <= 1
     THEN {Config(n, 1)}
     ELSE {Config(k, d) : d \in {least} \cup {e \in {least + 1} : least > 1 /\ Power(k, least) = n}}

(* VrfOutput::optimal_depth. *)
OptimalDepth(n, k) ==
  IF n <= k THEN 1
  ELSE Min({d \in 2..7 : Power(k, d) >= n} \cup {7})

-----------------------------------------------------------------------------
(* The leaders of the clusters of a level, in the order of the cluster ids, *)
(* are grouped by size into the clusters of the next.                      *)
Leader(cluster) == Min(cluster)

Grouped(clusters, k) ==
  [c \in Indices(CeilDiv(Cardinality(DOMAIN clusters), k)) |->
     {Leader(clusters[j]) : j \in {i \in DOMAIN clusters : i \div k = c}}]

Levels(leaves, config) ==
  LET level[l \in Indices(config.depth)] ==
        IF l = 0 THEN leaves ELSE Grouped(level[l - 1], config.size)
  IN level

(* Fault: the positions would be cut into clusters by remainder. *)
LeavesByRemainder(perm, k) ==
  [c \in {perm[i] % k : i \in DOMAIN perm} |-> {i \in DOMAIN perm : perm[i] % k = c}]

(* assign_clusters_vrf: a peer belongs to the cluster of its image. *)
Leaves(perm, k) ==
  [c \in {perm[i] \div k : i \in DOMAIN perm} |-> {i \in DOMAIN perm : perm[i] \div k = c}]

AssignClusters(perm, config) == Levels(Leaves(perm, config.size), config)

(* VrfOutput::assign_clusters: the permuted list is cut into chunks. *)
Chunked(perm, k) ==
  [c \in Indices(CeilDiv(Cardinality(DOMAIN perm), k)) |->
     {perm[i] : i \in {j \in DOMAIN perm : j \div k = c}}]

RustAssignClusters(perm, config) == Levels(Chunked(perm, config.size), config)

-----------------------------------------------------------------------------
(* The paths of the peers: the level-l cluster a peer is in, if any. *)
InLevel(levels, i, l) == \E c \in DOMAIN levels[l] : i \in levels[l][c]
ClusterOf(levels, i, l) ==
  levels[l][CHOOSE c \in DOMAIN levels[l] : i \in levels[l][c]]
Path(levels, i) == {l \in DOMAIN levels : InLevel(levels, i, l)}

(* Communication rounds: of a given tree, and as both scaling statistics   *)
(* count them from the sizes alone.                                        *)
TotalRounds(levels) ==
  FoldSet(LAMBDA l, sum :
            sum + 2 * (Max({Cardinality(levels[l][c]) : c \in DOMAIN levels[l]}) - 1),
          0, DOMAIN levels)

ScalingRounds(n, config) ==
  LET peers[l \in 0..config.depth] ==
        IF l = 0 THEN n ELSE CeilDiv(peers[l - 1], config.size)
  IN FoldSet(LAMBDA l, sum : sum + 2 * (Min({config.size, peers[l]}) - 1),
             0, Indices(config.depth))
=============================================================================
