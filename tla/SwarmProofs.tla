---------------------------- MODULE SwarmProofs ----------------------------
(***************************************************************************)
(* Proofs about what the peers compute together without a server: the      *)
(* all-reduce of a round (AllReduce), for any number of peers, cluster     *)
(* size, permutation and gradient, and the replicated shard map (ShardMap), *)
(* for any number of replicas, keys and peers.                             *)
(*                                                                         *)
(* A round. RoundInv counts the messages of every pair of peers, so that   *)
(* nothing is left over; HoldInv says whose gradients the value of a peer  *)
(* and a message under way add up, so that the peers return the mean of    *)
(* means that Averaging promises and that the lockstep simulation computes. *)
(***************************************************************************)
EXTENDS ShardMap, AllReduce, ListProofs

-----------------------------------------------------------------------------
(* The tree of a round, and the messages between its peers.                *)

(* Arithmetic of quotients rounded down and up.                            *)
LEMMA Quotient ==
  ASSUME NEW k \in Nat \ {0}, NEW i \in Nat
  PROVE  i \div k \in Nat /\ k * (i \div k) <= i /\ i < k * (i \div k) + k
<1>1. i = k * (i \div k) + (i % k) /\ i % k \in 0..(k - 1) /\ i \div k \in Int
  BY SMT
<1> QED
  BY <1>1, SMT

(* A quotient is what its bounds say.                                      *)
LEMMA QuotientIs ==
  ASSUME NEW k \in Nat \ {0}, NEW i \in Nat, NEW c \in Nat, k * c <= i, i < k * c + k
  PROVE  i \div k = c
<1>1. i \div k \in Nat /\ k * (i \div k) <= i /\ i < k * (i \div k) + k
  BY Quotient
<1>2. ~(i \div k < c)
  BY <1>1, SMT
<1>3. ~(c < i \div k)
  BY <1>1, SMT
<1> QED
  BY <1>1, <1>2, <1>3

(* The quotient rounded up counts the groups of k among n: a group has a   *)
(* first member, and every member a group.                                 *)
LEMMA RoundedUp ==
  ASSUME NEW k \in Nat \ {0}, NEW n \in Nat
  PROVE  /\ CeilDiv(n, k) \in Nat
         /\ \A c \in Nat : c < CeilDiv(n, k) <=> k * c < n
         /\ \A i \in Indices(n) : i \div k \in Indices(CeilDiv(n, k))
         /\ n > 0 => CeilDiv(n, k) > 0
<1>1. n + k - 1 \in Nat
  OBVIOUS
<1> DEFINE q == (n + k - 1) \div k
<1>2. q \in Nat /\ k * q <= n + k - 1 /\ n + k - 1 < k * q + k
  BY <1>1, Quotient
<1>3. CeilDiv(n, k) = q
  BY DEF CeilDiv
<1> HIDE DEF q
<1>4. ASSUME NEW c \in Nat  PROVE c < q <=> k * c < n
  <2>1. CASE c < q
    <3>1. c + 1 <= q /\ k * (c + 1) = k * c + k
      BY <1>2, <2>1
    <3>2. k * (c + 1) <= k * q
      BY <1>2, <3>1
    <3> QED
      BY <1>2, <2>1, <3>1, <3>2
  <2>2. CASE ~(c < q)
    <3>1. k * q <= k * c
      BY <1>2, <2>2
    <3> QED
      BY <1>2, <2>2, <3>1
  <2> QED
    BY <2>1, <2>2
<1>5. ASSUME NEW i \in Indices(n)  PROVE i \div k \in Indices(q)
  <2>1. i \in Nat /\ i < n
    BY DEF Indices
  <2>2. i \div k \in Nat /\ k * (i \div k) <= i
    BY <2>1, Quotient
  <2>3. k * (i \div k) < n
    BY <2>1, <2>2
  <2>4. i \div k < q
    BY <1>4, <2>2, <2>3
  <2> QED
    BY <1>2, <2>2, <2>4 DEF Indices
<1>6. n > 0 => 0 < q
  <2>1. k * 0 = 0
    OBVIOUS
  <2> QED
    BY <1>4, <2>1
<1> QED
  BY <1>2, <1>3, <1>4, <1>5, <1>6

(* Indices(n) is the finite set of the numbers below n.                    *)
LEMMA IndexSet ==
  ASSUME NEW n \in Nat
  PROVE  /\ IsFiniteSet(Indices(n)) /\ Cardinality(Indices(n)) = n
         /\ \A i : i \in Indices(n) <=> i \in Nat /\ i < n
<1>1. IsFiniteSet(0..(n - 1)) /\ Cardinality(0..(n - 1)) = IF 0 <= n - 1 THEN (n - 1) - 0 + 1 ELSE 0
  <2>1. 0 \in Int /\ n - 1 \in Int
    OBVIOUS
  <2> QED
    BY <2>1, FS_Interval
<1> QED
  BY <1>1 DEF Indices

(* Powers: k ^ 0 and k ^ (d + 1), and they grow beyond any number.         *)
LEMMA PowerSteps ==
  ASSUME NEW k \in Nat, NEW d \in Nat
  PROVE  Power(k, 0) = 1 /\ Power(k, d + 1) = k * Power(k, d) /\ Power(k, d) \in Nat
<1> DEFINE powers(g, m) == g[0] = 1 /\ \A e \in 1..m : g[e] = k * g[e - 1]
           bad == {m \in Nat : ~ \E g \in [0..m -> Nat] : powers(g, m)}
<1>1. bad = {}
  <2> SUFFICES ASSUME bad # {}  PROVE FALSE
    OBVIOUS
  <2>1. bad \in SUBSET Nat
    OBVIOUS
  <2>2. PICK m \in bad : \A e \in bad : m <= e
    BY <2>1, LeastNatural
  <2>3. m \in Nat /\ ~ \E g \in [0..m -> Nat] : powers(g, m)
    OBVIOUS
  <2>4. m # 0
    <3>1. [e \in 0..0 |-> 1] \in [0..0 -> Nat] /\ powers([e \in 0..0 |-> 1], 0)
      OBVIOUS
    <3> QED
      BY <2>3, <3>1
  <2>5. m - 1 \in Nat /\ m - 1 \notin bad
    <3>1. m - 1 \in Nat /\ ~(m <= m - 1)
      BY <2>3, <2>4
    <3> QED
      BY <2>2, <3>1
  <2>6. PICK g \in [0..(m - 1) -> Nat] : powers(g, m - 1)
    BY <2>5
  <2> DEFINE h == [e \in 0..m |-> IF e = m THEN k * g[m - 1] ELSE g[e]]
  <2>7. m \in 1..m /\ m - 1 \in 0..(m - 1)
    BY <2>3, <2>4
  <2>8. h \in [0..m -> Nat]
    BY <2>3, <2>6, <2>7
  <2>9. powers(h, m)
    BY <2>3, <2>4, <2>6, <2>7
  <2> HIDE DEF h
  <2> QED
    BY <2>3, <2>8, <2>9
<1>2. PICK g \in [0..(d + 1) -> Nat] : powers(g, d + 1)
  <2>1. d + 1 \in Nat
    OBVIOUS
  <2>2. d + 1 \notin bad
    BY <1>1, Zenon
  <2> QED
    BY <2>1, <2>2
<1>3. ASSUME NEW m \in 0..(d + 1)  PROVE Power(k, m) = g[m]
  <2> DEFINE f == [e \in 0..m |-> g[e]]
             power == CHOOSE p : p = [e \in 0..m |-> IF e = 0 THEN 1 ELSE k * p[e - 1]]
  <2>1. f = [e \in 0..m |-> IF e = 0 THEN 1 ELSE k * f[e - 1]]
    <3>1. \A e \in 0..m : f[e] = IF e = 0 THEN 1 ELSE k * f[e - 1]
      BY <1>2
    <3> QED
      BY <3>1
  <2>2. power = [e \in 0..m |-> IF e = 0 THEN 1 ELSE k * power[e - 1]]
    BY <2>1
  <2>3. Power(k, m) = power[m]
    BY DEF Power
  <2> HIDE DEF power
  <2> DEFINE differ == {e \in 0..m : power[e] # g[e]}
  <2>4. differ = {}
    <3> SUFFICES ASSUME differ # {}  PROVE FALSE
      OBVIOUS
    <3>1. differ \in SUBSET Nat
      OBVIOUS
    <3>2. PICK e \in differ : \A x \in differ : e <= x
      BY <3>1, LeastNatural
    <3>3. e # 0
      BY <1>2, <2>2
    <3>4. e \in 1..(d + 1) /\ e - 1 \in 0..m /\ ~(e <= e - 1)
      BY <3>3
    <3>5. power[e - 1] = g[e - 1]
      BY <3>2, <3>4
    <3>6. power[e] = k * power[e - 1]
      BY <2>2, <3>3
    <3>7. g[e] = k * g[e - 1]
      BY <1>2, <3>4
    <3> QED
      BY <3>5, <3>6, <3>7
  <2>5. m \in 0..m
    OBVIOUS
  <2> QED
    BY <2>3, <2>4, <2>5
<1>4. 0 \in 0..(d + 1) /\ d \in 0..(d + 1) /\ d + 1 \in 0..(d + 1) /\ d + 1 \in 1..(d + 1) /\ (d + 1) - 1 = d
  OBVIOUS
<1>5. g[d + 1] = k * g[d] /\ g[0] = 1 /\ g[d] \in Nat
  BY <1>2, <1>4
<1> QED
  BY <1>3, <1>4, <1>5

(* Powers of two and more reach every number.                              *)
LEMMA PowerReaches ==
  ASSUME NEW k \in Nat \ {0, 1}, NEW n \in Nat
  PROVE  n < Power(k, n)
<1> DEFINE bad == {m \in Nat : ~(m < Power(k, m))}
<1>1. bad = {}
  <2> SUFFICES ASSUME bad # {}  PROVE FALSE
    OBVIOUS
  <2>1. bad \in SUBSET Nat
    OBVIOUS
  <2>2. PICK m \in bad : \A e \in bad : m <= e
    BY <2>1, LeastNatural
  <2>3. m # 0
    BY PowerSteps
  <2>4. m - 1 \in Nat /\ ~(m <= m - 1)
    BY <2>3
  <2>5. m - 1 < Power(k, m - 1) /\ Power(k, m - 1) \in Nat
    BY <2>2, <2>4, PowerSteps
  <2>6. Power(k, (m - 1) + 1) = k * Power(k, m - 1) /\ (m - 1) + 1 = m
    BY <2>4, PowerSteps
  <2> DEFINE p == Power(k, m - 1)
  <2>7. p \in Nat /\ m <= p /\ Power(k, m) = k * p
    BY <2>4, <2>5, <2>6
  <2> HIDE DEF p
  <2>8. p + p <= k * p
    BY <2>7
  <2> QED
    BY <2>3, <2>7, <2>8
<1> QED
  BY <1>1

(* The configuration of a round: clusters of at most n, on at least one    *)
(* level, and as many levels as are needed for a single cluster at the top. *)
LEMMA AutoDepth ==
  ASSUME NEW n \in Nat \ {0}, NEW target \in Nat \ {0}, NEW small \in Nat,
         NEW c \in AutoConfigs(n, target, small)
  PROVE  \E k \in 1..n, d \in 1..(n + 1) : c = Config(k, d) /\ n <= Power(k, d)
<1> DEFINE k == Min({target, n})
           enough == {d \in 1..n : Power(k, d) >= n}
           least == Min(enough)
<1>1. Power(n, 1) = n
  <2>1. Power(n, 0) = 1 /\ Power(n, 0 + 1) = n * Power(n, 0)
    BY PowerSteps
  <2> QED
    BY <2>1
<1>2. CASE c = Config(n, 1)
  <2>1. n \in 1..n /\ 1 \in 1..(n + 1) /\ n <= Power(n, 1)
    BY <1>1
  <2> QED
    BY <1>2, <2>1
<1>3. CASE c # Config(n, 1)
  <2>1. ~(n <= small \/ k <= 1) /\ c \in {Config(k, d) : d \in {least} \cup {e \in {least + 1} : least > 1 /\ Power(k, least) = n}}
    BY <1>3 DEF AutoConfigs
  <2>2. k \in {target, n} /\ k <= n
    BY DEF Min
  <2>3. k \in 1..n /\ k \in Nat \ {0, 1}
    BY <2>1, <2>2
  <2> HIDE DEF k
  <2>4. n \in enough
    BY <2>3, PowerReaches, PowerSteps
  <2>5. least \in enough /\ \A d \in enough : least <= d
    <3>1. enough \in SUBSET Nat /\ enough # {}
      BY <2>4
    <3>2. \E x \in enough : \A y \in enough : x <= y
      BY <3>1, LeastNatural
    <3> QED
      BY <3>2 DEF Min
  <2>6. least \in 1..n /\ n <= Power(k, least) /\ least \in Nat
    BY <2>5
  <2> HIDE DEF enough, least
  <2>7. Power(k, least) \in Nat /\ Power(k, least + 1) = k * Power(k, least)
    BY <2>3, <2>6, PowerSteps
  <2> DEFINE p == Power(k, least)
  <2>8. p \in Nat /\ n <= p /\ Power(k, least + 1) = k * p
    BY <2>6, <2>7
  <2> HIDE DEF p
  <2>9. n <= Power(k, least + 1)
    BY <2>3, <2>8
  <2>10. PICK d \in {least, least + 1} : c = Config(k, d)
    BY <2>1
  <2>11. d \in 1..(n + 1) /\ n <= Power(k, d)
    BY <2>6, <2>9
  <2> QED
    BY <2>3, <2>10, <2>11
<1> QED
  BY <1>2, <1>3

-----------------------------------------------------------------------------
(* A level of a tree over the peers of S: N disjoint clusters with members. *)
SoundLevel(clusters, N, S) ==
  /\ N \in Nat \ {0} /\ clusters = [c \in Indices(N) |-> clusters[c]]
  /\ \A c \in Indices(N) : clusters[c] \subseteq S /\ clusters[c] # {}
  /\ \A c, e \in Indices(N), i \in S : i \in clusters[c] /\ i \in clusters[e] => c = e

Within(clusters, i) == \E c \in DOMAIN clusters : i \in clusters[c]

(* Leader is the least member.                                             *)
LEMMA LeaderIn ==
  ASSUME NEW S \in SUBSET Nat, S # {}
  PROVE  Leader(S) \in S /\ \A i \in S : Leader(S) <= i
<1>1. \E x \in S : \A y \in S : x <= y
  BY LeastNatural
<1> QED
  BY <1>1 DEF Leader, Min

(* A permutation reaches every index.                                      *)
LEMMA PermutedOnto ==
  ASSUME NEW n \in Nat, NEW order \in Permuted(n)
  PROVE  /\ order \in [Indices(n) -> Indices(n)]
         /\ \A i, j \in Indices(n) : order[i] = order[j] => i = j
         /\ \A x \in Indices(n) : \E i \in Indices(n) : order[i] = x
<1>1. /\ order \in [Indices(n) -> Indices(n)]
      /\ \A i, j \in Indices(n) : order[i] = order[j] => i = j
  BY DEF Permuted
<1>2. order \in Injection(Indices(n), Indices(n))
  BY <1>1 DEF Injection, IsInjective
<1>3. IsFiniteSet(Indices(n))
  BY IndexSet
<1>4. order \in Surjection(Indices(n), Indices(n))
  BY <1>2, <1>3, FS_Injection
<1> QED
  BY <1>1, <1>4 DEF Surjection

(* The leaves: a peer's cluster is that of its image.                      *)
LEMMA LeavesSound ==
  ASSUME NEW n \in Nat \ {0}, NEW k \in Nat \ {0}, NEW order \in Permuted(n)
  PROVE  /\ SoundLevel(Leaves(order, k), CeilDiv(n, k), Indices(n))
         /\ \A i \in Indices(n) : Within(Leaves(order, k), i)
<1> DEFINE leaves == Leaves(order, k)
           N == CeilDiv(n, k)
<1>1. /\ order \in [Indices(n) -> Indices(n)]
      /\ \A x \in Indices(n) : \E i \in Indices(n) : order[i] = x
  BY PermutedOnto
<1>2. N \in Nat \ {0} /\ (\A c \in Nat : c < N <=> k * c < n) /\ (\A i \in Indices(n) : i \div k \in Indices(N))
  <2>1. n \in Nat /\ n > 0
    OBVIOUS
  <2>2. N \in Nat /\ (\A c \in Nat : c < N <=> k * c < n) /\ (\A i \in Indices(n) : i \div k \in Indices(N))
        /\ (n > 0 => N > 0)
    BY <2>1, RoundedUp
  <2> QED
    BY <2>1, <2>2
<1> HIDE DEF N
<1>3. \A c \in Indices(N) : \E i \in Indices(n) : order[i] \div k = c
  <2> SUFFICES ASSUME NEW c \in Indices(N)  PROVE \E i \in Indices(n) : order[i] \div k = c
    OBVIOUS
  <2>1. c \in Nat /\ k * c < n /\ k * c \in Nat
    BY <1>2, IndexSet
  <2>2. k * c \in Indices(n)
    BY <2>1, IndexSet
  <2>3. (k * c) \div k = c
    <3> DEFINE x == k * c
    <3>1. x \in Nat /\ k * c <= x /\ x < k * c + k
      BY <2>1
    <3> HIDE DEF x
    <3>2. x \div k = c
      BY <2>1, <3>1, QuotientIs
    <3> QED
      BY <3>2 DEF x
  <2> QED
    BY <1>1, <2>2, <2>3
<1>4. {order[i] \div k : i \in DOMAIN order} = Indices(N)
  BY <1>1, <1>2, <1>3
<1>5. leaves = [c \in Indices(N) |-> {i \in Indices(n) : order[i] \div k = c}]
  BY <1>1, <1>4 DEF Leaves
<1> HIDE DEF leaves
<1>6. SoundLevel(leaves, N, Indices(n))
  BY <1>2, <1>3, <1>5 DEF SoundLevel
<1>7. \A i \in Indices(n) : Within(leaves, i)
  BY <1>1, <1>2, <1>5 DEF Within
<1> QED
  BY <1>6, <1>7 DEF leaves, N

(* The clusters of leaders of a sound level are a sound level.             *)
LEMMA GroupedSound ==
  ASSUME NEW k \in Nat \ {0}, NEW n \in Nat, NEW clusters, NEW N,
         SoundLevel(clusters, N, Indices(n))
  PROVE  /\ SoundLevel(Grouped(clusters, k), CeilDiv(N, k), Indices(n))
         /\ \A i : Within(Grouped(clusters, k), i) <=>
                     \E c \in Indices(N) : i = Leader(clusters[c])
<1> DEFINE up == Grouped(clusters, k)
           N2 == CeilDiv(N, k)
<1>1. N \in Nat \ {0} /\ N > 0 /\ DOMAIN clusters = Indices(N) /\ Cardinality(Indices(N)) = N
  BY IndexSet DEF SoundLevel
<1>2. N2 \in Nat \ {0} /\ (\A c \in Nat : c < N2 <=> k * c < N) /\ (\A i \in Indices(N) : i \div k \in Indices(N2))
  <2>1. N2 \in Nat /\ (\A c \in Nat : c < N2 <=> k * c < N) /\ (\A i \in Indices(N) : i \div k \in Indices(N2))
        /\ (N > 0 => N2 > 0)
    BY <1>1, RoundedUp
  <2> QED
    BY <1>1, <2>1
<1>3. up = [c \in Indices(N2) |-> {Leader(clusters[j]) : j \in {i \in Indices(N) : i \div k = c}}]
  BY <1>1 DEF Grouped
<1> HIDE DEF N2, up
<1>4. \A c \in Indices(N) : clusters[c] \subseteq Indices(n) /\ clusters[c] # {} /\ Leader(clusters[c]) \in clusters[c]
  <2>1. \A c \in Indices(N) : clusters[c] \subseteq Indices(n) /\ clusters[c] # {}
    BY DEF SoundLevel
  <2>2. Indices(n) \subseteq Nat
    BY IndexSet
  <2> QED
    BY <2>1, <2>2, LeaderIn
<1>5. \A c \in Indices(N2) : up[c] \subseteq Indices(n)
  BY <1>3, <1>4
<1>6. ASSUME NEW c \in Indices(N2)  PROVE up[c] # {}
  <2>1. c \in Nat /\ c < N2
    BY <1>2, <1>6, IndexSet
  <2>2. k * c < N /\ k * c \in Nat
    BY <1>2, <2>1
  <2>3. k * c \in Indices(N)
    BY <1>1, <2>2, IndexSet
  <2>4. (k * c) \div k = c
    <3> DEFINE x == k * c
    <3>1. x \in Nat /\ k * c <= x /\ x < k * c + k
      BY <2>2
    <3> HIDE DEF x
    <3>2. x \div k = c
      BY <2>1, <3>1, QuotientIs
    <3> QED
      BY <3>2 DEF x
  <2>5. Leader(clusters[k * c]) \in up[c]
    BY <1>3, <2>3, <2>4
  <2> QED
    BY <2>5
<1>7. ASSUME NEW c \in Indices(N2), NEW e \in Indices(N2), NEW i \in Indices(n), i \in up[c], i \in up[e]
      PROVE  c = e
  <2>1. PICK a \in Indices(N) : i = Leader(clusters[a]) /\ a \div k = c
    BY <1>3, <1>7
  <2>2. PICK b \in Indices(N) : i = Leader(clusters[b]) /\ b \div k = e
    BY <1>3, <1>7
  <2>3. a = b
    BY <1>4, <2>1, <2>2 DEF SoundLevel
  <2> QED
    BY <2>1, <2>2, <2>3
<1>8. ASSUME NEW i  PROVE Within(up, i) <=> \E c \in Indices(N) : i = Leader(clusters[c])
  <2>1. DOMAIN up = Indices(N2)
    BY <1>3
  <2>2. ASSUME NEW c \in Indices(N), i = Leader(clusters[c])  PROVE Within(up, i)
    <3>1. c \div k \in Indices(N2)
      BY <1>2
    <3>2. i \in up[c \div k]
      BY <1>3, <2>2, <3>1
    <3> QED
      BY <2>1, <3>1, <3>2 DEF Within
  <2>3. ASSUME NEW e \in Indices(N2), i \in up[e]  PROVE \E c \in Indices(N) : i = Leader(clusters[c])
    BY <1>3, <2>3
  <2> QED
    BY <2>1, <2>2, <2>3 DEF Within
<1>9. up = [c \in Indices(N2) |-> up[c]]
  BY <1>3
<1>10. SoundLevel(up, N2, Indices(n))
  BY <1>2, <1>5, <1>6, <1>7, <1>9 DEF SoundLevel
<1> QED
  BY <1>8, <1>10 DEF up, N2

(* Whom Grouped puts into the next level.                                  *)
LEMMA GroupedLeaders ==
  ASSUME NEW k \in Nat \ {0}, NEW n \in Nat, NEW clusters, NEW N,
         SoundLevel(clusters, N, Indices(n)), NEW i
  PROVE  Within(Grouped(clusters, k), i) <=> \E c \in Indices(N) : i = Leader(clusters[c])
<1>1. /\ SoundLevel(Grouped(clusters, k), CeilDiv(N, k), Indices(n))
      /\ \A j : Within(Grouped(clusters, k), j) <=>
                  \E c \in Indices(N) : j = Leader(clusters[c])
  BY GroupedSound
<1> QED
  BY <1>1, Zenon

(* The tree of a round: sound levels, every peer a leaf, the members of a  *)
(* level the leaders of the level below, and one cluster at the top.       *)
SoundTree(t, n) ==
  \E depth \in Nat \ {0} :
    /\ DOMAIN t = Indices(depth)
    /\ \A l \in Indices(depth) : \E N \in Nat : SoundLevel(t[l], N, Indices(n))
    /\ \A i \in Indices(n) : InLevel(t, i, 0)
    /\ \A l \in Indices(depth - 1), i \in Indices(n) :
         InLevel(t, i, l + 1) <=> \E c \in DOMAIN t[l] : i = Leader(t[l][c])
    /\ DOMAIN t[depth - 1] = {0}

(* The recursion of Levels, which CHOOSE hides: there is such a function.  *)
LEMMA LevelsStep ==
  ASSUME NEW leaves, NEW k, NEW d \in Nat \ {0}
  PROVE  Levels(leaves, Config(k, d)) =
           [l \in Indices(d) |-> IF l = 0 THEN leaves
                                 ELSE Grouped(Levels(leaves, Config(k, d))[l - 1], k)]
<1> DEFINE levels(g, m) == g = [l \in Indices(m) |-> IF l = 0 THEN leaves ELSE Grouped(g[l - 1], k)]
           bad == {m \in Nat : ~ \E g : levels(g, m)}
<1>1. bad = {}
  <2> SUFFICES ASSUME bad # {}  PROVE FALSE
    OBVIOUS
  <2>1. bad \in SUBSET Nat
    OBVIOUS
  <2>2. PICK m \in bad : \A e \in bad : m <= e
    BY <2>1, LeastNatural
  <2>3. m \in Nat /\ ~ \E g : levels(g, m)
    OBVIOUS
  <2>4. m # 0
    <3>1. Indices(0) = {}
      BY DEF Indices
    <3>2. levels([l \in {} |-> 0], 0)
      BY <3>1
    <3> QED
      BY <2>3, <3>2
  <2>5. m - 1 \in Nat /\ m - 1 \notin bad
    <3>1. m - 1 \in Nat /\ ~(m <= m - 1)
      BY <2>3, <2>4
    <3> QED
      BY <2>2, <3>1
  <2>6. PICK g : levels(g, m - 1)
    BY <2>5
  <2> DEFINE h == [l \in Indices(m) |-> IF l = 0 THEN leaves ELSE Grouped(g[l - 1], k)]
  <2>7. \A l \in Indices(m) : l # 0 => l - 1 \in Indices(m - 1) /\ l - 1 \in Indices(m)
    BY <2>3 DEF Indices
  <2>8. \A l \in Indices(m - 1) : h[l] = g[l]
    <3>1. \A l \in Indices(m - 1) : l \in Indices(m)
      BY <2>3 DEF Indices
    <3> QED
      BY <2>6, <3>1
  <2>9. levels(h, m)
    BY <2>7, <2>8
  <2> HIDE DEF h
  <2> QED
    BY <2>3, <2>9
<1>2. \E g : levels(g, d)
  BY <1>1
<1> DEFINE level == CHOOSE g : levels(g, d)
<1>3. levels(level, d)
  BY <1>2
<1>4. Config(k, d).depth = d /\ Config(k, d).size = k
  BY DEF Config
<1>5. Levels(leaves, Config(k, d)) = level
  BY <1>4 DEF Levels
<1> QED
  BY <1>3, <1>5

(* The tree that finalize assigns is sound.                                *)
LEMMA TreeSound ==
  ASSUME NEW n \in Nat \ {0}, NEW k \in 1..n, NEW d \in 1..(n + 1), n <= Power(k, d),
         NEW order \in Permuted(n)
  PROVE  SoundTree(AssignClusters(order, Config(k, d)), n)
<1> DEFINE leaves == Leaves(order, k)
           t == AssignClusters(order, Config(k, d))
<1>1. k \in Nat \ {0} /\ d \in Nat \ {0}
  OBVIOUS
<1>2. t = [l \in Indices(d) |-> IF l = 0 THEN leaves ELSE Grouped(t[l - 1], k)]
  <2>1. t = Levels(leaves, Config(k, d))
    BY DEF AssignClusters, Config
  <2> QED
    BY <1>1, <2>1, LevelsStep
<1>3. SoundLevel(leaves, CeilDiv(n, k), Indices(n)) /\ \A i \in Indices(n) : Within(leaves, i)
  BY <1>1, LeavesSound
<1>4. \A l \in Indices(d) : l \in Nat /\ l < d
  BY <1>1, IndexSet
<1> HIDE DEF leaves, t
<1> DEFINE narrow(N, l) == SoundLevel(t[l], N, Indices(n)) /\ N <= Power(k, d - 1 - l)
           bad == {l \in Indices(d) : ~ \E N \in Nat : narrow(N, l)}
<1>5. ASSUME NEW N \in Nat, NEW p \in Nat, N <= k * p
      PROVE  CeilDiv(N, k) <= p /\ CeilDiv(N, k) \in Nat
  <2>1. CeilDiv(N, k) \in Nat /\ \A c \in Nat : c < CeilDiv(N, k) <=> k * c < N
    BY <1>1, RoundedUp
  <2>2. ~(k * p < N)
    <3> DEFINE q == k * p
    <3>1. q \in Nat /\ N <= q
      BY <1>1, <1>5
    <3> HIDE DEF q
    <3>2. ~(q < N)
      BY <3>1
    <3> QED
      BY <3>2 DEF q
  <2>3. ~(p < CeilDiv(N, k))
    BY <2>1, <2>2
  <2> QED
    BY <2>1, <2>3
<1>6. bad = {}
  <2> SUFFICES ASSUME bad # {}  PROVE FALSE
    OBVIOUS
  <2>1. bad \in SUBSET Nat
    BY <1>4
  <2>2. PICK l \in bad : \A e \in bad : l <= e
    BY <2>1, LeastNatural
  <2>3. l \in Indices(d) /\ l \in Nat /\ l < d /\ ~ \E N \in Nat : narrow(N, l)
    BY <1>4
  <2> DEFINE p == Power(k, d - 1 - l)
  <2>4. d - 1 - l \in Nat /\ (d - 1 - l) + 1 = d - l
    BY <1>1, <2>3
  <2>5. p \in Nat /\ Power(k, d - l) = k * p
    BY <1>1, <2>4, PowerSteps
  <2> HIDE DEF p
  <2>6. CASE l = 0
    <3>1. n <= k * p
      BY <2>5, <2>6
    <3>2. CeilDiv(n, k) <= p /\ CeilDiv(n, k) \in Nat
      BY <1>5, <2>5, <3>1
    <3>3. narrow(CeilDiv(n, k), l)
      BY <1>2, <1>3, <2>3, <2>6, <3>2 DEF p
    <3> QED
      BY <2>3, <3>2, <3>3
  <2>7. CASE l # 0
    <3>1. l - 1 \in Indices(d) /\ ~(l <= l - 1)
      BY <2>3, <2>7 DEF Indices
    <3>2. PICK N \in Nat : narrow(N, l - 1)
      BY <2>2, <3>1
    <3>3. d - 1 - (l - 1) = d - l
      BY <1>1, <2>3
    <3>4. N <= k * p
      BY <2>5, <3>2, <3>3
    <3>5. CeilDiv(N, k) <= p /\ CeilDiv(N, k) \in Nat
      BY <1>5, <2>5, <3>4
    <3>6. SoundLevel(t[l], CeilDiv(N, k), Indices(n))
      <4>1. t[l] = Grouped(t[l - 1], k)
        BY <1>2, <2>3, <2>7
      <4>2. SoundLevel(t[l - 1], N, Indices(n)) /\ n \in Nat
        BY <3>2
      <4> QED
        BY <1>1, <4>1, <4>2, GroupedSound
    <3>7. narrow(CeilDiv(N, k), l)
      BY <3>5, <3>6 DEF p
    <3> QED
      BY <2>3, <3>5, <3>7
  <2> QED
    BY <2>6, <2>7
<1>7. \A l \in Indices(d) : \E N \in Nat : narrow(N, l)
  BY <1>6
<1>8. \A l \in Indices(d) : \E N \in Nat : SoundLevel(t[l], N, Indices(n))
  BY <1>7
<1>9. \A i \in Indices(n) : InLevel(t, i, 0)
  <2>1. t[0] = leaves
    BY <1>1, <1>2 DEF Indices
  <2> QED
    BY <1>3, <2>1 DEF InLevel, Within
<1>10. ASSUME NEW l \in Indices(d - 1), NEW i \in Indices(n)
       PROVE  InLevel(t, i, l + 1) <=> \E c \in DOMAIN t[l] : i = Leader(t[l][c])
  <2>1. l \in Indices(d) /\ l + 1 \in Indices(d) /\ l + 1 # 0 /\ (l + 1) - 1 = l
    BY <1>1 DEF Indices
  <2>2. PICK N \in Nat : SoundLevel(t[l], N, Indices(n))
    BY <1>8, <2>1
  <2>3. t[l + 1] = Grouped(t[l], k)
    BY <1>2, <2>1
  <2>4. DOMAIN t[l] = Indices(N)
    BY <2>2 DEF SoundLevel
  <2>5. Within(Grouped(t[l], k), i) <=> \E c \in Indices(N) : i = Leader(t[l][c])
    BY <1>1, <2>2, GroupedLeaders
  <2> QED
    BY <2>3, <2>4, <2>5 DEF InLevel, Within
<1>11. DOMAIN t[d - 1] = {0}
  <2>1. d - 1 \in Indices(d) /\ d - 1 - (d - 1) = 0 /\ Power(k, 0) = 1
    BY <1>1, PowerSteps DEF Indices
  <2>2. PICK N \in Nat : narrow(N, d - 1)
    BY <1>7, <2>1
  <2>3. N = 1 /\ DOMAIN t[d - 1] = Indices(N)
    BY <2>1, <2>2 DEF SoundLevel
  <2> QED
    BY <2>3 DEF Indices
<1>12. DOMAIN t = Indices(d)
  BY <1>2
<1>13. SoundTree(t, n)
  BY <1>1, <1>8, <1>9, <1>10, <1>11, <1>12 DEF SoundTree
<1> QED
  BY <1>13 DEF t

(* A peer's cluster on a level it is in.                                   *)
LEMMA ClusterFacts ==
  ASSUME NEW n \in Nat, NEW t, SoundTree(t, n), NEW l \in DOMAIN t,
         NEW i \in Indices(n), InLevel(t, i, l)
  PROVE  LET S == ClusterOf(t, i, l) IN
         /\ S \in SUBSET Indices(n) /\ S \in SUBSET Nat /\ IsFiniteSet(S)
         /\ \E c \in DOMAIN t[l] : t[l][c] = S
         /\ i \in S /\ Leader(S) \in S
         /\ \A j \in S : InLevel(t, j, l) /\ ClusterOf(t, j, l) = S
<1>1. PICK N \in Nat : SoundLevel(t[l], N, Indices(n))
  BY DEF SoundTree
<1>2. DOMAIN t[l] = Indices(N)
  BY <1>1 DEF SoundLevel
<1>3. PICK c \in Indices(N) : i \in t[l][c]
  BY <1>2 DEF InLevel
<1>4. \A j \in t[l][c] : j \in Indices(n) /\ \A e \in Indices(N) : j \in t[l][e] <=> e = c
  BY <1>1, <1>3 DEF SoundLevel
<1>5. \A j \in t[l][c] : InLevel(t, j, l) /\ ClusterOf(t, j, l) = t[l][c]
  <2> SUFFICES ASSUME NEW j \in t[l][c]  PROVE InLevel(t, j, l) /\ ClusterOf(t, j, l) = t[l][c]
    OBVIOUS
  <2>1. (CHOOSE e \in Indices(N) : j \in t[l][e]) = c
    BY <1>4
  <2> QED
    BY <1>2, <1>4, <2>1 DEF InLevel, ClusterOf
<1>6. t[l][c] \in SUBSET Indices(n) /\ t[l][c] # {}
  BY <1>1, <1>3 DEF SoundLevel
<1>7. Indices(n) \subseteq Nat /\ IsFiniteSet(Indices(n))
  BY IndexSet
<1>8. IsFiniteSet(t[l][c])
  BY <1>6, <1>7, FS_Subset
<1>9. Leader(t[l][c]) \in t[l][c]
  BY <1>6, <1>7, LeaderIn
<1> QED
  BY <1>2, <1>3, <1>5, <1>6, <1>7, <1>8, <1>9

(* A peer is in the level above just when it leads its cluster.            *)
LEMMA Climbs ==
  ASSUME NEW n \in Nat, NEW t, SoundTree(t, n), NEW l \in DOMAIN t, NEW i \in Indices(n)
  PROVE  /\ l \in Nat
         /\ l + 1 \in DOMAIN t =>
              (InLevel(t, i, l + 1) <=> InLevel(t, i, l) /\ i = Leader(ClusterOf(t, i, l)))
<1>1. PICK depth \in Nat \ {0} :
        /\ DOMAIN t = Indices(depth)
        /\ \A m \in Indices(depth - 1), j \in Indices(n) :
             InLevel(t, j, m + 1) <=> \E c \in DOMAIN t[m] : j = Leader(t[m][c])
        /\ \A m \in Indices(depth) : \E N \in Nat : SoundLevel(t[m], N, Indices(n))
  BY DEF SoundTree
<1>2. l \in Nat /\ l < depth
  BY <1>1, IndexSet
<1>3. ASSUME l + 1 \in DOMAIN t
      PROVE  InLevel(t, i, l + 1) <=> InLevel(t, i, l) /\ i = Leader(ClusterOf(t, i, l))
  <2>1. l \in Indices(depth - 1)
    BY <1>1, <1>2, <1>3 DEF Indices
  <2>2. InLevel(t, i, l + 1) <=> \E c \in DOMAIN t[l] : i = Leader(t[l][c])
    BY <1>1, <2>1
  <2>3. ASSUME InLevel(t, i, l), i = Leader(ClusterOf(t, i, l))
        PROVE  \E c \in DOMAIN t[l] : i = Leader(t[l][c])
    BY <2>3, ClusterFacts
  <2>4. ASSUME NEW c \in DOMAIN t[l], i = Leader(t[l][c])
        PROVE  InLevel(t, i, l) /\ i = Leader(ClusterOf(t, i, l))
    <3>1. t[l][c] \in SUBSET Nat /\ t[l][c] # {}
      <4>1. PICK N \in Nat : SoundLevel(t[l], N, Indices(n))
        BY <1>1
      <4>2. t[l][c] \in SUBSET Indices(n) /\ t[l][c] # {}
        BY <4>1 DEF SoundLevel
      <4>3. Indices(n) \subseteq Nat
        BY IndexSet
      <4> QED
        BY <4>2, <4>3
    <3>2. i \in t[l][c]
      BY <2>4, <3>1, LeaderIn
    <3>3. InLevel(t, i, l)
      BY <3>2 DEF InLevel
    <3>4. ClusterOf(t, i, l) = t[l][c]
      <4>1. PICK N \in Nat : SoundLevel(t[l], N, Indices(n))
        BY <1>1
      <4>2. \A e \in DOMAIN t[l] : i \in t[l][e] <=> e = c
        BY <3>2, <4>1 DEF SoundLevel
      <4> QED
        BY <4>2 DEF ClusterOf
    <3> QED
      BY <2>4, <3>3, <3>4
  <2> QED
    BY <2>2, <2>3, <2>4
<1> QED
  BY <1>2, <1>3

(* The levels a peer is in: from the leaves up to one where it does not    *)
(* lead, or to the top.                                                    *)
LEMMA PathFacts ==
  ASSUME NEW n \in Nat, NEW t, SoundTree(t, n), NEW i \in Indices(n)
  PROVE  LET top == Max(Path(t, i)) IN
         /\ Path(t, i) \in SUBSET Nat /\ Path(t, i) = 0..top /\ top \in Nat
         /\ \A l \in Path(t, i) : l \in DOMAIN t /\ InLevel(t, i, l)
         /\ \A l \in Path(t, i) : l < top => i = Leader(ClusterOf(t, i, l))
         /\ top + 1 \in DOMAIN t => i # Leader(ClusterOf(t, i, top))
<1> DEFINE P == Path(t, i)
<1>1. PICK depth \in Nat \ {0} : DOMAIN t = Indices(depth)
  BY DEF SoundTree
<1>2. \A l \in P : l \in DOMAIN t /\ InLevel(t, i, l) /\ l \in 0..depth
  BY <1>1 DEF Path, Indices
<1>3. 0 \in P
  BY <1>1 DEF SoundTree, Path, Indices
<1>4. PICK top \in P : \A l \in P : l <= top
  <2>1. P \in SUBSET (0..depth) /\ P # {} /\ depth \in Nat
    BY <1>2, <1>3
  <2> QED
    BY <2>1, GreatestBounded
<1>5. Max(P) = top
  <2>1. \A x \in P : (\A y \in P : x >= y) => x = top
    BY <1>2, <1>4
  <2>2. \A y \in P : top >= y
    BY <1>2, <1>4
  <2> QED
    BY <1>4, <2>1, <2>2 DEF Max
<1>6. \A l \in P : l + 1 \in DOMAIN t => (l + 1 \in P <=> i = Leader(ClusterOf(t, i, l)))
  BY <1>2, Climbs DEF Path
<1>7. \A l \in DOMAIN t : l + 1 \in P => l \in P
  BY <1>2, Climbs DEF Path
<1>8. 0..top \subseteq P
  <2> DEFINE bad == {x \in 0..top : top - x \notin P}
  <2> SUFFICES bad = {}
    <3>1. ASSUME NEW l \in 0..top  PROVE l \in P
      <4>1. top - l \in 0..top /\ top - (top - l) = l
        BY <1>2, <1>4
      <4>2. top - l \notin bad
        OBVIOUS
      <4> QED
        BY <4>1, <4>2
    <3> QED
      BY <3>1
  <2> SUFFICES ASSUME bad # {}  PROVE FALSE
    OBVIOUS
  <2>1. bad \in SUBSET Nat
    OBVIOUS
  <2>2. PICK x \in bad : \A y \in bad : x <= y
    BY <2>1, LeastNatural
  <2>3. x \in 0..top /\ top - x \notin P /\ x # 0
    BY <1>2, <1>4
  <2>4. x - 1 \in 0..top /\ ~(x <= x - 1)
    <3>1. top \in Nat
      BY <1>2, <1>4
    <3> QED
      BY <2>3, <3>1
  <2>5. top - (x - 1) \in P /\ top - (x - 1) = (top - x) + 1
    BY <1>2, <1>4, <2>2, <2>3, <2>4
  <2>6. top - x \in DOMAIN t
    BY <1>1, <1>2, <1>4, <2>3 DEF Indices
  <2> QED
    BY <1>7, <2>3, <2>5, <2>6
<1>9. P = 0..top /\ top \in Nat
  <2>1. top \in Nat
    BY <1>2, <1>4
  <2>2. \A l \in P : l \in 0..top
    BY <1>2, <1>4, <2>1
  <2> QED
    BY <1>8, <2>1, <2>2
<1>10. \A l \in P : l < top => l + 1 \in P /\ l + 1 \in DOMAIN t
  BY <1>2, <1>9
<1>11. top + 1 \notin P
  BY <1>9
<1>12. \A l \in P : l < top => i = Leader(ClusterOf(t, i, l))
  BY <1>6, <1>10
<1>13. top + 1 \in DOMAIN t => i # Leader(ClusterOf(t, i, top))
  BY <1>4, <1>6, <1>11
<1> QED
  BY <1>2, <1>5, <1>9, <1>12, <1>13

(* Two peers are in the same cluster on one level at most: higher up only  *)
(* one of them, its leader, goes.                                          *)
LEMMA MeetOnce ==
  ASSUME NEW n \in Nat, NEW t, SoundTree(t, n),
         NEW i \in Indices(n), NEW j \in Indices(n), i # j,
         NEW l \in Path(t, i), NEW m \in Path(t, i),
         j \in ClusterOf(t, i, l), j \in ClusterOf(t, i, m)
  PROVE  l = m
<1>1. ASSUME NEW a \in Path(t, i), NEW b \in Path(t, i), a < b,
             j \in ClusterOf(t, i, a), j \in ClusterOf(t, i, b)
      PROVE  FALSE
  <2>1. /\ a \in Nat /\ b \in Nat /\ b <= Max(Path(t, i)) /\ Max(Path(t, i)) \in Nat
        /\ i = Leader(ClusterOf(t, i, a)) /\ a \in DOMAIN t /\ b \in DOMAIN t
        /\ InLevel(t, i, a) /\ InLevel(t, i, b)
    <3>1. a < Max(Path(t, i))
      BY <1>1, PathFacts
    <3> QED
      BY <1>1, <3>1, PathFacts
  <2>2. InLevel(t, j, a) /\ ClusterOf(t, j, a) = ClusterOf(t, i, a)
    BY <1>1, <2>1, ClusterFacts
  <2>3. InLevel(t, j, b)
    BY <1>1, <2>1, ClusterFacts
  <2>4. b \in Path(t, j) /\ a \in Path(t, j)
    BY <2>1, <2>2, <2>3 DEF Path
  <2>5. a < Max(Path(t, j))
    BY <1>1, <2>1, <2>4, PathFacts
  <2>6. j = Leader(ClusterOf(t, j, a))
    BY <2>4, <2>5, PathFacts
  <2> QED
    BY <2>1, <2>2, <2>6
<1>2. l \in Nat /\ m \in Nat
  BY PathFacts
<1> QED
  BY <1>1, <1>2

-----------------------------------------------------------------------------
(* Rings.  Positions number the members of a cluster in their order.       *)
LEMMA PositionFacts ==
  ASSUME NEW S \in SUBSET Nat, IsFiniteSet(S), S # {}
  PROVE  LET r == Cardinality(S) IN
         /\ r \in Nat \ {0}
         /\ \A i \in S : Position(i, S) \in 0..(r - 1)
         /\ \A i, j \in S : Position(i, S) = Position(j, S) => i = j
         /\ \A p \in 0..(r - 1) : \E i \in S : Position(i, S) = p
<1> DEFINE r == Cardinality(S)
<1>1. r \in Nat \ {0}
  BY FS_CardinalityType, FS_EmptySet
<1>2. ASSUME NEW i \in S  PROVE Position(i, S) + 1 = Rank(S, i) /\ Position(i, S) \in 0..(r - 1)
  <2> DEFINE B == {j \in S : j < i}
  <2>1. {j \in S : j <= i} = B \cup {i} /\ i \notin B /\ B \in SUBSET S /\ B # S
    <3>1. \A j \in S : j <= i <=> j < i \/ j = i
      OBVIOUS
    <3>2. ~(i < i)
      OBVIOUS
    <3> QED
      BY <3>1, <3>2
  <2> HIDE DEF B
  <2>2. IsFiniteSet(B) /\ Cardinality(B) \in Nat /\ Cardinality(B) <= r /\ Cardinality(B) # r
    BY <2>1, FS_Subset, FS_CardinalityType
  <2>3. Cardinality(B \cup {i}) = Cardinality(B) + 1
    BY <2>1, <2>2, FS_AddElement
  <2>4. Position(i, S) = Cardinality(B) /\ Rank(S, i) = Cardinality(B) + 1
    BY <2>1, <2>3 DEF Position, Rank, B
  <2> QED
    BY <1>1, <2>2, <2>4
<1>3. ASSUME NEW i \in S, NEW j \in S, i < j  PROVE Position(i, S) # Position(j, S)
  <2> DEFINE B == {x \in S : x < i}
             C == {x \in S : x < j}
  <2>0. i \in Nat /\ j \in Nat /\ \A x \in S : x \in Nat /\ (x < i => x < j)
    BY <1>3
  <2>1. i \in C /\ C \in SUBSET S /\ i \notin B
    BY <1>3, <2>0
  <2>5. \A x \in B : x \in C
    BY <2>0
  <2> HIDE DEF B, C
  <2>2. IsFiniteSet(C) /\ B # C
    BY <2>1, FS_Subset
  <2>3. Cardinality(B) # Cardinality(C)
    <3>1. B \in SUBSET C
      BY <2>5
    <3> QED
      BY <2>2, <3>1, FS_Subset
  <2> QED
    BY <2>3 DEF Position, B, C
<1>4. \A i, j \in S : Position(i, S) = Position(j, S) => i = j
  <2>1. \A i, j \in S : i # j => i < j \/ j < i
    OBVIOUS
  <2> QED
    BY <1>3, <2>1
<1>5. ASSUME NEW p \in 0..(r - 1)  PROVE \E i \in S : Position(i, S) = p
  <2>1. p + 1 \in 1..r /\ S \in SUBSET Int
    BY <1>1
  <2>2. PICK i \in S : Rank(S, i) = p + 1
    BY <2>1, RankReached
  <2>3. Position(i, S) + 1 = p + 1 /\ Position(i, S) \in 0..(r - 1)
    BY <1>2, <2>2
  <2> QED
    BY <1>1, <2>3
<1> QED
  BY <1>1, <1>2, <1>4, <1>5

(* The positions before and after one, around the ring.                    *)
LEMMA Around ==
  ASSUME NEW r \in Nat \ {0}, NEW q \in 0..(r - 1)
  PROVE  /\ (q + 1) % r = (IF q = r - 1 THEN 0 ELSE q + 1)
         /\ (q + r - 1) % r = (IF q = 0 THEN r - 1 ELSE q - 1)
<1> QED
  OBVIOUS

(* AtPosition finds the peer of a position.                                *)
LEMMA AtPositionIs ==
  ASSUME NEW S \in SUBSET Nat, IsFiniteSet(S), NEW i \in S, NEW p,
         Position(i, S) = p % Cardinality(S)
  PROVE  AtPosition(p, S) = i
<1>1. \A j \in S : Position(j, S) = p % Cardinality(S) <=> j = i
  BY PositionFacts
<1> QED
  BY <1>1 DEF AtPosition

(* Right and Left are neighbours of each other.                            *)
LEMMA Neighbours ==
  ASSUME NEW S \in SUBSET Nat, IsFiniteSet(S), NEW i \in S
  PROVE  LET r == Cardinality(S)  p == Position(i, S) IN
         /\ Right(i, S) \in S
         /\ Position(Right(i, S), S) = IF p = r - 1 THEN 0 ELSE p + 1
         /\ Left(i, S) \in S
         /\ Position(Left(i, S), S) = IF p = 0 THEN r - 1 ELSE p - 1
         /\ Left(Right(i, S), S) = i /\ Right(Left(i, S), S) = i
         /\ r > 1 => Right(i, S) # i /\ Left(i, S) # i
<1> DEFINE r == Cardinality(S)
           p == Position(i, S)
<1>1. r \in Nat \ {0} /\ p \in 0..(r - 1)
  BY PositionFacts
<1>2. ASSUME NEW q \in 0..(r - 1)
      PROVE  /\ (q + 1) % r = (IF q = r - 1 THEN 0 ELSE q + 1)
             /\ (q + r - 1) % r = (IF q = 0 THEN r - 1 ELSE q - 1)
  BY <1>1, Around
<1>3. ASSUME NEW j \in S
      PROVE  /\ Right(j, S) \in S
             /\ Position(Right(j, S), S) = IF Position(j, S) = r - 1 THEN 0 ELSE Position(j, S) + 1
  <2> DEFINE q == Position(j, S)
  <2>1. q \in 0..(r - 1)
    BY PositionFacts
  <2> HIDE DEF q
  <2>2. (IF q = r - 1 THEN 0 ELSE q + 1) \in 0..(r - 1)
    BY <1>1, <2>1
  <2>3. PICK k \in S : Position(k, S) = (q + 1) % r
    BY <1>2, <2>1, <2>2, PositionFacts
  <2>4. Right(j, S) = k
    BY <2>3, AtPositionIs DEF Right, q
  <2> QED
    BY <1>2, <2>1, <2>3, <2>4 DEF q
<1>4. ASSUME NEW j \in S
      PROVE  /\ Left(j, S) \in S
             /\ Position(Left(j, S), S) = IF Position(j, S) = 0 THEN r - 1 ELSE Position(j, S) - 1
  <2> DEFINE q == Position(j, S)
  <2>1. q \in 0..(r - 1)
    BY PositionFacts
  <2> HIDE DEF q
  <2>2. (IF q = 0 THEN r - 1 ELSE q - 1) \in 0..(r - 1)
    BY <1>1, <2>1
  <2>3. PICK k \in S : Position(k, S) = (q + r - 1) % r
    BY <1>2, <2>1, <2>2, PositionFacts
  <2>4. Left(j, S) = k
    BY <2>3, AtPositionIs DEF Left, q
  <2> QED
    BY <1>2, <2>1, <2>3, <2>4 DEF q
<1> HIDE DEF r, p
<1>5. Position(Left(Right(i, S), S), S) = p /\ Position(Right(Left(i, S), S), S) = p
  <2>1. Right(i, S) \in S /\ Position(Right(i, S), S) = IF p = r - 1 THEN 0 ELSE p + 1
    BY <1>3 DEF p
  <2>2. Left(i, S) \in S /\ Position(Left(i, S), S) = IF p = 0 THEN r - 1 ELSE p - 1
    BY <1>4 DEF p
  <2>3. Position(Left(Right(i, S), S), S) =
          IF Position(Right(i, S), S) = 0 THEN r - 1 ELSE Position(Right(i, S), S) - 1
    BY <1>4, <2>1
  <2>4. Position(Right(Left(i, S), S), S) =
          IF Position(Left(i, S), S) = r - 1 THEN 0 ELSE Position(Left(i, S), S) + 1
    BY <1>3, <2>2
  <2> QED
    BY <1>1, <2>1, <2>2, <2>3, <2>4
<1>6. Left(Right(i, S), S) = i /\ Right(Left(i, S), S) = i
  BY <1>3, <1>4, <1>5, PositionFacts DEF p
<1>7. r > 1 => Right(i, S) # i /\ Left(i, S) # i
  BY <1>1, <1>3, <1>4 DEF p
<1> QED
  BY <1>3, <1>4, <1>6, <1>7 DEF r, p

-----------------------------------------------------------------------------
(* A round.  The messages of a ring, and how many of them a peer at place a *)
(* has sent and received on level l, with S its cluster there; whether it   *)
(* has told, or been told, the result on that level.                        *)
Rounds(S) == 2 * Cardinality(S) - 2
Rising(a) == a.pc \in {"send", "recv"}
Falling(a) == a.pc \in {"down", "done"}

UpGot(a, l, S) ==
  IF Falling(a) \/ (Rising(a) /\ l < a.level) THEN Rounds(S)
  ELSE IF Rising(a) /\ l = a.level THEN a.step ELSE 0
UpSent(a, l, S) ==
  IF a.pc = "recv" /\ l = a.level THEN a.step + 1 ELSE UpGot(a, l, S)
Told(a, l) == IF a.pc = "done" \/ (a.pc = "down" /\ a.level < l) THEN 1 ELSE 0

(* The messages x has sent y, and those y has received from x, on the      *)
(* level l on which both are in the same cluster.                          *)
Meet(t, x, y, l) == x # y /\ l \in Path(t, x) /\ y \in ClusterOf(t, x, l)

Sent(t, a, x, y, l) ==
  LET S == ClusterOf(t, x, l) IN
    (IF y = Right(x, S) THEN UpSent(a[x], l, S) ELSE 0)
    + (IF x = Leader(S) THEN Told(a[x], l) ELSE 0)
Got(t, a, x, y, l) ==
  LET S == ClusterOf(t, x, l) IN
    (IF y = Right(x, S) THEN UpGot(a[y], l, S) ELSE 0)
    + (IF x = Leader(S) THEN Told(a[y], l) ELSE 0)

Place == [pc : {"waiting", "send", "recv", "down", "done"}, level : Nat, step : Nat]

(* A peer that takes part is in a ring with company, on its way down, or   *)
(* done.                                                                   *)
InRing(t, i, a) ==
  /\ a.level \in Path(t, i) /\ Cardinality(ClusterOf(t, i, a.level)) > 1
  /\ a.step < Rounds(ClusterOf(t, i, a.level))
PlaceOf(t, i, a) ==
  \/ Rising(a) /\ InRing(t, i, a)
  \/ a.pc = "down" /\ a.level \in Path(t, i)
  \/ a.pc = "done"

Queue(s) == s \in Seq({s[q] : q \in DOMAIN s})
Channels(c) == c = [x \in Index |-> [y \in Index |-> c[x][y]]] /\ \A x, y \in Index : Queue(c[x][y])

(* What is under way from one peer to another.                             *)
Balanced(t, a, c) ==
  \A x, y \in Index :
    /\ \A l \in Path(t, x) : Meet(t, x, y, l) =>
         Len(c[x][y]) = Sent(t, a, x, y, l) - Got(t, a, x, y, l)
    /\ (\A l \in Path(t, x) : ~Meet(t, x, y, l)) => c[x][y] = << >>

TreeInv ==
  /\ n_participants \in 0..MaxPeers
  /\ tree # NoTree => n_participants > 0 /\ SoundTree(tree, n_participants)
PlacesInv ==
  /\ at \in [Index -> Place]
  /\ \A i \in Index : IF tree # NoTree /\ i < n_participants THEN PlaceOf(tree, i, at[i])
                      ELSE at[i] = Waiting
ChannelsInv ==
  /\ Channels(channel)
  /\ tree = NoTree => \A x, y \in Index : channel[x][y] = << >>
  /\ tree # NoTree => Balanced(tree, at, channel)
RoundInv == TreeInv /\ PlacesInv /\ ChannelsInv

(* Every sequence is a queue.                                              *)
LEMMA SequenceQueue ==
  ASSUME NEW T, NEW u \in Seq(T)
  PROVE  Queue(u)
<1>1. PICK n \in Nat : u \in [1..n -> T]
  BY SeqDef
<1>2. u \in [1..n -> {u[q] : q \in DOMAIN u}]
  BY <1>1
<1>3. u \in Seq({u[q] : q \in DOMAIN u})
  BY <1>2, SeqDef
<1> QED
  BY <1>3 DEF Queue

(* A queue with one message more, or one less.                             *)
LEMMA QueueFacts ==
  ASSUME NEW s, Queue(s)
  PROVE  /\ Len(s) \in Nat /\ DOMAIN s = 1..Len(s)
         /\ Len(s) = 0 <=> s = << >>
         /\ \A m : /\ Queue(Append(s, m)) /\ Len(Append(s, m)) = Len(s) + 1
                   /\ Append(s, m)[Len(s) + 1] = m
                   /\ \A q \in 1..Len(s) : Append(s, m)[q] = s[q]
         /\ s # << >> => /\ Queue(Tail(s)) /\ Len(Tail(s)) = Len(s) - 1 /\ Head(s) = s[1]
                         /\ \A q \in 1..(Len(s) - 1) : Tail(s)[q] = s[q + 1]
<1> DEFINE T == {s[q] : q \in DOMAIN s}
<1>1. s \in Seq(T)
  BY DEF Queue
<1>2. Len(s) \in Nat /\ DOMAIN s = 1..Len(s) /\ \A q \in 1..Len(s) : s[q] \in T
  BY <1>1
<1>3. Len(s) = 0 <=> s = << >>
  BY <1>1, EmptySeq
<1> HIDE DEF T
<1>4. ASSUME NEW m
      PROVE  /\ Queue(Append(s, m)) /\ Len(Append(s, m)) = Len(s) + 1
             /\ Append(s, m)[Len(s) + 1] = m
             /\ \A q \in 1..Len(s) : Append(s, m)[q] = s[q]
  <2> DEFINE U == T \cup {m}
             u == Append(s, m)
  <2>1. s \in Seq(U) /\ m \in U
    BY <1>1, <1>2, SeqMonotonic, SeqDef
  <2> HIDE DEF U
  <2>2. /\ u \in Seq(U) /\ Len(u) = Len(s) + 1 /\ u[Len(s) + 1] = m
        /\ \A q \in 1..Len(s) : u[q] = s[q]
    BY <2>1
  <2>3. Queue(u)
    BY <2>2, SequenceQueue
  <2> QED
    BY <2>2, <2>3
<1>5. ASSUME s # << >>
      PROVE  /\ Queue(Tail(s)) /\ Len(Tail(s)) = Len(s) - 1 /\ Head(s) = s[1]
             /\ \A q \in 1..(Len(s) - 1) : Tail(s)[q] = s[q + 1]
  <2> DEFINE u == Tail(s)
  <2>1. /\ u \in Seq(T) /\ Len(u) = Len(s) - 1 /\ Head(s) = s[1]
        /\ \A q \in 1..(Len(s) - 1) : u[q] = s[q + 1]
    BY <1>1, <1>2, <1>5
  <2>2. Queue(u)
    BY <2>1, SequenceQueue
  <2> QED
    BY <2>1, <2>2
<1> QED
  BY <1>2, <1>3, <1>4, <1>5

(* Where Up leads: levels without company are skipped.                     *)
LEMMA UpFacts ==
  ASSUME NEW n \in Nat, NEW t, SoundTree(t, n), NEW i \in Indices(n), NEW m \in Nat
  PROVE  LET b == Up(i, m, t) IN
         /\ b \in Place /\ b.step = 0 /\ b.level \in Path(t, i)
         /\ \/ /\ b.pc = "down" /\ b.level = Max(Path(t, i))
               /\ \A l \in Path(t, i) : l >= m => Cardinality(ClusterOf(t, i, l)) = 1
            \/ /\ b.pc = "send" /\ b.level >= m /\ Cardinality(ClusterOf(t, i, b.level)) > 1
               /\ \A l \in Path(t, i) : l >= m /\ l < b.level => Cardinality(ClusterOf(t, i, l)) = 1
<1> DEFINE P == Path(t, i)
           size(l) == Cardinality(ClusterOf(t, i, l))
           rings == {l \in P : l >= m /\ size(l) > 1}
<1>1. P \in SUBSET Nat /\ P = 0..Max(P) /\ Max(P) \in Nat
  BY PathFacts
<1>2. \A l \in P : size(l) \in Nat \ {0}
  <2> SUFFICES ASSUME NEW l \in P  PROVE size(l) \in Nat \ {0}
    OBVIOUS
  <2>1. l \in DOMAIN t /\ InLevel(t, i, l)
    BY PathFacts
  <2>2. IsFiniteSet(ClusterOf(t, i, l)) /\ i \in ClusterOf(t, i, l)
    BY <2>1, ClusterFacts
  <2> QED
    BY <2>2, FS_CardinalityType, FS_EmptySet
<1>3. Up(i, m, t) = IF rings = {} THEN [pc |-> "down", level |-> Max(P), step |-> 0]
                    ELSE [pc |-> "send", level |-> Min(rings), step |-> 0]
  BY DEF Up
<1> HIDE DEF P, size
<1>4. CASE rings = {}
  <2>1. \A l \in P : l >= m => size(l) = 1
    BY <1>1, <1>2, <1>4
  <2>2. Max(P) \in P
    BY <1>1
  <2> QED
    BY <1>1, <1>3, <1>4, <2>1, <2>2 DEF P, size, Place
<1>5. CASE rings # {}
  <2>1. rings \in SUBSET Nat
    BY <1>1
  <2>2. \E x \in rings : \A y \in rings : x <= y
    BY <1>5, <2>1, LeastNatural
  <2>3. Min(rings) \in rings /\ \A y \in rings : Min(rings) <= y
    BY <2>2 DEF Min
  <2> DEFINE b == Min(rings)
  <2>4. b \in P /\ b \in Nat /\ b >= m /\ size(b) > 1
    BY <2>1, <2>3
  <2>5. ASSUME NEW l \in P, l >= m, l < b  PROVE size(l) = 1
    <3>1. l \notin rings
      BY <1>1, <2>3, <2>4, <2>5
    <3> QED
      BY <1>2, <2>5, <3>1
  <2>6. Up(i, m, t) = [pc |-> "send", level |-> b, step |-> 0]
    BY <1>3, <1>5
  <2> HIDE DEF b, rings
  <2> QED
    BY <2>4, <2>5, <2>6 DEF P, size, Place
<1> QED
  BY <1>4, <1>5

(* A cluster on the path of a peer: it is that of all its members.         *)
LEMMA RingOf ==
  ASSUME NEW n \in Nat, NEW t, SoundTree(t, n), NEW x \in Nat, NEW l \in Path(t, x)
  PROVE  LET S == ClusterOf(t, x, l) IN
         /\ x \in Indices(n) /\ l \in DOMAIN t /\ l \in Nat
         /\ S \in SUBSET Nat /\ S \in SUBSET Indices(n) /\ IsFiniteSet(S)
         /\ x \in S /\ Leader(S) \in S
         /\ Cardinality(S) \in Nat \ {0} /\ Rounds(S) \in Nat
         /\ Cardinality(S) = 1 => Rounds(S) = 0 /\ S = {x}
         /\ \A y \in S : y \in Indices(n) /\ l \in Path(t, y) /\ ClusterOf(t, y, l) = S
<1> DEFINE S == ClusterOf(t, x, l)
<1>1. l \in DOMAIN t /\ InLevel(t, x, l)
  BY DEF Path
<1>2. x \in Indices(n)
  <2>1. PICK N \in Nat : SoundLevel(t[l], N, Indices(n))
    BY <1>1 DEF SoundTree
  <2>2. PICK c \in DOMAIN t[l] : x \in t[l][c]
    BY <1>1 DEF InLevel
  <2> QED
    BY <2>1, <2>2 DEF SoundLevel
<1>3. /\ S \in SUBSET Indices(n) /\ S \in SUBSET Nat /\ IsFiniteSet(S)
      /\ x \in S /\ Leader(S) \in S
      /\ \A y \in S : InLevel(t, y, l) /\ ClusterOf(t, y, l) = S
  BY <1>1, <1>2, ClusterFacts
<1>4. l \in Nat
  BY <1>1, <1>2, Climbs
<1> HIDE DEF S
<1>5. Cardinality(S) \in Nat \ {0}
  BY <1>3, FS_CardinalityType, FS_EmptySet
<1>6. Cardinality(S) = 1 => S = {x}
  BY <1>3, FS_Singleton
<1>7. Rounds(S) \in Nat /\ (Cardinality(S) = 1 => Rounds(S) = 0)
  BY <1>5 DEF Rounds
<1> QED
  BY <1>1, <1>2, <1>3, <1>4, <1>5, <1>6, <1>7 DEF S, Path

(* How the counts of a peer change when it moves.                          *)
LEMMA CountsTyped ==
  ASSUME NEW a \in Place, NEW S, Rounds(S) \in Nat, NEW l \in Nat
  PROVE  UpGot(a, l, S) \in Nat /\ UpSent(a, l, S) \in Nat /\ Told(a, l) \in Nat
<1> QED
  BY DEF UpGot, UpSent, Told, Place

Counted(a, b, l, S, sent, got, told) ==
  /\ UpSent(b, l, S) = UpSent(a, l, S) + sent
  /\ UpGot(b, l, S) = UpGot(a, l, S) + got
  /\ Told(b, l) = Told(a, l) + told

(* What a peer sends in the ring it is in counts once for its right        *)
(* neighbour.                                                              *)
LEMMA Sends ==
  ASSUME NEW a \in Place, a.pc = "send", NEW S, Rounds(S) \in Nat, NEW l \in Nat
  PROVE  LET b == [a EXCEPT !.pc = "recv"] IN
         b \in Place /\ Counted(a, b, l, S, IF l = a.level THEN 1 ELSE 0, 0, 0)
<1> QED
  BY DEF UpGot, UpSent, Told, Place, Rising, Falling, Counted

(* A message received moves a peer on by one step.                         *)
LEMMA Steps ==
  ASSUME NEW a \in Place, a.pc = "recv", NEW S, Rounds(S) \in Nat, NEW l \in Nat
  PROVE  LET b == [a EXCEPT !.pc = "send", !.step = @ + 1] IN
         b \in Place /\ Counted(a, b, l, S, 0, IF l = a.level THEN 1 ELSE 0, 0)
<1> DEFINE b == [a EXCEPT !.pc = "send", !.step = @ + 1]
<1>2. a.level \in Nat /\ a.step \in Nat
  BY DEF Place
<1>0. a.step + 1 \in Nat
  BY DEF Place
<1>1. b \in Place /\ b.pc = "send" /\ b.level = a.level /\ b.step = a.step + 1
  <2>1. b \in Place
    BY <1>0 DEF Place
  <2> QED
    BY <2>1 DEF Place
<1> HIDE DEF b
<1>3. Told(b, l) = 0 /\ Told(a, l) = 0
  BY <1>1 DEF Told
<1>4. UpGot(b, l, S) = UpGot(a, l, S) + IF l = a.level THEN 1 ELSE 0
  BY <1>1, <1>2 DEF UpGot, Rising, Falling
<1>5. UpSent(b, l, S) = UpSent(a, l, S)
  BY <1>1, <1>2 DEF UpGot, UpSent, Rising, Falling
<1>6. UpSent(a, l, S) \in Nat
  BY CountsTyped
<1> QED
  BY <1>1, <1>3, <1>4, <1>5, <1>6 DEF Counted, b

(* A peer that goes down a level has told it.                              *)
LEMMA Falls ==
  ASSUME NEW a \in Place, a.pc = "down", NEW S, Rounds(S) \in Nat, NEW l \in Nat
  PROVE  LET b == Down(a.level) IN
         b \in Place /\ Counted(a, b, l, S, 0, 0, IF l = a.level THEN 1 ELSE 0)
<1> QED
  BY DEF UpGot, UpSent, Told, Place, Rising, Falling, Counted, Down, Done, Waiting

(* Nothing is counted for the rings that a peer skips on its way up.       *)
LEMMA UpCounts ==
  ASSUME NEW n \in Nat, NEW t, SoundTree(t, n), NEW i \in Indices(n), NEW m \in Nat,
         NEW l \in Path(t, i)
  PROVE  LET b == Up(i, m, t)  S == ClusterOf(t, i, l) IN
         /\ UpGot(b, l, S) = IF l < m THEN Rounds(S) ELSE 0
         /\ UpSent(b, l, S) = IF l < m THEN Rounds(S) ELSE 0
         /\ Told(b, l) = 0
         /\ PlaceOf(t, i, b)
<1> DEFINE b == Up(i, m, t)
           S == ClusterOf(t, i, l)
<1>1. /\ b \in Place /\ b.step = 0 /\ b.level \in Path(t, i)
      /\ \/ /\ b.pc = "down" /\ b.level = Max(Path(t, i))
            /\ l >= m => Cardinality(S) = 1
         \/ /\ b.pc = "send" /\ b.level >= m /\ Cardinality(ClusterOf(t, i, b.level)) > 1
            /\ l >= m /\ l < b.level => Cardinality(S) = 1
  BY UpFacts
<1>2. l \in Nat /\ b.level \in Nat /\ l <= Max(Path(t, i)) /\ Max(Path(t, i)) \in Nat
  BY <1>1, PathFacts
<1>3. i \in Nat
  BY IndexSet
<1>4. Rounds(S) \in Nat /\ (Cardinality(S) = 1 => Rounds(S) = 0)
  BY <1>3, RingOf
<1>5. Rounds(ClusterOf(t, i, b.level)) = 2 * Cardinality(ClusterOf(t, i, b.level)) - 2
      /\ Cardinality(ClusterOf(t, i, b.level)) \in Nat
  BY <1>1, <1>3, RingOf DEF Rounds
<1> HIDE DEF b, S
<1>6. UpGot(b, l, S) = IF l < m THEN Rounds(S) ELSE 0
  BY <1>1, <1>2, <1>4 DEF UpGot, Rising, Falling
<1>7. UpSent(b, l, S) = UpGot(b, l, S) /\ Told(b, l) = 0
  BY <1>1, <1>2 DEF UpSent, Told
<1>8. PlaceOf(t, i, b)
  BY <1>1, <1>5 DEF PlaceOf, InRing, Rising
<1> QED
  BY <1>6, <1>7, <1>8 DEF b, S

(* The last message of a ring: the counts are those of a ring left behind. *)
LEMMA EndsRing ==
  ASSUME NEW n \in Nat, NEW t, SoundTree(t, n), NEW i \in Indices(n),
         NEW a \in Place, a.pc = "recv", a.level \in Path(t, i),
         a.step = LastStep(ClusterOf(t, i, a.level)), NEW l \in Path(t, i)
  PROVE  Counted(a, Up(i, a.level + 1, t), l, ClusterOf(t, i, l), 0, IF l = a.level THEN 1 ELSE 0, 0)
<1> DEFINE S == ClusterOf(t, i, l)
           b == Up(i, a.level + 1, t)
<1>1. i \in Nat /\ l \in Nat /\ a.level \in Nat /\ a.step \in Nat
  BY IndexSet, PathFacts DEF Place
<1>2. a.step + 1 = Rounds(ClusterOf(t, i, a.level))
  <2>1. Cardinality(ClusterOf(t, i, a.level)) \in Nat
    BY <1>1, RingOf
  <2> QED
    BY <2>1 DEF Rounds, LastStep
<1>3. Rounds(S) \in Nat
  BY <1>1, RingOf
<1>4. a.level + 1 \in Nat /\ (l < a.level + 1 <=> l < a.level \/ l = a.level)
  BY <1>1
<1>5. /\ UpGot(b, l, S) = IF l < a.level + 1 THEN Rounds(S) ELSE 0
      /\ UpSent(b, l, S) = IF l < a.level + 1 THEN Rounds(S) ELSE 0
      /\ Told(b, l) = 0
  BY <1>4, UpCounts
<1>6. l = a.level => Rounds(S) = a.step + 1
  BY <1>2
<1> HIDE DEF S, b
<1>7. /\ UpGot(a, l, S) = IF l < a.level THEN Rounds(S) ELSE IF l = a.level THEN a.step ELSE 0
      /\ UpSent(a, l, S) = IF l < a.level THEN Rounds(S) ELSE IF l = a.level THEN a.step + 1 ELSE 0
      /\ Told(a, l) = 0
  BY <1>1 DEF UpGot, UpSent, Told, Rising, Falling
<1>8. Counted(a, b, l, S, 0, IF l = a.level THEN 1 ELSE 0, 0)
  BY <1>1, <1>3, <1>4, <1>5, <1>6, <1>7 DEF Counted
<1> QED
  BY <1>8 DEF S, b

-----------------------------------------------------------------------------
(* One peer, i, moves: it sends on level L to some members of its cluster, *)
(* or takes a message of one of them.                                      *)
Added(c, d, i, To, m) ==
  \A x, y \in Index : IF x = i /\ y \in To
                      THEN d[x][y] = Append(c[x][y], m) /\ Len(d[x][y]) = Len(c[x][y]) + 1
                      ELSE d[x][y] = c[x][y]
Removed(c, d, i, j) ==
  \A x, y \in Index : IF x = i /\ y = j
                      THEN d[x][y] = Tail(c[x][y]) /\ Len(d[x][y]) = Len(c[x][y]) - 1
                      ELSE d[x][y] = c[x][y]
OnlyMoves(i, a, b) == a \in [Index -> Place] /\ b \in [Index -> Place] /\ \A j \in Index : j # i => b[j] = a[j]

(* Nobody receives a message; or i does, from a member of its cluster.     *)
GotKept(t, a, b) ==
  \A x, y \in Index : \A l \in Path(t, x) : Meet(t, x, y, l) => Got(t, b, x, y, l) = Got(t, a, x, y, l)
GotOne(t, a, b, from, i, L) ==
  \A x, y \in Index : \A l \in Path(t, x) : Meet(t, x, y, l) =>
    Got(t, b, x, y, l) = Got(t, a, x, y, l) + IF y = i /\ l = L /\ x = from THEN 1 ELSE 0

(* The counts are numbers.                                                 *)
LEMMA CountsInt ==
  ASSUME NEW n \in Nat, NEW t, SoundTree(t, n), NEW x \in Indices(n), NEW l \in Path(t, x), NEW y,
         NEW a, a[x] \in Place, a[y] \in Place
  PROVE  Sent(t, a, x, y, l) \in Nat /\ Got(t, a, x, y, l) \in Nat
<1> DEFINE S == ClusterOf(t, x, l)
<1>1. l \in Nat /\ Rounds(S) \in Nat
  BY IndexSet, RingOf
<1> HIDE DEF S
<1>2. UpSent(a[x], l, S) \in Nat /\ UpGot(a[y], l, S) \in Nat /\ Told(a[x], l) \in Nat /\ Told(a[y], l) \in Nat
  BY <1>1, CountsTyped
<1> QED
  BY <1>2 DEF Sent, Got, S

(* Messages added keep the channels balanced.                              *)
LEMMA Delivered ==
  ASSUME NEW n \in 0..MaxPeers, NEW t, SoundTree(t, n), NEW a, NEW b, NEW c, NEW d,
         NEW i \in Indices(n), NEW L \in Path(t, i), NEW To \in SUBSET (ClusterOf(t, i, L) \ {i}), NEW m,
         OnlyMoves(i, a, b), Balanced(t, a, c), Channels(c),
         \A y \in Index, l \in Path(t, i) : Meet(t, i, y, l) =>
           Sent(t, b, i, y, l) = Sent(t, a, i, y, l) + IF l = L /\ y \in To THEN 1 ELSE 0,
         \A x \in Index : \A l \in Path(t, x) : Meet(t, x, i, l) => Got(t, b, x, i, l) = Got(t, a, x, i, l),
         Added(c, d, i, To, m)
  PROVE  Balanced(t, b, d)
<1>0. n \in Nat /\ Indices(n) \subseteq Index /\ Index \subseteq Nat /\ i \in Index
  BY ReduceAssumption DEF Index, Indices
<1>1. ASSUME NEW x \in Index, NEW y \in Index, NEW l \in Path(t, x), Meet(t, x, y, l)
      PROVE  Len(d[x][y]) = Sent(t, b, x, y, l) - Got(t, b, x, y, l)
  <2>1. Len(c[x][y]) = Sent(t, a, x, y, l) - Got(t, a, x, y, l)
    BY <1>1 DEF Balanced
  <2>2. x \in Indices(n) /\ x # y /\ y \in ClusterOf(t, x, l) /\ l \in Nat
    BY <1>0, <1>1, RingOf DEF Meet
  <2>3. x # i => b[x] = a[x]
    BY DEF OnlyMoves
  <2>4. y # i => b[y] = a[y]
    BY DEF OnlyMoves
  <2>5. y = i \/ Got(t, b, x, y, l) = Got(t, a, x, y, l)
    BY <2>4 DEF Got
  <2>6. Got(t, b, x, y, l) = Got(t, a, x, y, l)
    BY <1>1, <2>5
  <2>8. Sent(t, a, x, y, l) \in Nat /\ Got(t, a, x, y, l) \in Nat
    <3>1. a[x] \in Place /\ a[y] \in Place
      BY DEF OnlyMoves
    <3>2. n \in Nat /\ x \in Nat
      BY <1>0
    <3> QED
      BY <2>2, <3>1, <3>2, CountsInt
  <2>9. CASE x = i
    <3>0. y \in Indices(n)
      BY <1>0, <1>1, RingOf DEF Meet
    <3>1. y \in To => l = L
      BY <1>0, <2>2, <2>9, <3>0, MeetOnce
    <3>2. Sent(t, b, i, y, l) = Sent(t, a, i, y, l) + IF y \in To THEN 1 ELSE 0
      BY <1>1, <2>9, <3>1
    <3>3. CASE y \in To
      BY <2>1, <2>6, <2>8, <2>9, <3>2, <3>3 DEF Added, Removed
    <3>4. CASE y \notin To
      BY <2>1, <2>6, <2>8, <2>9, <3>2, <3>4 DEF Added, Removed
    <3> QED
      BY <3>3, <3>4
  <2>10. CASE x # i
    <3>1. Sent(t, b, x, y, l) = Sent(t, a, x, y, l)
      BY <2>3, <2>10 DEF Sent
    <3> QED
      BY <2>1, <2>6, <2>10, <3>1 DEF Added, Removed
  <2> QED
    BY <2>9, <2>10
<1>2. ASSUME NEW x \in Index, NEW y \in Index, \A l \in Path(t, x) : ~Meet(t, x, y, l)
      PROVE  d[x][y] = << >>
  <2>1. c[x][y] = << >>
    BY <1>2 DEF Balanced
  <2>2. ~(x = i /\ y \in To)
    BY <1>2 DEF Meet
  <2> QED
    BY <2>1, <2>2 DEF Added, Removed
<1> QED
  BY <1>1, <1>2 DEF Balanced

(* A message removed keeps the channels balanced.                          *)
LEMMA Taken ==
  ASSUME NEW n \in 0..MaxPeers, NEW t, SoundTree(t, n), NEW a, NEW b, NEW c, NEW d,
         NEW i \in Indices(n), NEW L \in Path(t, i), NEW from \in ClusterOf(t, i, L) \ {i},
         OnlyMoves(i, a, b), Balanced(t, a, c), Channels(c),
         \A y \in Index, l \in Path(t, i) : Meet(t, i, y, l) => Sent(t, b, i, y, l) = Sent(t, a, i, y, l),
         \A x \in Index : \A l \in Path(t, x) : Meet(t, x, i, l) =>
           Got(t, b, x, i, l) = Got(t, a, x, i, l) + IF l = L /\ x = from THEN 1 ELSE 0,
         Removed(c, d, from, i)
  PROVE  Balanced(t, b, d)
<1>0. n \in Nat /\ Indices(n) \subseteq Index /\ Index \subseteq Nat /\ i \in Index
  BY ReduceAssumption DEF Index, Indices
<1>3. from \in Indices(n) /\ L \in Path(t, from) /\ i \in ClusterOf(t, from, L) /\ from # i
  BY <1>0, RingOf
<1>1. ASSUME NEW x \in Index, NEW y \in Index, NEW l \in Path(t, x), Meet(t, x, y, l)
      PROVE  Len(d[x][y]) = Sent(t, b, x, y, l) - Got(t, b, x, y, l)
  <2>1. Len(c[x][y]) = Sent(t, a, x, y, l) - Got(t, a, x, y, l)
    BY <1>1 DEF Balanced
  <2>2. x \in Indices(n) /\ x # y /\ y \in ClusterOf(t, x, l) /\ l \in Nat
    BY <1>0, <1>1, RingOf DEF Meet
  <2>3. x # i => b[x] = a[x]
    BY DEF OnlyMoves
  <2>4. y # i => b[y] = a[y]
    BY DEF OnlyMoves
  <2>5. x = i \/ Sent(t, b, x, y, l) = Sent(t, a, x, y, l)
    BY <2>3 DEF Sent
  <2>6. Sent(t, b, x, y, l) = Sent(t, a, x, y, l)
    BY <1>1, <2>5
  <2>8. Sent(t, a, x, y, l) \in Nat /\ Got(t, a, x, y, l) \in Nat
    <3>1. a[x] \in Place /\ a[y] \in Place
      BY DEF OnlyMoves
    <3>2. n \in Nat /\ x \in Nat
      BY <1>0
    <3> QED
      BY <2>2, <3>1, <3>2, CountsInt
  <2>9. CASE y = i
    <3>1. x = from => l = L
      BY <1>0, <1>3, <2>2, <2>9, MeetOnce
    <3>2. Got(t, b, x, i, l) = Got(t, a, x, i, l) + IF x = from THEN 1 ELSE 0
      BY <1>1, <2>9, <3>1
    <3>3. CASE x = from
      BY <2>1, <2>6, <2>8, <2>9, <3>2, <3>3 DEF Added, Removed
    <3>4. CASE x # from
      BY <2>1, <2>6, <2>8, <2>9, <3>2, <3>4 DEF Added, Removed
    <3> QED
      BY <3>3, <3>4
  <2>10. CASE y # i
    <3>1. Got(t, b, x, y, l) = Got(t, a, x, y, l)
      BY <2>4, <2>10 DEF Got
    <3> QED
      BY <2>1, <2>6, <2>10, <3>1 DEF Added, Removed
  <2> QED
    BY <2>9, <2>10
<1>2. ASSUME NEW x \in Index, NEW y \in Index, \A l \in Path(t, x) : ~Meet(t, x, y, l)
      PROVE  d[x][y] = << >>
  <2>1. c[x][y] = << >>
    BY <1>2 DEF Balanced
  <2>2. ~(x = from /\ y = i)
    BY <1>2, <1>3 DEF Meet
  <2> QED
    BY <2>1, <2>2 DEF Added, Removed
<1> QED
  BY <1>1, <1>2 DEF Balanced

(* The counts of the pairs a peer is in, from its own.                     *)
LEMMA SentMoves ==
  ASSUME NEW n \in Nat, NEW t, SoundTree(t, n), NEW i \in Indices(n), NEW l \in Path(t, i), NEW y,
         NEW a, NEW b, a[i] \in Place, NEW sent \in Nat, NEW got \in Nat, NEW told \in Nat,
         Counted(a[i], b[i], l, ClusterOf(t, i, l), sent, got, told)
  PROVE  Sent(t, b, i, y, l) = Sent(t, a, i, y, l) + (IF y = Right(i, ClusterOf(t, i, l)) THEN sent ELSE 0)
                               + (IF i = Leader(ClusterOf(t, i, l)) THEN told ELSE 0)
<1> DEFINE S == ClusterOf(t, i, l)
<1>1. l \in Nat /\ Rounds(S) \in Nat
  BY IndexSet, RingOf
<1> HIDE DEF S
<1>2. UpSent(a[i], l, S) \in Nat /\ Told(a[i], l) \in Nat
  BY <1>1, CountsTyped
<1>3. UpSent(b[i], l, S) = UpSent(a[i], l, S) + sent /\ Told(b[i], l) = Told(a[i], l) + told
  BY DEF Counted, S
<1> DEFINE u == UpSent(a[i], l, S)
           v == Told(a[i], l)
<1>4. /\ Sent(t, a, i, y, l) = (IF y = Right(i, S) THEN u ELSE 0) + (IF i = Leader(S) THEN v ELSE 0)
      /\ Sent(t, b, i, y, l) = (IF y = Right(i, S) THEN u + sent ELSE 0) + (IF i = Leader(S) THEN v + told ELSE 0)
  BY <1>3 DEF Sent, S
<1>5. u \in Nat /\ v \in Nat
  BY <1>2
<1> HIDE DEF u, v
<1>6. Sent(t, b, i, y, l) = Sent(t, a, i, y, l) + (IF y = Right(i, S) THEN sent ELSE 0)
                            + (IF i = Leader(S) THEN told ELSE 0)
  BY <1>4, <1>5
<1> QED
  BY <1>6 DEF S

(* Who receives nothing has received as much as before.                    *)
LEMMA GotMoves ==
  ASSUME NEW n \in Nat, NEW t, SoundTree(t, n), NEW i \in Indices(n), NEW l \in Path(t, i), NEW x,
         NEW a, NEW b, a[i] \in Place, NEW sent \in Nat, NEW got \in Nat, NEW told \in Nat,
         ClusterOf(t, x, l) = ClusterOf(t, i, l),
         Counted(a[i], b[i], l, ClusterOf(t, i, l), sent, got, told)
  PROVE  Got(t, b, x, i, l) = Got(t, a, x, i, l) + (IF i = Right(x, ClusterOf(t, i, l)) THEN got ELSE 0)
                              + (IF x = Leader(ClusterOf(t, i, l)) THEN told ELSE 0)
<1> DEFINE S == ClusterOf(t, i, l)
<1>1. l \in Nat /\ Rounds(S) \in Nat
  BY IndexSet, RingOf
<1> HIDE DEF S
<1>2. UpGot(a[i], l, S) \in Nat /\ Told(a[i], l) \in Nat
  BY <1>1, CountsTyped
<1>3. UpGot(b[i], l, S) = UpGot(a[i], l, S) + got /\ Told(b[i], l) = Told(a[i], l) + told
  BY DEF Counted, S
<1> DEFINE u == UpGot(a[i], l, S)
           v == Told(a[i], l)
<1>4. /\ Got(t, a, x, i, l) = (IF i = Right(x, S) THEN u ELSE 0) + (IF x = Leader(S) THEN v ELSE 0)
      /\ Got(t, b, x, i, l) = (IF i = Right(x, S) THEN u + got ELSE 0) + (IF x = Leader(S) THEN v + told ELSE 0)
  BY <1>3 DEF Got, S
<1>5. u \in Nat /\ v \in Nat
  BY <1>2
<1> HIDE DEF u, v
<1>6. Got(t, b, x, i, l) = Got(t, a, x, i, l) + (IF i = Right(x, S) THEN got ELSE 0)
                           + (IF x = Leader(S) THEN told ELSE 0)
  BY <1>4, <1>5
<1> QED
  BY <1>6 DEF S

(* What sending and receiving do to the channels.                          *)
Enqueue(c, i, To, m) ==
  [c EXCEPT ![i] = [j \in Index |-> IF j \in To THEN Append(@[j], m) ELSE @[j]]]
EnqueueOne(c, i, j, m) == [c EXCEPT ![i][j] = Append(@, m)]
Dequeue(c, i, j) == [c EXCEPT ![i][j] = Tail(@)]

(* Message s of peer i in its ring: a chunk of what it holds. *)
RingMessage(g, i, S, s) == [e \in Chunk(SendIndex(i, S, s), Cardinality(S)) |-> g[e]]

(* Enqueue appends to the channels to some peers.                          *)
LEMMA Enqueued ==
  ASSUME NEW c, Channels(c), NEW i \in Index, NEW To \in SUBSET Index, NEW m, NEW d,
         d = Enqueue(c, i, To, m)
  PROVE  Channels(d) /\ Added(c, d, i, To, m)
<1>1. /\ c = [x \in Index |-> [y \in Index |-> c[x][y]]]
      /\ \A x, y \in Index : Queue(c[x][y])
  BY DEF Channels
<1>2. DOMAIN c = Index
  BY <1>1
<1>3. d = [x \in Index |-> IF x = i THEN [j \in Index |-> IF j \in To THEN Append(c[i][j], m) ELSE c[i][j]]
                           ELSE c[x]]
  BY <1>2 DEF Enqueue
<1>4. ASSUME NEW x \in Index, NEW y \in Index
      PROVE  d[x][y] = IF x = i /\ y \in To THEN Append(c[x][y], m) ELSE c[x][y]
  BY <1>3
<1>5. d = [x \in Index |-> [y \in Index |-> d[x][y]]]
  <2>1. \A x \in Index : c[x] = [y \in Index |-> c[x][y]]
    BY <1>1
  <2>2. \A x \in Index : d[x] = [y \in Index |-> d[x][y]]
    BY <1>3, <2>1
  <2> QED
    BY <1>3, <2>2
<1>6. ASSUME NEW x \in Index, NEW y \in Index
      PROVE  /\ Queue(d[x][y])
             /\ IF x = i /\ y \in To THEN Len(d[x][y]) = Len(c[x][y]) + 1 ELSE d[x][y] = c[x][y]
  <2>1. Queue(c[x][y])
    BY <1>1
  <2>2. Queue(Append(c[x][y], m)) /\ Len(Append(c[x][y], m)) = Len(c[x][y]) + 1
    BY <2>1, QueueFacts
  <2>3. CASE x = i /\ y \in To
    <3>1. d[x][y] = Append(c[x][y], m)
      BY <1>4, <2>3
    <3> QED
      BY <2>2, <2>3, <3>1
  <2>4. CASE ~(x = i /\ y \in To)
    <3>1. d[x][y] = c[x][y]
      BY <1>4, <2>4
    <3> QED
      BY <2>1, <2>4, <3>1
  <2> QED
    BY <2>3, <2>4
<1> QED
  BY <1>4, <1>5, <1>6 DEF Channels, Added

(* Dequeue removes the head of one channel.                                *)
LEMMA Dequeued ==
  ASSUME NEW c, Channels(c), NEW i \in Index, NEW j \in Index, c[i][j] # << >>, NEW d,
         d = Dequeue(c, i, j)
  PROVE  Channels(d) /\ Removed(c, d, i, j)
<1>1. /\ c = [x \in Index |-> [y \in Index |-> c[x][y]]]
      /\ \A x, y \in Index : Queue(c[x][y])
  BY DEF Channels
<1>2. DOMAIN c = Index /\ \A x \in Index : c[x] = [y \in Index |-> c[x][y]] /\ DOMAIN c[x] = Index
  BY <1>1
<1>3. ASSUME NEW x \in Index, NEW y \in Index
      PROVE  d[x][y] = IF x = i /\ y = j THEN Tail(c[x][y]) ELSE c[x][y]
  BY <1>2 DEF Dequeue
<1>5. d = [x \in Index |-> [y \in Index |-> d[x][y]]]
  <2>1. DOMAIN d = Index /\ d = [x \in Index |-> d[x]]
    BY <1>2 DEF Dequeue
  <2>2. \A x \in Index : d[x] = [y \in Index |-> d[x][y]]
    BY <1>2 DEF Dequeue
  <2> QED
    BY <2>1, <2>2
<1>6. ASSUME NEW x \in Index, NEW y \in Index
      PROVE  /\ Queue(d[x][y])
             /\ IF x = i /\ y = j THEN Len(d[x][y]) = Len(c[x][y]) - 1 ELSE d[x][y] = c[x][y]
  <2>1. Queue(c[x][y])
    BY <1>1
  <2>2. c[x][y] # << >> => Queue(Tail(c[x][y])) /\ Len(Tail(c[x][y])) = Len(c[x][y]) - 1
    BY <2>1, QueueFacts
  <2>3. CASE x = i /\ y = j
    <3>1. d[x][y] = Tail(c[x][y])
      BY <1>3, <2>3
    <3> QED
      BY <2>2, <2>3, <3>1
  <2>4. CASE ~(x = i /\ y = j)
    <3>1. d[x][y] = c[x][y]
      BY <1>3, <2>4
    <3> QED
      BY <2>1, <2>4, <3>1
  <2> QED
    BY <2>3, <2>4
<1> QED
  BY <1>3, <1>5, <1>6 DEF Channels, Removed

(* EnqueueOne appends to one channel.                                      *)
LEMMA EnqueuedOne ==
  ASSUME NEW c, Channels(c), NEW i \in Index, NEW j \in Index, NEW m
  PROVE  EnqueueOne(c, i, j, m) = Enqueue(c, i, {j}, m)
<1>1. c = [x \in Index |-> [y \in Index |-> c[x][y]]]
  BY DEF Channels
<1>2. DOMAIN c = Index /\ \A x \in Index : c[x] = [y \in Index |-> c[x][y]] /\ DOMAIN c[x] = Index
  BY <1>1
<1>3. [c[i] EXCEPT ![j] = Append(@, m)] = [y \in Index |-> IF y \in {j} THEN Append(c[i][y], m) ELSE c[i][y]]
  BY <1>2
<1>4. EnqueueOne(c, i, j, m) = [c EXCEPT ![i] = [c[i] EXCEPT ![j] = Append(@, m)]]
  BY <1>2 DEF EnqueueOne
<1> QED
  BY <1>3, <1>4 DEF Enqueue

(* The four moves keep the channels balanced.                              *)
LEMMA RingSendBalanced ==
  ASSUME NEW n \in 0..MaxPeers, NEW t, SoundTree(t, n), NEW a, NEW b, NEW c, NEW d, NEW i \in Indices(n),
         NEW L \in Path(t, i), Cardinality(ClusterOf(t, i, L)) > 1, OnlyMoves(i, a, b),
         \A l \in Path(t, i) : Counted(a[i], b[i], l, ClusterOf(t, i, l), IF l = L THEN 1 ELSE 0, 0, 0),
         Balanced(t, a, c), Channels(c), NEW m,
         d = Enqueue(c, i, {Right(i, ClusterOf(t, i, L))}, m)
  PROVE  /\ Balanced(t, b, d) /\ Channels(d) /\ GotKept(t, a, b)
         /\ Added(c, d, i, {Right(i, ClusterOf(t, i, L))}, m)
<1> DEFINE S == ClusterOf(t, i, L)
           right == Right(i, S)
           To == {right}
<1>0. n \in Nat /\ Indices(n) \subseteq Index /\ Index \subseteq Nat /\ i \in Index /\ i \in Nat
  BY ReduceAssumption DEF Index, Indices
<1>1. /\ S \in SUBSET Nat /\ S \in SUBSET Indices(n) /\ IsFiniteSet(S) /\ i \in S
  BY <1>0, RingOf
<1>2. right \in S /\ right # i
  BY <1>1, Neighbours
<1>3. right \in Index /\ To \in SUBSET (S \ {i}) /\ To \in SUBSET Index
  BY <1>0, <1>1, <1>2
<1>4. a[i] \in Place /\ \A j \in Index : a[j] \in Place
  BY <1>0 DEF OnlyMoves
<1>5. ASSUME NEW y \in Index, NEW l \in Path(t, i), Meet(t, i, y, l)
      PROVE  Sent(t, b, i, y, l) = Sent(t, a, i, y, l) + IF l = L /\ y \in To THEN 1 ELSE 0
  <2> DEFINE one == IF l = L THEN 1 ELSE 0
  <2>1. one \in Nat /\ 0 \in Nat
    OBVIOUS
  <2>2. Counted(a[i], b[i], l, ClusterOf(t, i, l), one, 0, 0)
    OBVIOUS
  <2>3. Sent(t, a, i, y, l) \in Nat
    BY <1>0, <1>4, CountsInt
  <2> HIDE DEF one
  <2>4. Sent(t, b, i, y, l) = Sent(t, a, i, y, l) + (IF y = Right(i, ClusterOf(t, i, l)) THEN one ELSE 0)
                              + (IF i = Leader(ClusterOf(t, i, l)) THEN 0 ELSE 0)
    BY <1>0, <1>4, <2>1, <2>2, SentMoves
  <2>5. CASE l = L
    BY <2>3, <2>4, <2>5 DEF one
  <2>6. CASE l # L
    BY <2>3, <2>4, <2>6 DEF one
  <2> QED
    BY <2>5, <2>6
<1>6. ASSUME NEW x \in Index, NEW l \in Path(t, x), Meet(t, x, i, l)
      PROVE  Got(t, b, x, i, l) = Got(t, a, x, i, l)
  <2> DEFINE one == IF l = L THEN 1 ELSE 0
  <2>1. one \in Nat /\ 0 \in Nat
    OBVIOUS
  <2>2. l \in Path(t, i) /\ ClusterOf(t, x, l) = ClusterOf(t, i, l) /\ x \in Indices(n)
    BY <1>0, <1>6, RingOf DEF Meet
  <2>3. Counted(a[i], b[i], l, ClusterOf(t, i, l), one, 0, 0)
    BY <2>2
  <2>4. Got(t, a, x, i, l) \in Nat
    BY <1>0, <1>4, <2>2, CountsInt
  <2> HIDE DEF one
  <2>5. Got(t, b, x, i, l) = Got(t, a, x, i, l) + (IF i = Right(x, ClusterOf(t, i, l)) THEN 0 ELSE 0)
                             + (IF x = Leader(ClusterOf(t, i, l)) THEN 0 ELSE 0)
    BY <1>0, <1>4, <2>1, <2>2, <2>3, GotMoves
  <2> QED
    BY <2>4, <2>5
<1> HIDE DEF To
<1>7. d = Enqueue(c, i, To, m)
  BY DEF To
<1>8. Channels(d) /\ Added(c, d, i, To, m)
  BY <1>0, <1>3, <1>7, Enqueued
<1>9. Balanced(t, b, d)
  BY <1>3, <1>5, <1>6, <1>8, Delivered
<1>10. GotKept(t, a, b)
  <2>1. ASSUME NEW x \in Index, NEW y \in Index, NEW l \in Path(t, x), Meet(t, x, y, l), y # i
        PROVE  Got(t, b, x, y, l) = Got(t, a, x, y, l)
    BY <2>1 DEF Got, OnlyMoves
  <2> QED
    BY <1>0, <1>6, <2>1 DEF GotKept
<1> QED
  BY <1>8, <1>9, <1>10 DEF To

(* RingReceive: one message fewer on the channel, one more received.       *)
LEMMA RingReceiveBalanced ==
  ASSUME NEW n \in 0..MaxPeers, NEW t, SoundTree(t, n), NEW a, NEW b, NEW c, NEW d, NEW i \in Indices(n),
         NEW L \in Path(t, i), Cardinality(ClusterOf(t, i, L)) > 1, OnlyMoves(i, a, b),
         \A l \in Path(t, i) : Counted(a[i], b[i], l, ClusterOf(t, i, l), 0, IF l = L THEN 1 ELSE 0, 0),
         Balanced(t, a, c), Channels(c), c[Left(i, ClusterOf(t, i, L))][i] # << >>,
         d = Dequeue(c, Left(i, ClusterOf(t, i, L)), i)
  PROVE  /\ Balanced(t, b, d) /\ Channels(d) /\ Removed(c, d, Left(i, ClusterOf(t, i, L)), i)
         /\ GotOne(t, a, b, Left(i, ClusterOf(t, i, L)), i, L)
<1> DEFINE S == ClusterOf(t, i, L)
           from == Left(i, S)
<1>0. n \in Nat /\ Indices(n) \subseteq Index /\ Index \subseteq Nat /\ i \in Index /\ i \in Nat
  BY ReduceAssumption DEF Index, Indices
<1>1. /\ S \in SUBSET Nat /\ S \in SUBSET Indices(n) /\ IsFiniteSet(S) /\ i \in S /\ Leader(S) \in S
  BY <1>0, RingOf
<1>2. from \in S /\ from # i /\ \A x \in S : i = Right(x, S) <=> x = from
  BY <1>1, Neighbours
<1>3. from \in Index /\ from \in S \ {i}
  BY <1>0, <1>1, <1>2
<1>4. a[i] \in Place /\ \A j \in Index : a[j] \in Place
  BY <1>0 DEF OnlyMoves
<1>5. ASSUME NEW y \in Index, NEW l \in Path(t, i), Meet(t, i, y, l)
      PROVE  Sent(t, b, i, y, l) = Sent(t, a, i, y, l)
  <2> DEFINE one == IF l = L THEN 1 ELSE 0
  <2>1. one \in Nat /\ 0 \in Nat
    OBVIOUS
  <2>2. Counted(a[i], b[i], l, ClusterOf(t, i, l), 0, one, 0)
    OBVIOUS
  <2>3. Sent(t, a, i, y, l) \in Nat
    BY <1>0, <1>4, CountsInt
  <2> HIDE DEF one
  <2>4. Sent(t, b, i, y, l) = Sent(t, a, i, y, l) + (IF y = Right(i, ClusterOf(t, i, l)) THEN 0 ELSE 0)
                              + (IF i = Leader(ClusterOf(t, i, l)) THEN 0 ELSE 0)
    BY <1>0, <1>4, <2>1, <2>2, SentMoves
  <2>5. CASE l = L
    BY <1>2, <1>5, <2>3, <2>4, <2>5 DEF one, Meet
  <2>6. CASE l # L
    BY <2>3, <2>4, <2>6 DEF one
  <2> QED
    BY <2>5, <2>6
<1>6. ASSUME NEW x \in Index, NEW l \in Path(t, x), Meet(t, x, i, l)
      PROVE  Got(t, b, x, i, l) = Got(t, a, x, i, l) + IF l = L /\ x = from THEN 1 ELSE 0
  <2> DEFINE one == IF l = L THEN 1 ELSE 0
  <2>1. one \in Nat /\ 0 \in Nat
    OBVIOUS
  <2>2. l \in Path(t, i) /\ ClusterOf(t, x, l) = ClusterOf(t, i, l) /\ x \in Indices(n)
        /\ x \in ClusterOf(t, i, l) /\ x # i
    BY <1>0, <1>6, RingOf DEF Meet
  <2>3. Counted(a[i], b[i], l, ClusterOf(t, i, l), 0, one, 0)
    BY <2>2
  <2>4. Got(t, a, x, i, l) \in Nat
    BY <1>0, <1>4, <2>2, CountsInt
  <2> HIDE DEF one
  <2>5. Got(t, b, x, i, l) = Got(t, a, x, i, l) + (IF i = Right(x, ClusterOf(t, i, l)) THEN one ELSE 0)
                             + (IF x = Leader(ClusterOf(t, i, l)) THEN 0 ELSE 0)
    BY <1>0, <1>4, <2>1, <2>2, <2>3, GotMoves
  <2>6. CASE l = L
    BY <1>2, <2>2, <2>4, <2>5, <2>6 DEF one
  <2>7. CASE l # L
    BY <2>4, <2>5, <2>7 DEF one
  <2> QED
    BY <2>6, <2>7
<1> HIDE DEF from
<1>7. d = Dequeue(c, from, i) /\ c[from][i] # << >>
  BY DEF from
<1>8. Channels(d) /\ Removed(c, d, from, i)
  BY <1>0, <1>3, <1>7, Dequeued
<1>9. Balanced(t, b, d)
  BY <1>3, <1>5, <1>6, <1>8, Taken
<1>10. GotOne(t, a, b, from, i, L)
  <2>1. ASSUME NEW x \in Index, NEW y \in Index, NEW l \in Path(t, x), Meet(t, x, y, l), y # i
        PROVE  Got(t, b, x, y, l) = Got(t, a, x, y, l) + IF y = i /\ l = L /\ x = from THEN 1 ELSE 0
    <3>1. Got(t, b, x, y, l) = Got(t, a, x, y, l)
      BY <2>1 DEF Got, OnlyMoves
    <3>2. x \in Indices(n) /\ a[x] \in Place /\ a[y] \in Place
      BY <1>0, <1>4, RingOf
    <3>3. Got(t, a, x, y, l) \in Nat
      BY <1>0, <3>2, CountsInt
    <3> QED
      BY <2>1, <3>1, <3>3
  <2> QED
    BY <1>0, <1>6, <2>1 DEF GotOne
<1> QED
  BY <1>8, <1>9, <1>10 DEF from

(* Broadcast: one message more on the channel to every member.             *)
LEMMA BroadcastBalanced ==
  ASSUME NEW n \in 0..MaxPeers, NEW t, SoundTree(t, n), NEW a, NEW b, NEW c, NEW d, NEW i \in Indices(n),
         NEW L \in Path(t, i), i = Leader(ClusterOf(t, i, L)), OnlyMoves(i, a, b),
         \A l \in Path(t, i) : Counted(a[i], b[i], l, ClusterOf(t, i, l), 0, 0, IF l = L THEN 1 ELSE 0),
         Balanced(t, a, c), Channels(c), NEW m,
         d = Enqueue(c, i, ClusterOf(t, i, L) \ {i}, m)
  PROVE  /\ Balanced(t, b, d) /\ Channels(d) /\ GotKept(t, a, b)
         /\ Added(c, d, i, ClusterOf(t, i, L) \ {i}, m)
<1> DEFINE S == ClusterOf(t, i, L)
           To == S \ {i}
<1>0. n \in Nat /\ Indices(n) \subseteq Index /\ Index \subseteq Nat /\ i \in Index /\ i \in Nat
  BY ReduceAssumption DEF Index, Indices
<1>1. /\ S \in SUBSET Nat /\ S \in SUBSET Indices(n) /\ IsFiniteSet(S) /\ i \in S /\ Leader(S) \in S
  BY <1>0, RingOf
<1>2. i = Leader(S) /\ \A y \in S : y # i => y \in To
  OBVIOUS
<1>3. To \in SUBSET Index /\ To \in SUBSET (S \ {i})
  BY <1>0, <1>1
<1>4. a[i] \in Place /\ \A j \in Index : a[j] \in Place
  BY <1>0 DEF OnlyMoves
<1>5. ASSUME NEW y \in Index, NEW l \in Path(t, i), Meet(t, i, y, l)
      PROVE  Sent(t, b, i, y, l) = Sent(t, a, i, y, l) + IF l = L /\ y \in To THEN 1 ELSE 0
  <2> DEFINE one == IF l = L THEN 1 ELSE 0
  <2>1. one \in Nat /\ 0 \in Nat
    OBVIOUS
  <2>2. Counted(a[i], b[i], l, ClusterOf(t, i, l), 0, 0, one)
    OBVIOUS
  <2>3. Sent(t, a, i, y, l) \in Nat
    BY <1>0, <1>4, CountsInt
  <2> HIDE DEF one
  <2>4. Sent(t, b, i, y, l) = Sent(t, a, i, y, l) + (IF y = Right(i, ClusterOf(t, i, l)) THEN 0 ELSE 0)
                              + (IF i = Leader(ClusterOf(t, i, l)) THEN one ELSE 0)
    BY <1>0, <1>4, <2>1, <2>2, SentMoves
  <2>5. CASE l = L
    BY <1>2, <1>5, <2>3, <2>4, <2>5 DEF one, Meet
  <2>6. CASE l # L
    BY <2>3, <2>4, <2>6 DEF one
  <2> QED
    BY <2>5, <2>6
<1>6. ASSUME NEW x \in Index, NEW l \in Path(t, x), Meet(t, x, i, l)
      PROVE  Got(t, b, x, i, l) = Got(t, a, x, i, l)
  <2> DEFINE one == IF l = L THEN 1 ELSE 0
  <2>1. one \in Nat /\ 0 \in Nat
    OBVIOUS
  <2>2. l \in Path(t, i) /\ ClusterOf(t, x, l) = ClusterOf(t, i, l) /\ x \in Indices(n)
        /\ x \in ClusterOf(t, i, l) /\ x # i
    BY <1>0, <1>6, RingOf DEF Meet
  <2>3. Counted(a[i], b[i], l, ClusterOf(t, i, l), 0, 0, one)
    BY <2>2
  <2>4. Got(t, a, x, i, l) \in Nat
    BY <1>0, <1>4, <2>2, CountsInt
  <2> HIDE DEF one
  <2>5. Got(t, b, x, i, l) = Got(t, a, x, i, l) + (IF i = Right(x, ClusterOf(t, i, l)) THEN 0 ELSE 0)
                             + (IF x = Leader(ClusterOf(t, i, l)) THEN one ELSE 0)
    BY <1>0, <1>4, <2>1, <2>2, <2>3, GotMoves
  <2>6. CASE l = L
    BY <1>2, <2>2, <2>4, <2>5, <2>6 DEF one
  <2>7. CASE l # L
    BY <2>4, <2>5, <2>7 DEF one
  <2> QED
    BY <2>6, <2>7
<1> HIDE DEF To
<1>7. d = Enqueue(c, i, To, m)
  BY DEF To
<1>8. Channels(d) /\ Added(c, d, i, To, m)
  BY <1>0, <1>3, <1>7, Enqueued
<1>9. Balanced(t, b, d)
  BY <1>3, <1>5, <1>6, <1>8, Delivered
<1>10. GotKept(t, a, b)
  <2>1. ASSUME NEW x \in Index, NEW y \in Index, NEW l \in Path(t, x), Meet(t, x, y, l), y # i
        PROVE  Got(t, b, x, y, l) = Got(t, a, x, y, l)
    BY <2>1 DEF Got, OnlyMoves
  <2> QED
    BY <1>0, <1>6, <2>1 DEF GotKept
<1> QED
  BY <1>8, <1>9, <1>10 DEF To

(* ReceiveBroadcast: the message of the leader is taken.                   *)
LEMMA ReceiveBroadcastBalanced ==
  ASSUME NEW n \in 0..MaxPeers, NEW t, SoundTree(t, n), NEW a, NEW b, NEW c, NEW d, NEW i \in Indices(n),
         NEW L \in Path(t, i), NEW from, from = Leader(ClusterOf(t, i, L)), i # from, OnlyMoves(i, a, b),
         \A l \in Path(t, i) : Counted(a[i], b[i], l, ClusterOf(t, i, l), 0, 0, IF l = L THEN 1 ELSE 0),
         Balanced(t, a, c), Channels(c), c[from][i] # << >>,
         d = Dequeue(c, from, i)
  PROVE  /\ Balanced(t, b, d) /\ Channels(d) /\ Removed(c, d, from, i)
         /\ GotOne(t, a, b, from, i, L)
<1> DEFINE S == ClusterOf(t, i, L)
<1>0. n \in Nat /\ Indices(n) \subseteq Index /\ Index \subseteq Nat /\ i \in Index /\ i \in Nat
  BY ReduceAssumption DEF Index, Indices
<1>1. /\ S \in SUBSET Nat /\ S \in SUBSET Indices(n) /\ IsFiniteSet(S) /\ i \in S /\ Leader(S) \in S
  BY <1>0, RingOf
<1>2. from = Leader(S) /\ i # from
  OBVIOUS
<1>3. from \in Index /\ from \in S \ {i}
  BY <1>0, <1>1, <1>2
<1>4. a[i] \in Place /\ \A j \in Index : a[j] \in Place
  BY <1>0 DEF OnlyMoves
<1>5. ASSUME NEW y \in Index, NEW l \in Path(t, i), Meet(t, i, y, l)
      PROVE  Sent(t, b, i, y, l) = Sent(t, a, i, y, l)
  <2> DEFINE one == IF l = L THEN 1 ELSE 0
  <2>1. one \in Nat /\ 0 \in Nat
    OBVIOUS
  <2>2. Counted(a[i], b[i], l, ClusterOf(t, i, l), 0, 0, one)
    OBVIOUS
  <2>3. Sent(t, a, i, y, l) \in Nat
    BY <1>0, <1>4, CountsInt
  <2> HIDE DEF one
  <2>4. Sent(t, b, i, y, l) = Sent(t, a, i, y, l) + (IF y = Right(i, ClusterOf(t, i, l)) THEN 0 ELSE 0)
                              + (IF i = Leader(ClusterOf(t, i, l)) THEN one ELSE 0)
    BY <1>0, <1>4, <2>1, <2>2, SentMoves
  <2>5. CASE l = L
    BY <1>2, <1>5, <2>3, <2>4, <2>5 DEF one, Meet
  <2>6. CASE l # L
    BY <2>3, <2>4, <2>6 DEF one
  <2> QED
    BY <2>5, <2>6
<1>6. ASSUME NEW x \in Index, NEW l \in Path(t, x), Meet(t, x, i, l)
      PROVE  Got(t, b, x, i, l) = Got(t, a, x, i, l) + IF l = L /\ x = from THEN 1 ELSE 0
  <2> DEFINE one == IF l = L THEN 1 ELSE 0
  <2>1. one \in Nat /\ 0 \in Nat
    OBVIOUS
  <2>2. l \in Path(t, i) /\ ClusterOf(t, x, l) = ClusterOf(t, i, l) /\ x \in Indices(n)
        /\ x \in ClusterOf(t, i, l) /\ x # i
    BY <1>0, <1>6, RingOf DEF Meet
  <2>3. Counted(a[i], b[i], l, ClusterOf(t, i, l), 0, 0, one)
    BY <2>2
  <2>4. Got(t, a, x, i, l) \in Nat
    BY <1>0, <1>4, <2>2, CountsInt
  <2> HIDE DEF one
  <2>5. Got(t, b, x, i, l) = Got(t, a, x, i, l) + (IF i = Right(x, ClusterOf(t, i, l)) THEN 0 ELSE 0)
                             + (IF x = Leader(ClusterOf(t, i, l)) THEN one ELSE 0)
    BY <1>0, <1>4, <2>1, <2>2, <2>3, GotMoves
  <2>6. CASE l = L
    BY <1>2, <2>2, <2>4, <2>5, <2>6 DEF one
  <2>7. CASE l # L
    BY <2>4, <2>5, <2>7 DEF one
  <2> QED
    BY <2>6, <2>7
<1>8. Channels(d) /\ Removed(c, d, from, i)
  BY <1>0, <1>3, Dequeued
<1>9. Balanced(t, b, d)
  BY <1>3, <1>5, <1>6, <1>8, Taken
<1>10. GotOne(t, a, b, from, i, L)
  <2>1. ASSUME NEW x \in Index, NEW y \in Index, NEW l \in Path(t, x), Meet(t, x, y, l), y # i
        PROVE  Got(t, b, x, y, l) = Got(t, a, x, y, l) + IF y = i /\ l = L /\ x = from THEN 1 ELSE 0
    <3>1. Got(t, b, x, y, l) = Got(t, a, x, y, l)
      BY <2>1 DEF Got, OnlyMoves
    <3>2. x \in Indices(n) /\ a[x] \in Place /\ a[y] \in Place
      BY <1>0, <1>4, RingOf
    <3>3. Got(t, a, x, y, l) \in Nat
      BY <1>0, <3>2, CountsInt
    <3> QED
      BY <2>1, <3>1, <3>3
  <2> QED
    BY <1>0, <1>6, <2>1 DEF GotOne
<1> QED
  BY <1>8, <1>9, <1>10

-----------------------------------------------------------------------------
(* RoundInv holds in every state.  At the start of a round nothing has     *)
(* been sent.                                                              *)
LEMMA StartBalanced ==
  ASSUME NEW n \in 0..MaxPeers, NEW t, SoundTree(t, n), NEW b, NEW c,
         b = [i \in Index |-> IF i < n THEN Up(i, 0, t) ELSE Waiting],
         \A x, y \in Index : c[x][y] = << >>
  PROVE  /\ b \in [Index -> Place] /\ Balanced(t, b, c)
         /\ \A i \in Index : IF i < n THEN PlaceOf(t, i, b[i]) ELSE b[i] = Waiting
<1>0. n \in Nat /\ Indices(n) \subseteq Index /\ Index \subseteq Nat /\ (\A i \in Index : i \in Indices(n) <=> i < n)
  BY ReduceAssumption DEF Index, Indices
<1>1. ASSUME NEW i \in Index, i < n  PROVE b[i] = Up(i, 0, t) /\ b[i] \in Place
  <2>1. i \in Indices(n) /\ 0 \in Nat
    BY <1>0, <1>1
  <2>2. Up(i, 0, t) \in Place
    BY <1>0, <2>1, UpFacts
  <2> QED
    BY <1>1, <2>2
<1>2. ASSUME NEW i \in Index, i < n, NEW l \in Path(t, i)
      PROVE  /\ UpGot(b[i], l, ClusterOf(t, i, l)) = 0 /\ UpSent(b[i], l, ClusterOf(t, i, l)) = 0
             /\ Told(b[i], l) = 0 /\ PlaceOf(t, i, b[i])
  <2>1. i \in Indices(n) /\ 0 \in Nat /\ i \in Nat
    BY <1>0, <1>2
  <2>2. l \in Nat /\ ~(l < 0)
    <3>1. l \in Nat
      BY <1>0, <2>1, RingOf
    <3> QED
      BY <3>1
  <2>3. /\ UpGot(Up(i, 0, t), l, ClusterOf(t, i, l)) = 0 /\ UpSent(Up(i, 0, t), l, ClusterOf(t, i, l)) = 0
        /\ Told(Up(i, 0, t), l) = 0 /\ PlaceOf(t, i, Up(i, 0, t))
    BY <1>0, <2>1, <2>2, UpCounts
  <2> QED
    BY <1>1, <1>2, <2>3
<1>3. ASSUME NEW i \in Index  PROVE b[i] \in Place /\ IF i < n THEN PlaceOf(t, i, b[i]) ELSE b[i] = Waiting
  <2>1. CASE i < n
    <3>1. \E l \in Path(t, i) : TRUE
      <4>1. i \in Indices(n)
        BY <1>0, <2>1
      <4>2. Path(t, i) = 0..Max(Path(t, i)) /\ Max(Path(t, i)) \in Nat
        BY <1>0, <4>1, PathFacts
      <4> QED
        BY <4>2
    <3> QED
      BY <1>1, <1>2, <2>1, <3>1
  <2>2. CASE ~(i < n)
    BY <2>2 DEF Waiting, Place
  <2> QED
    BY <2>1, <2>2
<1>4. ASSUME NEW x \in Index, NEW y \in Index, NEW l \in Path(t, x), Meet(t, x, y, l)
      PROVE  Len(c[x][y]) = Sent(t, b, x, y, l) - Got(t, b, x, y, l)
  <2>1. x \in Indices(n) /\ y \in Indices(n) /\ l \in Path(t, y) /\ ClusterOf(t, y, l) = ClusterOf(t, x, l)
    BY <1>0, <1>4, RingOf DEF Meet
  <2>2. Sent(t, b, x, y, l) = 0
    BY <1>0, <1>2, <2>1 DEF Sent
  <2>3. Got(t, b, x, y, l) = 0
    BY <1>0, <1>2, <2>1 DEF Got
  <2> QED
    BY <2>2, <2>3
<1>5. b \in [Index -> Place]
  BY <1>3
<1> QED
  BY <1>3, <1>4, <1>5 DEF Balanced

(* Before finalize there is no tree and nothing is under way.              *)
LEMMA RoundStarts == ReduceInit => RoundInv
<1> SUFFICES ASSUME ReduceInit  PROVE RoundInv
  OBVIOUS
<1>1. TreeInv
  BY ReduceAssumption DEF ReduceInit, TreeInv
<1>2. PlacesInv
  BY DEF ReduceInit, PlacesInv, Waiting, Place
<1>3. ChannelsInv
  <2>1. Queue(<< >>)
    BY SequenceQueue, EmptySeq
  <2> QED
    BY <2>1 DEF ReduceInit, ChannelsInv, Channels
<1> QED
  BY <1>1, <1>2, <1>3 DEF RoundInv

(* What finalize computes: a sound tree of the configuration that          *)
(* AutoConfigs gives.                                                      *)
LEMMA FinalizeTree ==
  ASSUME n_participants \in 0..MaxPeers, Finalize
  PROVE  /\ tree' # NoTree /\ SoundTree(tree', n_participants)
         /\ n_participants > 0
         /\ \E k \in 1..n_participants, d \in 1..(n_participants + 1) :
              config' = Config(k, d) /\ n_participants <= Power(k, d)
         /\ perm' \in Permuted(n_participants)
<1> DEFINE n == n_participants
<1>1. n \in Nat \ {0} /\ n \in 1..MaxPeers
  BY ReduceAssumption DEF Finalize
<1>2. PICK target \in ClusterSizes : config' \in AutoConfigs(n, target, SmallNetwork)
  BY DEF Finalize
<1>3. target \in Nat \ {0} /\ SmallNetwork \in Nat
  BY ReduceAssumption
<1>4. PICK k \in 1..n, d \in 1..(n + 1) : config' = Config(k, d) /\ n <= Power(k, d)
  BY <1>1, <1>2, <1>3, AutoDepth
<1>5. perm' \in PermutationsOf[n] /\ perm' \in Permuted(n)
  BY <1>1, ReduceAssumption DEF Finalize
<1>6. tree' = AssignClusters(perm', Config(k, d))
  BY <1>4 DEF Finalize
<1>7. tree' # NoTree
  BY <1>1, <1>4, <1>5, <1>6, ReduceAssumption
<1>8. k \in Nat \ {0} /\ d \in Nat \ {0}
  BY <1>1
<1>9. SoundTree(tree', n)
  BY <1>1, <1>4, <1>5, <1>6, <1>8, TreeSound
<1> QED
  BY <1>1, <1>4, <1>5, <1>7, <1>9

(* A peer that is in reduce_async is a participant of the tree.            *)
LEMMA Active ==
  ASSUME RoundInv, NEW i \in Index, at[i].pc # "waiting"
  PROVE  /\ tree # NoTree /\ n_participants \in 0..MaxPeers /\ i \in Indices(n_participants)
         /\ SoundTree(tree, n_participants) /\ PlaceOf(tree, i, at[i])
         /\ at \in [Index -> Place] /\ at[i] \in Place
         /\ Balanced(tree, at, channel) /\ Channels(channel)
         /\ n_participants \in Nat /\ i \in Nat /\ Indices(n_participants) \subseteq Index
<1>1. tree # NoTree /\ i < n_participants
  BY DEF RoundInv, PlacesInv, Waiting
<1>2. n_participants \in 0..MaxPeers /\ MaxPeers \in Nat
  BY ReduceAssumption DEF RoundInv, TreeInv
<1>3. i \in Indices(n_participants) /\ i \in Nat /\ Indices(n_participants) \subseteq Index
  BY <1>1, <1>2 DEF Index, Indices
<1> QED
  BY <1>1, <1>2, <1>3 DEF RoundInv, TreeInv, PlacesInv, ChannelsInv

(* A peer in a ring is on its path, with company.                          *)
LEMMA SendingPeer ==
  ASSUME RoundInv, NEW i \in Index, Rising(at[i])
  PROVE  /\ InRing(tree, i, at[i]) /\ at[i].level \in Path(tree, i)
         /\ Cardinality(ClusterOf(tree, i, at[i].level)) > 1
<1>1. PlaceOf(tree, i, at[i])
  BY Active DEF Rising
<1> QED
  BY <1>1 DEF PlaceOf, Rising, InRing

(* What remains of RoundInv when only peer i moves.                        *)
LEMMA MovesKeep ==
  ASSUME RoundInv, NEW i \in Index, at[i].pc # "waiting",
         OnlyMoves(i, at, at'), PlaceOf(tree, i, at'[i]), UNCHANGED <<tree, n_participants>>,
         Balanced(tree, at', channel'), Channels(channel')
  PROVE  RoundInv'
<1>1. tree # NoTree /\ i \in Indices(n_participants)
  BY Active
<1>2. TreeInv'
  BY DEF RoundInv, TreeInv
<1>3. PlacesInv'
  <2>1. at' \in [Index -> Place] /\ \A j \in Index : j # i => at'[j] = at[j]
    BY DEF OnlyMoves
  <2>2. \A j \in Index : IF j < n_participants THEN PlaceOf(tree, j, at[j]) ELSE at[j] = Waiting
    BY <1>1 DEF RoundInv, PlacesInv
  <2>3. i < n_participants
    BY <1>1, Active DEF Indices
  <2>4. \A j \in Index : IF j < n_participants THEN PlaceOf(tree, j, at'[j]) ELSE at'[j] = Waiting
    BY <2>1, <2>2, <2>3
  <2> QED
    BY <1>1, <2>1, <2>4 DEF PlacesInv
<1>4. ChannelsInv'
  BY <1>1 DEF ChannelsInv
<1> QED
  BY <1>2, <1>3, <1>4 DEF RoundInv

(* Where AfterStep takes a peer: a step on, or up to the next ring.        *)
LEMMA AfterStepMoves ==
  ASSUME RoundInv, NEW i \in Index, at[i].pc = "recv", NEW g, AfterStep(i, Ring(i, at[i].level), g)
  PROVE  /\ OnlyMoves(i, at, at') /\ PlaceOf(tree, i, at'[i])
         /\ \A l \in Path(tree, i) :
              Counted(at[i], at'[i], l, ClusterOf(tree, i, l), 0, IF l = at[i].level THEN 1 ELSE 0, 0)
<1> DEFINE S == Ring(i, at[i].level)
           n == n_participants
<1>1. /\ n \in Nat /\ i \in Indices(n) /\ SoundTree(tree, n) /\ i \in Nat
      /\ at \in [Index -> Place] /\ at[i] \in Place
  BY Active
<1>2. InRing(tree, i, at[i]) /\ at[i].level \in Path(tree, i)
  BY SendingPeer DEF Rising
<1>3. at[i].step \in Nat /\ at[i].level \in Nat /\ at[i].step < Rounds(S) /\ Cardinality(S) \in Nat
      /\ at[i].level + 1 \in Nat
  BY <1>1, <1>2, RingOf DEF InRing, Place, Ring
<1> HIDE DEF n
<1>4. CASE at[i].step < LastStep(S)
  <2> DEFINE b == [at[i] EXCEPT !.pc = "send", !.step = @ + 1]
  <2>1. at' = [at EXCEPT ![i].pc = "send", ![i].step = @ + 1]
    BY <1>4 DEF AfterStep
  <2>2. at'[i] = b /\ \A j \in Index : j # i => at'[j] = at[j]
    BY <1>1, <2>1
  <2>3. b \in Place
    <3>1. Rounds(ClusterOf(tree, i, at[i].level)) \in Nat
      BY <1>1, <1>2, RingOf
    <3> QED
      BY <1>1, <1>3, <3>1, Steps
  <2>4. at' \in [Index -> Place]
    BY <1>1, <2>1, <2>2, <2>3
  <2>5. b.pc = "send" /\ b.level = at[i].level /\ b.step = at[i].step + 1
    BY <1>1 DEF Place
  <2>6. at[i].step + 1 < Rounds(S)
    BY <1>3, <1>4 DEF LastStep, Rounds
  <2> HIDE DEF b
  <2>7. PlaceOf(tree, i, b)
    BY <1>2, <2>5, <2>6 DEF PlaceOf, InRing, Rising, Ring
  <2>8. ASSUME NEW l \in Path(tree, i)
        PROVE  Counted(at[i], b, l, ClusterOf(tree, i, l), 0, IF l = at[i].level THEN 1 ELSE 0, 0)
    <3>1. l \in Nat /\ Rounds(ClusterOf(tree, i, l)) \in Nat
      BY <1>1, RingOf
    <3> QED
      BY <1>1, <3>1, Steps DEF b
  <2>9. OnlyMoves(i, at, at')
    BY <1>1, <2>2, <2>4 DEF OnlyMoves
  <2>10. ASSUME NEW l \in Path(tree, i)
         PROVE  Counted(at[i], at'[i], l, ClusterOf(tree, i, l), 0, IF l = at[i].level THEN 1 ELSE 0, 0)
    BY <2>2, <2>8
  <2> QED
    BY <2>2, <2>7, <2>9, <2>10
<1>5. CASE ~(at[i].step < LastStep(S))
  <2> DEFINE b == Up(i, at[i].level + 1, tree)
  <2>1. at' = [at EXCEPT ![i] = b]
    BY <1>5 DEF AfterStep
  <2>2. at[i].step = LastStep(S)
    BY <1>3, <1>5 DEF LastStep, Rounds
  <2>3. b \in Place
    BY <1>1, <1>3, UpFacts
  <2>4. PlaceOf(tree, i, b)
    BY <1>1, <1>2, <1>3, UpCounts
  <2>5. ASSUME NEW l \in Path(tree, i)
        PROVE  Counted(at[i], b, l, ClusterOf(tree, i, l), 0, IF l = at[i].level THEN 1 ELSE 0, 0)
    BY <1>1, <1>2, <2>2, EndsRing DEF Ring
  <2> HIDE DEF b
  <2>6. at' \in [Index -> Place] /\ at'[i] = b /\ \A j \in Index : j # i => at'[j] = at[j]
    BY <1>1, <2>1, <2>3
  <2> QED
    BY <1>1, <2>4, <2>5, <2>6 DEF OnlyMoves
<1> QED
  BY <1>4, <1>5

(* RingSend in terms of places and channels.                               *)
LEMMA RingSendMoves ==
  ASSUME RoundInv, NEW i \in Index, RingSend(i)
  PROVE  LET L == at[i].level  S == ClusterOf(tree, i, L) IN
         /\ OnlyMoves(i, at, at') /\ PlaceOf(tree, i, at'[i]) /\ at'[i] = [at[i] EXCEPT !.pc = "recv"]
         /\ Balanced(tree, at', channel') /\ Channels(channel') /\ UNCHANGED <<tree, n_participants>>
         /\ Added(channel, channel', i, {Right(i, S)}, RingMessage(grad[i], i, S, at[i].step))
         /\ GotKept(tree, at, at')
<1> DEFINE n == n_participants
           L == at[i].level
           b == [at[i] EXCEPT !.pc = "recv"]
<1>1. /\ tree # NoTree /\ n \in 0..MaxPeers /\ n \in Nat /\ i \in Indices(n) /\ SoundTree(tree, n) /\ i \in Nat
      /\ at \in [Index -> Place] /\ at[i] \in Place
      /\ Balanced(tree, at, channel) /\ Channels(channel)
  BY Active DEF RingSend
<1>2. at[i].pc = "send" /\ InRing(tree, i, at[i]) /\ L \in Path(tree, i) /\ Cardinality(ClusterOf(tree, i, L)) > 1
  BY SendingPeer DEF Rising, RingSend
<1>3. at' = [at EXCEPT ![i].pc = "recv"] /\ UNCHANGED <<tree, n_participants>>
  BY DEF RingSend
<1> DEFINE m == RingMessage(grad[i], i, ClusterOf(tree, i, L), at[i].step)
<1>4. channel' = EnqueueOne(channel, i, Right(i, ClusterOf(tree, i, L)), m)
  BY DEF RingSend, EnqueueOne, Ring, RingMessage
<1>5. at'[i] = b /\ b \in Place /\ at' \in [Index -> Place] /\ \A j \in Index : j # i => at'[j] = at[j]
  BY <1>1, <1>3 DEF Place
<1>6. b.pc = "recv" /\ b.level = at[i].level /\ b.step = at[i].step
  BY <1>1 DEF Place
<1>7. \A l \in Path(tree, i) : Counted(at[i], b, l, ClusterOf(tree, i, l), IF l = L THEN 1 ELSE 0, 0, 0)
  <2> SUFFICES ASSUME NEW l \in Path(tree, i)
               PROVE  Counted(at[i], b, l, ClusterOf(tree, i, l), IF l = L THEN 1 ELSE 0, 0, 0)
    OBVIOUS
  <2>1. l \in Nat /\ Rounds(ClusterOf(tree, i, l)) \in Nat
    BY <1>1, RingOf
  <2> QED
    BY <1>1, <1>2, <2>1, Sends
<1> HIDE DEF n, L, b, m
<1>8. PlaceOf(tree, i, b)
  BY <1>2, <1>6 DEF PlaceOf, InRing, Rising
<1>9. OnlyMoves(i, at, at')
  BY <1>1, <1>5 DEF OnlyMoves
<1>10. Right(i, ClusterOf(tree, i, L)) \in Index
  <2>1. /\ ClusterOf(tree, i, L) \in SUBSET Nat /\ ClusterOf(tree, i, L) \in SUBSET Indices(n)
        /\ IsFiniteSet(ClusterOf(tree, i, L)) /\ i \in ClusterOf(tree, i, L)
    BY <1>1, <1>2, RingOf
  <2>2. Right(i, ClusterOf(tree, i, L)) \in ClusterOf(tree, i, L)
    BY <2>1, Neighbours
  <2>3. Indices(n) \subseteq Index
    BY <1>2, Active DEF n
  <2> QED
    BY <2>1, <2>2, <2>3
<1>11. channel' = Enqueue(channel, i, {Right(i, ClusterOf(tree, i, L))}, m)
  BY <1>1, <1>4, <1>10, EnqueuedOne
<1>12. /\ Balanced(tree, at', channel') /\ Channels(channel') /\ GotKept(tree, at, at')
       /\ Added(channel, channel', i, {Right(i, ClusterOf(tree, i, L))}, m)
  BY <1>1, <1>2, <1>5, <1>7, <1>9, <1>11, RingSendBalanced
<1> QED
  BY <1>3, <1>5, <1>8, <1>9, <1>12 DEF b, m, L

(* RingSend keeps the invariant.                                           *)
LEMMA RoundRingSend ==
  ASSUME RoundInv, NEW i \in Index, RingSend(i)
  PROVE  RoundInv'
BY RingSendMoves, MovesKeep DEF RingSend

(* RingReceive in terms of places and channels.                            *)
LEMMA RingReceiveMoves ==
  ASSUME RoundInv, NEW i \in Index, RingReceive(i)
  PROVE  LET L == at[i].level  left == Left(i, ClusterOf(tree, i, L)) IN
         /\ OnlyMoves(i, at, at') /\ PlaceOf(tree, i, at'[i])
         /\ Balanced(tree, at', channel') /\ Channels(channel') /\ UNCHANGED <<tree, n_participants>>
         /\ channel[left][i] # << >> /\ Removed(channel, channel', left, i)
         /\ GotOne(tree, at, at', left, i, L)
<1> DEFINE n == n_participants
           L == at[i].level
           left == Left(i, ClusterOf(tree, i, L))
<1>1. /\ tree # NoTree /\ n \in 0..MaxPeers /\ n \in Nat /\ i \in Indices(n) /\ SoundTree(tree, n) /\ i \in Nat
      /\ at \in [Index -> Place] /\ at[i] \in Place
      /\ Balanced(tree, at, channel) /\ Channels(channel)
  BY Active DEF RingReceive
<1>2. at[i].pc = "recv" /\ L \in Path(tree, i) /\ Cardinality(ClusterOf(tree, i, L)) > 1
  BY SendingPeer DEF Rising, RingReceive
<1>3. channel[left][i] # << >> /\ channel' = Dequeue(channel, left, i) /\ UNCHANGED <<tree, n_participants>>
  BY DEF RingReceive, Dequeue, Ring
<1>4. \E g : AfterStep(i, Ring(i, at[i].level), g)
  BY DEF RingReceive
<1>5. /\ OnlyMoves(i, at, at') /\ PlaceOf(tree, i, at'[i])
      /\ \A l \in Path(tree, i) : Counted(at[i], at'[i], l, ClusterOf(tree, i, l), 0, IF l = L THEN 1 ELSE 0, 0)
  BY <1>2, <1>4, AfterStepMoves
<1> HIDE DEF n, L
<1>6. /\ Balanced(tree, at', channel') /\ Channels(channel')
      /\ Removed(channel, channel', left, i) /\ GotOne(tree, at, at', left, i, L)
  BY <1>1, <1>2, <1>3, <1>5, RingReceiveBalanced
<1> QED
  BY <1>3, <1>5, <1>6 DEF L

(* RingReceive keeps the invariant.                                        *)
LEMMA RoundRingReceive ==
  ASSUME RoundInv, NEW i \in Index, RingReceive(i)
  PROVE  RoundInv'
BY RingReceiveMoves, MovesKeep DEF RingReceive

(* Down takes a peer to the level below, or makes it done.                 *)
LEMMA DownMoves ==
  ASSUME RoundInv, NEW i \in Index, at[i].pc = "down", at' = [at EXCEPT ![i] = Down(at[i].level)]
  PROVE  /\ OnlyMoves(i, at, at') /\ PlaceOf(tree, i, at'[i]) /\ at[i].level \in Path(tree, i)
         /\ \A l \in Path(tree, i) :
              Counted(at[i], at'[i], l, ClusterOf(tree, i, l), 0, 0, IF l = at[i].level THEN 1 ELSE 0)
<1> DEFINE n == n_participants
           b == Down(at[i].level)
<1>1. /\ n \in Nat /\ i \in Indices(n) /\ SoundTree(tree, n) /\ i \in Nat
      /\ at \in [Index -> Place] /\ at[i] \in Place /\ PlaceOf(tree, i, at[i])
  BY Active
<1>2. at[i].level \in Path(tree, i) /\ at[i].level \in Nat
  BY <1>1 DEF PlaceOf, Rising, Place
<1>3. \A l \in Path(tree, i) : Counted(at[i], b, l, ClusterOf(tree, i, l), 0, 0, IF l = at[i].level THEN 1 ELSE 0)
  <2> SUFFICES ASSUME NEW l \in Path(tree, i)
               PROVE  Counted(at[i], b, l, ClusterOf(tree, i, l), 0, 0, IF l = at[i].level THEN 1 ELSE 0)
    OBVIOUS
  <2>1. l \in Nat /\ Rounds(ClusterOf(tree, i, l)) \in Nat
    BY <1>1, RingOf
  <2> QED
    BY <1>1, <2>1, Falls
<1>4. b \in Place /\ PlaceOf(tree, i, b)
  <2>1. CASE at[i].level = 0
    BY <2>1 DEF Down, Done, Waiting, Place, PlaceOf
  <2>2. CASE at[i].level # 0
    <3>1. at[i].level - 1 \in Path(tree, i) /\ at[i].level - 1 \in Nat
      <4>1. Path(tree, i) = 0..Max(Path(tree, i)) /\ Max(Path(tree, i)) \in Nat
        BY <1>1, PathFacts
      <4> QED
        BY <1>2, <2>2, <4>1
    <3> QED
      BY <2>2, <3>1 DEF Down, Place, PlaceOf
  <2> QED
    BY <2>1, <2>2
<1> HIDE DEF n, b
<1>5. at' \in [Index -> Place] /\ at'[i] = b /\ \A j \in Index : j # i => at'[j] = at[j]
  BY <1>1, <1>4 DEF b
<1>6. OnlyMoves(i, at, at')
  BY <1>1, <1>5 DEF OnlyMoves
<1>7. ASSUME NEW l \in Path(tree, i)
      PROVE  Counted(at[i], at'[i], l, ClusterOf(tree, i, l), 0, 0, IF l = at[i].level THEN 1 ELSE 0)
  BY <1>3, <1>5
<1> QED
  BY <1>2, <1>4, <1>5, <1>6, <1>7

(* Broadcast in terms of places and channels.                              *)
LEMMA BroadcastMoves ==
  ASSUME RoundInv, NEW i \in Index, Broadcast(i)
  PROVE  LET L == at[i].level  S == ClusterOf(tree, i, L) IN
         /\ OnlyMoves(i, at, at') /\ PlaceOf(tree, i, at'[i]) /\ L \in Path(tree, i)
         /\ Balanced(tree, at', channel') /\ Channels(channel') /\ UNCHANGED <<tree, n_participants>>
         /\ Added(channel, channel', i, S \ {i}, grad[i]) /\ GotKept(tree, at, at')
<1> DEFINE n == n_participants
           L == at[i].level
<1>1. /\ tree # NoTree /\ n \in 0..MaxPeers /\ n \in Nat /\ i \in Indices(n) /\ SoundTree(tree, n) /\ i \in Nat
      /\ at \in [Index -> Place] /\ at[i] \in Place
      /\ Balanced(tree, at, channel) /\ Channels(channel)
  BY Active DEF Broadcast
<1>2. /\ at[i].pc = "down" /\ i = Leader(ClusterOf(tree, i, L)) /\ UNCHANGED <<tree, n_participants>>
      /\ channel' = Enqueue(channel, i, ClusterOf(tree, i, L) \ {i}, grad[i])
  BY DEF Broadcast, Enqueue, Ring
<1>3. /\ OnlyMoves(i, at, at') /\ PlaceOf(tree, i, at'[i]) /\ L \in Path(tree, i)
      /\ \A l \in Path(tree, i) : Counted(at[i], at'[i], l, ClusterOf(tree, i, l), 0, 0, IF l = L THEN 1 ELSE 0)
  BY DownMoves DEF Broadcast
<1> HIDE DEF n, L
<1> DEFINE g == grad[i]
<1>4. channel' = Enqueue(channel, i, ClusterOf(tree, i, L) \ {i}, g)
  BY <1>2
<1> HIDE DEF g
<1>5. /\ Balanced(tree, at', channel') /\ Channels(channel')
      /\ GotKept(tree, at, at') /\ Added(channel, channel', i, ClusterOf(tree, i, L) \ {i}, g)
  BY <1>1, <1>2, <1>3, <1>4, BroadcastBalanced, Zenon
<1> QED
  BY <1>2, <1>3, <1>5 DEF L, g

(* Broadcast keeps the invariant.                                          *)
LEMMA RoundBroadcast ==
  ASSUME RoundInv, NEW i \in Index, Broadcast(i)
  PROVE  RoundInv'
BY BroadcastMoves, MovesKeep DEF Broadcast

(* ReceiveBroadcast in terms of places and channels.                       *)
LEMMA ReceiveBroadcastMoves ==
  ASSUME RoundInv, NEW i \in Index, ReceiveBroadcast(i)
  PROVE  LET L == at[i].level  leader == Leader(ClusterOf(tree, i, L)) IN
         /\ OnlyMoves(i, at, at') /\ PlaceOf(tree, i, at'[i]) /\ L \in Path(tree, i)
         /\ Balanced(tree, at', channel') /\ Channels(channel') /\ UNCHANGED <<tree, n_participants>>
         /\ channel[leader][i] # << >> /\ Removed(channel, channel', leader, i)
         /\ GotOne(tree, at, at', leader, i, L)
<1> DEFINE n == n_participants
           L == at[i].level
           leader == Leader(ClusterOf(tree, i, L))
<1>1. /\ tree # NoTree /\ n \in 0..MaxPeers /\ n \in Nat /\ i \in Indices(n) /\ SoundTree(tree, n) /\ i \in Nat
      /\ at \in [Index -> Place] /\ at[i] \in Place
      /\ Balanced(tree, at, channel) /\ Channels(channel)
  BY Active DEF ReceiveBroadcast
<1>2. /\ at[i].pc = "down" /\ leader = Leader(ClusterOf(tree, i, L)) /\ i # leader /\ UNCHANGED <<tree, n_participants>>
      /\ channel[leader][i] # << >> /\ channel' = Dequeue(channel, leader, i)
  BY DEF ReceiveBroadcast, Dequeue, Ring
<1>3. /\ OnlyMoves(i, at, at') /\ PlaceOf(tree, i, at'[i]) /\ L \in Path(tree, i)
      /\ \A l \in Path(tree, i) : Counted(at[i], at'[i], l, ClusterOf(tree, i, l), 0, 0, IF l = L THEN 1 ELSE 0)
  BY DownMoves DEF ReceiveBroadcast
<1> HIDE DEF n, L, leader
<1>4. /\ Balanced(tree, at', channel') /\ Channels(channel')
      /\ Removed(channel, channel', leader, i) /\ GotOne(tree, at, at', leader, i, L)
  BY <1>1, <1>2, <1>3, ReceiveBroadcastBalanced
<1> QED
  BY <1>2, <1>3, <1>4 DEF L, leader

(* ReceiveBroadcast keeps the invariant.                                   *)
LEMMA RoundReceiveBroadcast ==
  ASSUME RoundInv, NEW i \in Index, ReceiveBroadcast(i)
  PROVE  RoundInv'
BY ReceiveBroadcastMoves, MovesKeep DEF ReceiveBroadcast

(* Every step of a round keeps the invariant.                              *)
LEMMA RoundSteps == RoundInv /\ [ReduceNext]_reduceVars => RoundInv'
<1> SUFFICES ASSUME RoundInv, [ReduceNext]_reduceVars  PROVE RoundInv'
  OBVIOUS
<1>1. CASE RegisterPeer
  <2>1. n_participants' \in 0..MaxPeers
    BY <1>1, ReduceAssumption DEF RegisterPeer, RoundInv, TreeInv
  <2> QED
    BY <1>1, <2>1 DEF RegisterPeer, RoundInv, TreeInv, PlacesInv, ChannelsInv
<1>2. CASE Finalize
  <2>1. n_participants \in 0..MaxPeers /\ tree = NoTree
    BY <1>2 DEF RoundInv, TreeInv, Finalize
  <2>2. tree' # NoTree /\ SoundTree(tree', n_participants) /\ n_participants > 0
    BY <1>2, <2>1, FinalizeTree
  <2>3. /\ at' = [i \in Index |-> IF i < n_participants THEN Up(i, 0, tree') ELSE Waiting]
        /\ channel' = channel /\ n_participants' = n_participants
    BY <1>2 DEF Finalize
  <2>4. Channels(channel) /\ \A x, y \in Index : channel[x][y] = << >>
    BY <2>1 DEF RoundInv, ChannelsInv
  <2>5. /\ at' \in [Index -> Place] /\ Balanced(tree', at', channel)
        /\ \A i \in Index : IF i < n_participants THEN PlaceOf(tree', i, at'[i]) ELSE at'[i] = Waiting
    BY <2>1, <2>2, <2>3, <2>4, StartBalanced
  <2>6. TreeInv'
    BY <2>1, <2>2, <2>3 DEF TreeInv
  <2>7. PlacesInv'
    BY <2>2, <2>3, <2>5 DEF PlacesInv
  <2>8. ChannelsInv'
    BY <2>2, <2>3, <2>4, <2>5 DEF ChannelsInv
  <2> QED
    BY <2>6, <2>7, <2>8 DEF RoundInv
<1>3. ASSUME NEW i \in Index, Step(i)  PROVE RoundInv'
  BY <1>3, RoundRingSend, RoundRingReceive, RoundBroadcast, RoundReceiveBroadcast DEF Step
<1>4. CASE UNCHANGED reduceVars
  BY <1>4 DEF reduceVars, RoundInv, TreeInv, PlacesInv, ChannelsInv
<1> QED
  BY <1>1, <1>2, <1>3, <1>4 DEF ReduceNext

(* In every state of a round the tree is sound, every peer is where the    *)
(* tree lets it be, and on every pair of peers there are as many messages  *)
(* as the one has sent and the other has not received.                     *)
THEOREM RoundInvariant == ReduceSpec => []RoundInv
<1>1. ReduceSpec => ReduceInit /\ [][ReduceNext]_reduceVars
  BY DEF ReduceSpec
<1> QED
  BY <1>1, RoundStarts, RoundSteps, PTL

(* Peers that are done have sent each other as much as they received.      *)
LEMMA DoneBalanced ==
  ASSUME RoundInv, AllDone, NEW x \in Index, NEW y \in Index
  PROVE  channel[x][y] = << >>
<1> DEFINE n == n_participants
<1>1. n \in 0..MaxPeers /\ n \in Nat /\ SoundTree(tree, n) /\ Balanced(tree, at, channel) /\ Channels(channel)
      /\ Index \subseteq Nat
  BY ReduceAssumption DEF RoundInv, TreeInv, ChannelsInv, AllDone, Index, Indices
<1>2. CASE \A l \in Path(tree, x) : ~Meet(tree, x, y, l)
  BY <1>1, <1>2 DEF Balanced
<1>3. ASSUME NEW l \in Path(tree, x), Meet(tree, x, y, l)  PROVE channel[x][y] = << >>
  <2> DEFINE S == ClusterOf(tree, x, l)
  <2>1. x \in Indices(n) /\ y \in Indices(n)
    BY <1>1, <1>3, RingOf DEF Meet
  <2>2. at[x] = at[y]
    BY <2>1 DEF AllDone
  <2>3. at[x].pc = "done"
    BY <2>1 DEF AllDone, Done, Waiting
  <2>4. UpSent(at[x], l, S) = UpGot(at[x], l, S)
    BY <2>3 DEF UpSent
  <2>5. Sent(tree, at, x, y, l) = Got(tree, at, x, y, l)
    BY <2>2, <2>4 DEF Sent, Got
  <2>6. Got(tree, at, x, y, l) \in Nat
    <3>1. at[x] \in Place /\ at[y] \in Place
      BY DEF RoundInv, PlacesInv
    <3> QED
      BY <1>1, <2>1, <3>1, CountsInt
  <2>7. Len(channel[x][y]) = Sent(tree, at, x, y, l) - Got(tree, at, x, y, l)
    BY <1>1, <1>3 DEF Balanced
  <2>8. Len(channel[x][y]) = 0
    BY <2>5, <2>6, <2>7
  <2>9. Queue(channel[x][y])
    BY <1>1 DEF Channels
  <2> QED
    BY <2>8, <2>9, QueueFacts
<1> QED
  BY <1>2, <1>3

(* A finished round leaves no message behind.                              *)
THEOREM RoundLeavesNothing == ReduceSpec => []NothingLeftOver
<1>1. RoundInv => NothingLeftOver
  BY DoneBalanced DEF NothingLeftOver
<1> QED
  BY <1>1, RoundInvariant, PTL

-----------------------------------------------------------------------------
(* Sums over sets of peers.                                                *)

Sum(g, T, e) == FoldSet(LAMBDA j, sum : sum + g[j][e], 0, T)

(* A function on the subsets of S that adds up the values f, taking the     *)
(* members in any order.                                                   *)
Adds(h, S, f) == h[{}] = 0 /\ \A T \in SUBSET S : \A x \in T : h[T] = h[T \ {x}] + f[x]

(* There is such a function: subsets by size, the order does not matter.   *)
LEMMA AddsExists ==
  ASSUME NEW S, IsFiniteSet(S), NEW f \in [S -> Int]
  PROVE  \E h \in [SUBSET S -> Int] : Adds(h, S, f)
<1> DEFINE upTo(m) == {T \in SUBSET S : Cardinality(T) <= m}
           adds(h, m) == h[{}] = 0 /\ \A T \in upTo(m) : \A x \in T : h[T] = h[T \ {x}] + f[x]
           bad == {m \in Nat : ~ \E h \in [SUBSET S -> Int] : adds(h, m)}
<1>1. \A T \in SUBSET S : IsFiniteSet(T) /\ Cardinality(T) \in Nat /\ (Cardinality(T) = 0 <=> T = {})
  BY FS_Subset, FS_CardinalityType, FS_EmptySet
<1>2. \A T \in SUBSET S : \A x \in T : T \ {x} \in SUBSET S /\ Cardinality(T \ {x}) = Cardinality(T) - 1
  BY <1>1, FS_RemoveElement
<1>3. bad = {}
  <2> SUFFICES ASSUME bad # {}  PROVE FALSE
    OBVIOUS
  <2>1. bad \in SUBSET Nat
    OBVIOUS
  <2>2. PICK m \in bad : \A k \in bad : m <= k
    BY <2>1, LeastNatural
  <2>3. m \in Nat /\ ~ \E h \in [SUBSET S -> Int] : adds(h, m)
    OBVIOUS
  <2>4. m # 0
    <3> SUFFICES ASSUME m = 0  PROVE FALSE
      OBVIOUS
    <3> DEFINE h == [T \in SUBSET S |-> 0]
    <3>1. ASSUME NEW T \in upTo(0), NEW x \in T  PROVE FALSE
      BY <1>1
    <3>2. h[{}] = 0 /\ h \in [SUBSET S -> Int]
      OBVIOUS
    <3>3. adds(h, m)
      BY <3>1, <3>2
    <3> HIDE DEF h, adds
    <3> QED
      BY <2>3, <3>2, <3>3
  <2>5. m - 1 \in Nat /\ m - 1 \notin bad
    <3>1. m - 1 \in Nat /\ ~(m <= m - 1)
      BY <2>3, <2>4
    <3> QED
      BY <2>2, <3>1
  <2>6. PICK h \in [SUBSET S -> Int] : adds(h, m - 1)
    BY <2>5
  <2> DEFINE any(T) == CHOOSE x \in T : TRUE
             k == [T \in SUBSET S |-> IF Cardinality(T) = m THEN h[T \ {any(T)}] + f[any(T)] ELSE h[T]]
  <2>7. \A T \in SUBSET S : T # {} => any(T) \in T /\ any(T) \in S
    OBVIOUS
  <2> HIDE DEF any
  <2>8. k \in [SUBSET S -> Int]
    <3>1. ASSUME NEW T \in SUBSET S, Cardinality(T) = m  PROVE h[T \ {any(T)}] + f[any(T)] \in Int
      <4>1. any(T) \in S /\ T \ {any(T)} \in SUBSET S
        BY <1>1, <2>4, <2>7, <3>1
      <4>2. h[T \ {any(T)}] \in Int /\ f[any(T)] \in Int
        BY <2>6, <4>1
      <4> QED
        BY <4>2
    <3>2. \A T \in SUBSET S : h[T] \in Int
      BY <2>6
    <3> QED
      BY <3>1, <3>2
  <2>9. k[{}] = 0
    <3>1. Cardinality({}) # m
      BY <1>1, <2>4
    <3> QED
      BY <2>6, <3>1
  <2>10. ASSUME NEW T \in upTo(m), NEW x \in T  PROVE k[T] = k[T \ {x}] + f[x]
    <3>1. T \in SUBSET S /\ Cardinality(T) \in Nat /\ Cardinality(T) <= m /\ T \ {x} \in SUBSET S
          /\ Cardinality(T \ {x}) = Cardinality(T) - 1 /\ Cardinality(T \ {x}) \in Nat
      BY <1>1, <1>2
    <3>2. k[T \ {x}] = h[T \ {x}]
      BY <2>3, <3>1
    <3>3. CASE Cardinality(T) # m
      <4>1. T \in upTo(m - 1) /\ k[T] = h[T]
        BY <2>3, <3>1, <3>3
      <4> QED
        BY <2>6, <3>2, <4>1
    <3>4. CASE Cardinality(T) = m
      <4> DEFINE y == any(T)
      <4>1. y \in T /\ y \in S
        BY <2>7, <3>1
      <4>2. k[T] = h[T \ {y}] + f[y]
        BY <3>1, <3>4
      <4> HIDE DEF y
      <4>3. CASE x = y
        BY <3>2, <4>2, <4>3
      <4>4. CASE x # y
        <5>1. /\ T \ {y} \in SUBSET S /\ Cardinality(T \ {y}) = Cardinality(T) - 1
              /\ x \in T \ {y} /\ y \in T \ {x}
          BY <1>2, <3>1, <4>1, <4>4
        <5>2. T \ {y} \in upTo(m - 1) /\ T \ {x} \in upTo(m - 1)
          BY <2>3, <3>1, <3>4, <5>1
        <5>3. h[T \ {y}] = h[(T \ {y}) \ {x}] + f[x] /\ h[T \ {x}] = h[(T \ {x}) \ {y}] + f[y]
          BY <2>6, <5>1, <5>2
        <5>4. (T \ {y}) \ {x} = (T \ {x}) \ {y} /\ (T \ {y}) \ {x} \in SUBSET S
          BY <3>1
        <5> DEFINE z == h[(T \ {y}) \ {x}]
        <5>5. z \in Int /\ f[x] \in Int /\ f[y] \in Int
          BY <2>6, <3>1, <4>1, <5>4
        <5>6. h[T \ {y}] = z + f[x] /\ h[T \ {x}] = z + f[y]
          BY <5>3, <5>4
        <5> HIDE DEF z
        <5> QED
          BY <3>2, <4>2, <5>5, <5>6
      <4> QED
        BY <4>3, <4>4
    <3> QED
      BY <3>3, <3>4
  <2>11. adds(k, m)
    BY <2>9, <2>10
  <2> HIDE DEF k
  <2> QED
    BY <2>3, <2>8, <2>11
<1>4. Cardinality(S) \in Nat /\ Cardinality(S) \notin bad
  <2>1. Cardinality(S) \in Nat
    BY FS_CardinalityType
  <2> QED
    BY <1>3, <2>1, Zenon
<1>5. PICK h \in [SUBSET S -> Int] : adds(h, Cardinality(S))
  BY <1>4
<1>6. \A T \in SUBSET S : T \in upTo(Cardinality(S))
  BY FS_Subset
<1> QED
  BY <1>5, <1>6 DEF Adds

(* The fold of Sum takes the members in the order of CHOOSE, and agrees    *)
(* with it.                                                                *)
LEMMA SumIs ==
  ASSUME NEW S, IsFiniteSet(S), NEW g, NEW e, \A j \in S : g[j][e] \in Int,
         NEW h \in [SUBSET S -> Int], Adds(h, S, [j \in S |-> g[j][e]]), NEW T \in SUBSET S
  PROVE  Sum(g, T, e) = h[T]
<1> DEFINE any(s) == CHOOSE x \in s : TRUE
           iter == CHOOSE it : it = [s \in SUBSET T |-> IF s = {} THEN 0 ELSE it[s \ {any(s)}] + g[any(s)][e]]
           k == [s \in SUBSET T |-> h[s]]
<1>1. Sum(g, T, e) = iter[T]
  BY DEF Sum, FoldSet, MapThenFoldSet
<1>2. \A s \in SUBSET T : s # {} => any(s) \in s /\ any(s) \in S /\ s \in SUBSET S /\ s \ {any(s)} \in SUBSET T
  OBVIOUS
<1> HIDE DEF any
<1>3. k = [s \in SUBSET T |-> IF s = {} THEN 0 ELSE k[s \ {any(s)}] + g[any(s)][e]]
  <2>1. ASSUME NEW s \in SUBSET T  PROVE h[s] = IF s = {} THEN 0 ELSE k[s \ {any(s)}] + g[any(s)][e]
    <3>1. CASE s = {}
      BY <3>1 DEF Adds
    <3>2. CASE s # {}
      <4>1. any(s) \in s /\ any(s) \in S /\ s \in SUBSET S /\ s \ {any(s)} \in SUBSET T
        BY <1>2, <3>2
      <4>2. h[s] = h[s \ {any(s)}] + g[any(s)][e]
        BY <4>1 DEF Adds
      <4> QED
        BY <3>2, <4>1, <4>2
    <3> QED
      BY <3>1, <3>2
  <2> QED
    BY <2>1
<1>4. iter = [s \in SUBSET T |-> IF s = {} THEN 0 ELSE iter[s \ {any(s)}] + g[any(s)][e]]
  <2> HIDE DEF k
  <2> QED
    BY <1>3
<1> HIDE DEF iter
<1> DEFINE differ == {s \in SUBSET T : iter[s] # h[s]}
           sizes == {Cardinality(s) : s \in differ}
<1>5. \A s \in SUBSET T : IsFiniteSet(s) /\ Cardinality(s) \in Nat
  BY FS_Subset, FS_CardinalityType
<1>6. differ = {}
  <2> SUFFICES ASSUME differ # {}  PROVE FALSE
    OBVIOUS
  <2>1. sizes \in SUBSET Nat /\ sizes # {}
    BY <1>5
  <2>2. PICK c \in sizes : \A d \in sizes : c <= d
    BY <2>1, LeastNatural
  <2>3. PICK s \in differ : Cardinality(s) = c
    OBVIOUS
  <2>4. s \in SUBSET T /\ s # {}
    BY <1>4 DEF Adds
  <2>5. any(s) \in s /\ any(s) \in S /\ s \in SUBSET S /\ s \ {any(s)} \in SUBSET T
    BY <1>2, <2>4
  <2>6. Cardinality(s \ {any(s)}) = c - 1 /\ c \in Nat
    BY <1>5, <2>3, <2>4, <2>5, FS_RemoveElement
  <2>7. s \ {any(s)} \notin differ
    <3>1. s \ {any(s)} \in differ => c <= c - 1
      BY <2>2, <2>6
    <3> QED
      BY <2>6, <3>1
  <2>8. iter[s \ {any(s)}] = h[s \ {any(s)}]
    BY <2>5, <2>7
  <2>9. iter[s] = iter[s \ {any(s)}] + g[any(s)][e]
    BY <1>4, <2>4
  <2>10. h[s] = h[s \ {any(s)}] + g[any(s)][e]
    BY <2>5 DEF Adds
  <2> QED
    BY <2>3, <2>8, <2>9, <2>10
<1>7. T \in SUBSET T
  OBVIOUS
<1>8. T \notin differ
  BY <1>6, Zenon
<1> QED
  BY <1>1, <1>7, <1>8

(* Sums over a set of peers, with one peer more.                           *)
Numbers(S, g, e) == \A j \in S : g[j][e] \in Int

(* A sum of numbers is a number.                                           *)
LEMMA SumTyped ==
  ASSUME NEW S, IsFiniteSet(S), NEW g, NEW e, Numbers(S, g, e)
  PROVE  Sum(g, S, e) \in Int
<1> DEFINE f == [j \in S |-> g[j][e]]
<1>1. f \in [S -> Int]
  BY DEF Numbers
<1>2. PICK h \in [SUBSET S -> Int] : Adds(h, S, f)
  BY <1>1, AddsExists
<1>3. S \in SUBSET S
  OBVIOUS
<1>4. Sum(g, S, e) = h[S]
  BY <1>2, <1>3, SumIs DEF Numbers
<1> QED
  BY <1>3, <1>4

(* One peer more adds its value.                                           *)
LEMMA SumSteps ==
  ASSUME NEW S, IsFiniteSet(S), NEW g, NEW e, Numbers(S, g, e),
         NEW T \in SUBSET S, NEW x \in S, x \notin T
  PROVE  /\ Sum(g, T, e) \in Int
         /\ Sum(g, T \cup {x}, e) = Sum(g, T, e) + g[x][e]
<1> DEFINE f == [j \in S |-> g[j][e]]
<1>1. f \in [S -> Int] /\ f[x] = g[x][e]
  BY DEF Numbers
<1>2. PICK h \in [SUBSET S -> Int] : Adds(h, S, f)
  BY <1>1, AddsExists
<1>3. \A U \in SUBSET S : Sum(g, U, e) = h[U] /\ h[U] \in Int
  BY <1>2, SumIs DEF Numbers
<1>4. T \cup {x} \in SUBSET S
  OBVIOUS
<1>5. h[T \cup {x}] = h[T] + f[x]
  <2>1. (T \cup {x}) \ {x} = T /\ x \in T \cup {x}
    OBVIOUS
  <2> QED
    BY <1>2, <1>4, <2>1 DEF Adds
<1> HIDE DEF f
<1> QED
  BY <1>1, <1>3, <1>4, <1>5

(* T is a part of the ring S that does not have its peer x.                *)
Without(S, g, e, T, x) ==
  IsFiniteSet(S) /\ Numbers(S, g, e) /\ T \in SUBSET S /\ x \in S /\ x \notin T

(* The same, with the hypotheses as one predicate.                         *)
LEMMA SumWithout ==
  ASSUME NEW S, NEW g, NEW e, NEW T, NEW x, Without(S, g, e, T, x)
  PROVE  /\ Sum(g, T, e) \in Int
         /\ Sum(g, T \cup {x}, e) = Sum(g, T, e) + g[x][e]
<1>1. IsFiniteSet(S) /\ Numbers(S, g, e) /\ T \in SUBSET S /\ x \in S /\ x \notin T
  BY DEF Without
<1> QED
  BY <1>1, SumSteps

-----------------------------------------------------------------------------
(* Chunks and windows of a ring.                                           *)

(* Places to the left of p of q, around a ring of r; the members up to u   *)
(* places to the left of i; the chunk an element is in, and how far to the *)
(* left of i its place is.                                                 *)
Dist(r, p, q) == IF p >= q THEN p - q ELSE p - q + r
Window(i, u, S) == {j \in S : Dist(Cardinality(S), Position(i, S), Position(j, S)) <= u}
ChunkOf(e, r) == e \div CeilDiv(Numel, r)
Behind(i, e, S) == Dist(Cardinality(S), Position(i, S), ChunkOf(e, Cardinality(S)))

(* Whose gradients the value of a chunk u places to the left adds up after *)
(* s messages, and whose the chunk that is sent as message s adds up.      *)
Part(i, u, s, S) ==
  IF Cardinality(S) + u <= s THEN S ELSE IF u <= s THEN Window(i, u, S) ELSE {i}
Shipped(i, s, S) == IF s < Cardinality(S) THEN Window(i, s, S) ELSE S

(* Remainders below three times the divisor.                               *)
LEMMA Remainder ==
  ASSUME NEW r \in Nat \ {0}, NEW x \in Nat, x < 3 * r
  PROVE  x % r = IF x < r THEN x ELSE IF x < 2 * r THEN x - r ELSE x - 2 * r
<1>1. CASE x < r
  BY <1>1
<1>2. CASE x >= r /\ x < 2 * r
  BY <1>2
<1>3. CASE x >= 2 * r
  BY <1>3
<1> QED
  BY <1>1, <1>2, <1>3

(* Every element is in one of the r chunks.                                *)
LEMMA SmallerFactor ==
  ASSUME NEW a \in Nat, NEW b \in Nat, NEW c \in Nat, c * a < b * c
  PROVE  a < b
<1>1. CASE b <= a
  <2>1. b * c <= c * a
    BY <1>1
  <2> QED
    BY <2>1
<1> QED
  BY <1>1

(* ChunkOf is the index of a chunk.                                        *)
LEMMA ChunkOfIn ==
  ASSUME NEW r \in Nat \ {0}, NEW e \in Elements
  PROVE  ChunkOf(e, r) \in 0..(r - 1)
<1>0. Numel \in Nat /\ e \in Nat /\ e < Numel /\ Numel > 0
  BY ReduceAssumption DEF Elements, Indices
<1> DEFINE C == CeilDiv(Numel, r)
           q == e \div C
<1>1. C \in Nat /\ C > 0 /\ ~(r * C < Numel)
  BY <1>0, RoundedUp
<1>2. q \in Nat /\ C * q <= e
  <2> HIDE DEF C
  <2> QED
    BY <1>0, <1>1, Quotient
<1> HIDE DEF q, C
<1>3. C * q \in Nat /\ r * C \in Nat
  BY <1>1, <1>2
<1>4. C * q < r * C
  BY <1>0, <1>1, <1>2, <1>3
<1>5. q < r
  BY <1>1, <1>2, <1>4, SmallerFactor
<1> QED
  BY <1>2, <1>5 DEF ChunkOf, q, C

(* An index formula of the ring in terms of distances.                     *)
LEMMA ShiftedIndex ==
  ASSUME NEW r \in Nat \ {0}, NEW p \in 0..(r - 1), NEW q \in 0..(r - 1),
         NEW s \in 0..(2 * r - 2)
  PROVE  q = (p - s + 2 * r) % r <=> Dist(r, p, q) = IF s < r THEN s ELSE s - r
<1>1. p - s + 2 * r \in Nat /\ p - s + 2 * r < 3 * r
  OBVIOUS
<1> DEFINE x == p - s + 2 * r
<1>2. x % r = IF x < r THEN x ELSE IF x < 2 * r THEN x - r ELSE x - 2 * r
  <2> HIDE DEF x
  <2> QED
    BY <1>1, Remainder DEF x
<1> DEFINE y == x % r
<1>3. y = IF x < r THEN x ELSE IF x < 2 * r THEN x - r ELSE x - 2 * r
  BY <1>2
<1> HIDE DEF y
<1>4. q = y <=> Dist(r, p, q) = IF s < r THEN s ELSE s - r
  BY <1>3 DEF Dist
<1> QED
  BY <1>4 DEF y

(* The left neighbour of p is one place nearer.                            *)
LEMMA LeftShift ==
  ASSUME NEW r \in Nat \ {0}, NEW p \in 0..(r - 1), NEW q \in 0..(r - 1)
  PROVE  LET d == Dist(r, IF p = 0 THEN r - 1 ELSE p - 1, q) IN
         /\ d \in 0..(r - 1)
         /\ Dist(r, p, q) = IF d = r - 1 THEN 0 ELSE d + 1
BY DEF Dist

(* A distance is less than the size of the ring, and 0 only from a place to*)
(* itself.                                                                 *)
LEMMA DistFacts ==
  ASSUME NEW r \in Nat \ {0}, NEW p \in 0..(r - 1), NEW q \in 0..(r - 1)
  PROVE  Dist(r, p, q) \in 0..(r - 1) /\ (Dist(r, p, q) = 0 <=> p = q)
BY DEF Dist

(* Message s of a peer is the chunk s places to its left; the one it       *)
(* receives then is one place further.                                     *)
LEMMA ChunkSent ==
  ASSUME NEW S \in SUBSET Nat, IsFiniteSet(S), NEW i \in S, NEW e \in Elements,
         NEW s \in Nat, s < Rounds(S)
  PROVE  LET r == Cardinality(S) IN
         /\ Behind(i, e, S) \in 0..(r - 1)
         /\ e \in Chunk(SendIndex(i, S, s), r) <=> Behind(i, e, S) = IF s < r THEN s ELSE s - r
         /\ e \in Chunk(SendIndex(Left(i, S), S, s), r) <=>
              Behind(i, e, S) = IF s + 1 < r THEN s + 1 ELSE s + 1 - r
<1> DEFINE r == Cardinality(S)
           p == Position(i, S)
           o == Position(Left(i, S), S)
           q == ChunkOf(e, r)
<1>1. r \in Nat \ {0} /\ p \in 0..(r - 1)
  BY PositionFacts
<1>2. q \in 0..(r - 1)
  BY <1>1, ChunkOfIn
<1>3. o = IF p = 0 THEN r - 1 ELSE p - 1
  BY Neighbours
<1>4. s \in 0..(2 * r - 2) /\ s < 2 * r - 2
  BY <1>1 DEF Rounds
<1>5. \A c : e \in Chunk(c, r) <=> q = c % r
  BY DEF Chunk, ChunkOf
<1>6. Behind(i, e, S) = Dist(r, p, q)
  BY DEF Behind
<1>7. SendIndex(i, S, s) = p - s + 2 * r /\ SendIndex(Left(i, S), S, s) = o - s + 2 * r
  BY DEF SendIndex
<1> HIDE DEF r, p, o, q
<1>8. o \in 0..(r - 1)
  BY <1>1, <1>3
<1>9. q = (p - s + 2 * r) % r <=> Dist(r, p, q) = IF s < r THEN s ELSE s - r
  BY <1>1, <1>2, <1>4, ShiftedIndex
<1>10. q = (o - s + 2 * r) % r <=> Dist(r, o, q) = IF s < r THEN s ELSE s - r
  BY <1>8, <1>1, <1>2, <1>4, ShiftedIndex
<1>11. Dist(r, o, q) \in 0..(r - 1) /\ Dist(r, p, q) = IF Dist(r, o, q) = r - 1 THEN 0 ELSE Dist(r, o, q) + 1
  BY <1>1, <1>2, <1>3, LeftShift
<1>12. Dist(r, p, q) \in 0..(r - 1)
  BY <1>1, <1>2, DistFacts
<1>13. e \in Chunk(SendIndex(i, S, s), r) <=> Dist(r, p, q) = IF s < r THEN s ELSE s - r
  BY <1>5, <1>7, <1>9
<1>14. e \in Chunk(SendIndex(Left(i, S), S, s), r) <=> Dist(r, o, q) = IF s < r THEN s ELSE s - r
  BY <1>5, <1>7, <1>10
<1> DEFINE dp == Dist(r, p, q)
           do == Dist(r, o, q)
<1>15. (do = IF s < r THEN s ELSE s - r) <=> (dp = IF s + 1 < r THEN s + 1 ELSE s + 1 - r)
  <2>1. do \in 0..(r - 1) /\ dp = (IF do = r - 1 THEN 0 ELSE do + 1)
    BY <1>11
  <2> HIDE DEF do, dp
  <2> QED
    BY <2>1, <1>1, <1>4
<1>16. /\ Behind(i, e, S) \in 0..(r - 1)
       /\ e \in Chunk(SendIndex(i, S, s), r) <=> Behind(i, e, S) = IF s < r THEN s ELSE s - r
       /\ e \in Chunk(SendIndex(Left(i, S), S, s), r) <=>
            Behind(i, e, S) = IF s + 1 < r THEN s + 1 ELSE s + 1 - r
  BY <1>6, <1>12, <1>13, <1>14, <1>15
<1> QED
  BY <1>16 DEF r

(* A window grows by the next peer to the left until it is the ring.       *)
LEMMA WindowFacts ==
  ASSUME NEW S \in SUBSET Nat, IsFiniteSet(S), NEW i \in S, NEW u \in Nat
  PROVE  LET r == Cardinality(S) IN
         /\ Window(i, u, S) \in SUBSET S
         /\ Window(i, 0, S) = {i}
         /\ u >= r - 1 => Window(i, u, S) = S
         /\ u + 1 < r => /\ Window(i, u + 1, S) = Window(Left(i, S), u, S) \cup {i}
                         /\ i \notin Window(Left(i, S), u, S)
<1> DEFINE r == Cardinality(S)
           p == Position(i, S)
           o == Position(Left(i, S), S)
<1>1. r \in Nat \ {0} /\ \A j \in S : Position(j, S) \in 0..(r - 1)
  BY PositionFacts
<1>2. \A j, k \in S : Position(j, S) = Position(k, S) => j = k
  BY PositionFacts
<1>3. o = IF p = 0 THEN r - 1 ELSE p - 1
  BY Neighbours
<1>4. \A v : Window(i, v, S) = {j \in S : Dist(r, p, Position(j, S)) <= v}
             /\ Window(Left(i, S), v, S) = {j \in S : Dist(r, o, Position(j, S)) <= v}
  BY DEF Window
<1>5. p \in 0..(r - 1)
  BY <1>1
<1> HIDE DEF r, p, o
<1>6. ASSUME NEW j \in S
      PROVE  LET d == Dist(r, p, Position(j, S))  f == Dist(r, o, Position(j, S)) IN
             /\ d \in 0..(r - 1) /\ f \in 0..(r - 1) /\ (d = 0 <=> j = i)
             /\ d = IF f = r - 1 THEN 0 ELSE f + 1
  <2>1. Position(j, S) \in 0..(r - 1)
    BY <1>1
  <2>2. p = Position(j, S) <=> j = i
    BY <1>2 DEF p
  <2>3. Dist(r, p, Position(j, S)) \in 0..(r - 1) /\ (Dist(r, p, Position(j, S)) = 0 <=> p = Position(j, S))
    BY <1>1, <1>5, <2>1, DistFacts
  <2>4. Dist(r, o, Position(j, S)) \in 0..(r - 1)
        /\ Dist(r, p, Position(j, S)) = IF Dist(r, o, Position(j, S)) = r - 1 THEN 0 ELSE Dist(r, o, Position(j, S)) + 1
    BY <1>1, <1>3, <1>5, <2>1, LeftShift
  <2> QED
    BY <2>2, <2>3, <2>4
<1>7. Window(i, u, S) \in SUBSET S
  BY <1>4
<1>8. Window(i, 0, S) = {i}
  <2>1. ASSUME NEW j \in S  PROVE Dist(r, p, Position(j, S)) <= 0 <=> j = i
    BY <1>1, <1>6
  <2> QED
    BY <1>4, <2>1
<1>9. ASSUME u >= r - 1  PROVE Window(i, u, S) = S
  <2>1. ASSUME NEW j \in S  PROVE Dist(r, p, Position(j, S)) <= u
    BY <1>1, <1>6, <1>9
  <2> QED
    BY <1>4, <2>1
<1>10. ASSUME u + 1 < r
       PROVE  /\ Window(i, u + 1, S) = Window(Left(i, S), u, S) \cup {i}
              /\ i \notin Window(Left(i, S), u, S)
  <2>1. ASSUME NEW j \in S
        PROVE  Dist(r, p, Position(j, S)) <= u + 1 <=> Dist(r, o, Position(j, S)) <= u \/ j = i
    BY <1>1, <1>6, <1>10
  <2>2. ~(Dist(r, o, Position(i, S)) <= u)
    BY <1>1, <1>6, <1>10
  <2> QED
    BY <1>4, <2>1, <2>2
<1> QED
  BY <1>7, <1>8, <1>9, <1>10 DEF r

-----------------------------------------------------------------------------
(* What a peer holds between its messages.                                 *)

(* The sum over one peer.                                                  *)
LEMMA SumOne ==
  ASSUME NEW g, NEW e, NEW i, g[i][e] \in Int
  PROVE  Sum(g, {i}, e) = g[i][e]
<1> DEFINE S == {i}
           f == [j \in S |-> g[j][e]]
<1>1. IsFiniteSet(S) /\ S \in SUBSET S /\ i \in S /\ {} \in SUBSET S /\ S \ {i} = {}
  BY FS_Singleton
<1>2. f \in [S -> Int] /\ f[i] = g[i][e]
  OBVIOUS
<1>3. \A j \in S : g[j][e] \in Int
  OBVIOUS
<1> HIDE DEF S
<1>4. PICK h \in [SUBSET S -> Int] : Adds(h, S, f)
  <2> HIDE DEF f
  <2> QED
    BY <1>1, <1>2, AddsExists
<1>5. Sum(g, S, e) = h[S]
  BY <1>1, <1>3, <1>4, SumIs
<1>6. h[S] = h[{}] + f[i] /\ h[{}] = 0
  <2> HIDE DEF f
  <2> QED
    BY <1>1, <1>4 DEF Adds
<1>7. f[i] \in Int
  BY <1>2
<1> HIDE DEF f
<1>8. h[S] = f[i]
  BY <1>6, <1>7
<1> QED
  BY <1>2, <1>5, <1>8 DEF S

(* Part and Shipped from one message to the next.                          *)
LEMMA PartFacts ==
  ASSUME NEW S \in SUBSET Nat, IsFiniteSet(S), NEW i \in S, NEW k \in Nat, k < Rounds(S),
         NEW u \in 0..(Cardinality(S) - 1)
  PROVE  LET r == Cardinality(S)  W == Shipped(Left(i, S), k, S) IN
         /\ Part(i, u, 0, S) = {i} /\ Part(i, u, Rounds(S), S) = S
         /\ u = (IF k < r THEN k ELSE k - r) => Part(i, u, k, S) = Shipped(i, k, S)
         /\ u # (IF k + 1 < r THEN k + 1 ELSE k + 1 - r) => Part(i, u, k + 1, S) = Part(i, u, k, S)
         /\ u = (IF k + 1 < r THEN k + 1 ELSE k + 1 - r) =>
              IF k >= r - 1 THEN Part(i, u, k + 1, S) = W
              ELSE Part(i, u, k, S) = {i} /\ i \notin W /\ Part(i, u, k + 1, S) = W \cup {i}
         /\ Shipped(i, k, S) \in SUBSET S /\ W \in SUBSET S
<1> DEFINE r == Cardinality(S)
           x == Left(i, S)
<1>1. r \in Nat \ {0} /\ x \in S /\ Rounds(S) = 2 * r - 2 /\ r > 1
  BY PositionFacts, Neighbours DEF Rounds
<1>2. Window(i, 0, S) = {i} /\ (\A v \in Nat : v >= r - 1 => Window(i, v, S) = S)
  BY WindowFacts
<1>3. \A v \in Nat : v >= r - 1 => Window(x, v, S) = S
  BY <1>1, WindowFacts
<1>4. k + 1 < r => Window(i, k + 1, S) = Window(x, k, S) \cup {i} /\ i \notin Window(x, k, S)
  BY WindowFacts
<1>5. Window(i, k, S) \in SUBSET S /\ Window(x, k, S) \in SUBSET S
  BY <1>1, WindowFacts
<1>6. \A s : Part(i, u, s, S) = IF r + u <= s THEN S ELSE IF u <= s THEN Window(i, u, S) ELSE {i}
  BY DEF Part
<1>7. /\ Shipped(i, k, S) = IF k < r THEN Window(i, k, S) ELSE S
      /\ Shipped(x, k, S) = IF k < r THEN Window(x, k, S) ELSE S
  BY DEF Shipped
<1> HIDE DEF r, x
<1>10. u \in 0..(r - 1)
  BY DEF r
<1>11. Part(i, u, 0, S) = {i}
  <2>1. ~(r + u <= 0) /\ (u <= 0 => u = 0)
    BY <1>1, <1>10
  <2> QED
    BY <1>2, <1>6, <2>1
<1>12. Part(i, u, Rounds(S), S) = S
  <2>1. ~(r + u <= 2 * r - 2) => u = r - 1 /\ u <= 2 * r - 2 /\ u \in Nat
    BY <1>1, <1>10
  <2> QED
    BY <1>1, <1>2, <1>6, <2>1
<1>13. u = (IF k < r THEN k ELSE k - r) => Part(i, u, k, S) = Shipped(i, k, S)
  <2>1. CASE k < r /\ u = k
    <3>1. ~(r + u <= k) /\ u <= k
      BY <1>1, <1>10, <2>1
    <3> QED
      BY <1>6, <1>7, <2>1, <3>1
  <2>2. CASE ~(k < r) /\ u = k - r
    <3>1. r + u <= k
      BY <1>1, <1>10, <2>2
    <3> QED
      BY <1>6, <1>7, <2>2, <3>1
  <2> QED
    BY <2>1, <2>2
<1>14. ASSUME u # (IF k + 1 < r THEN k + 1 ELSE k + 1 - r)
       PROVE  Part(i, u, k + 1, S) = Part(i, u, k, S)
  <2>1. CASE k + 1 < r
    <3>1. ~(r + u <= k) /\ ~(r + u <= k + 1) /\ (u <= k + 1 <=> u <= k)
      BY <1>1, <1>10, <1>14, <2>1
    <3> QED
      BY <1>6, <3>1
  <2>2. CASE ~(k + 1 < r)
    <3>1. (r + u <= k + 1 <=> r + u <= k) /\ u <= k + 1 /\ (u <= k \/ u = k + 1)
      BY <1>1, <1>10, <1>14, <2>2
    <3>2. u <= k
      BY <1>1, <1>10, <1>14, <2>2
    <3> QED
      BY <1>6, <3>1, <3>2
  <2> QED
    BY <2>1, <2>2
<1>15. ASSUME u = (IF k + 1 < r THEN k + 1 ELSE k + 1 - r), k >= r - 1
       PROVE  Part(i, u, k + 1, S) = Shipped(x, k, S)
  <2>1. r + u <= k + 1
    BY <1>1, <1>10, <1>15
  <2>2. Shipped(x, k, S) = S
    BY <1>3, <1>7, <1>15
  <2> QED
    BY <1>6, <2>1, <2>2
<1>16. ASSUME u = (IF k + 1 < r THEN k + 1 ELSE k + 1 - r), ~(k >= r - 1)
       PROVE  /\ Part(i, u, k, S) = {i} /\ i \notin Shipped(x, k, S)
              /\ Part(i, u, k + 1, S) = Shipped(x, k, S) \cup {i}
  <2>1. k + 1 < r /\ k < r /\ u = k + 1 /\ ~(r + u <= k) /\ ~(u <= k) /\ ~(r + u <= k + 1) /\ u <= k + 1
    BY <1>1, <1>10, <1>16
  <2> QED
    BY <1>4, <1>6, <1>7, <2>1
<1>17. Shipped(i, k, S) \in SUBSET S /\ Shipped(x, k, S) \in SUBSET S
  BY <1>5, <1>7
<1> QED
  BY <1>11, <1>12, <1>13, <1>14, <1>15, <1>16, <1>17 DEF r, x

(* The means of the clusters of a tree, level by level.                    *)
MeanOf(g, S) == [e \in Elements |-> Sum(g, S, e) \div Cardinality(S)]

Means(t, n, M) ==
  /\ \A i \in Indices(n) : M[0][i] = Gradient[i]
  /\ \A l \in DOMAIN t : \A i \in Indices(n) :
       /\ M[l][i] \in [Elements -> Int] /\ M[l + 1][i] \in [Elements -> Int]
       /\ M[l + 1][i] = IF InLevel(t, i, l) THEN MeanOf(M[l], ClusterOf(t, i, l)) ELSE M[l][i]

(* What a peer at b holds, and the message that is the next after s on a   *)
(* level, as long as nothing is lost; x is what the round returns.         *)
Value(t, M, x, i, b, v) ==
  /\ Rising(b) => LET S == ClusterOf(t, i, b.level) IN
       \A e \in Elements : v[e] = Sum(M[b.level], Part(i, Behind(i, e, S), b.step, S), e)
  /\ b.pc = "down" /\ b.level = Max(Path(t, i)) => v = M[b.level + 1][i]
  /\ b.pc = "done" \/ (b.pc = "down" /\ b.level < Max(Path(t, i))) => v = x

(* A peer takes the value of its level up to the next ring, or the top.    *)
LEMMA Lone ==
  ASSUME NEW n \in Nat, NEW t, SoundTree(t, n), NEW M, Means(t, n, M),
         NEW i \in Indices(n), NEW l \in Path(t, i), Cardinality(ClusterOf(t, i, l)) = 1
  PROVE  M[l + 1][i] = M[l][i]
<1> DEFINE S == ClusterOf(t, i, l)
<1>1. /\ l \in DOMAIN t /\ InLevel(t, i, l)
  BY PathFacts
<1>2. S = {i} /\ IsFiniteSet(S)
  BY RingOf DEF Indices
<1>3. M[l + 1][i] = MeanOf(M[l], S) /\ M[l][i] \in [Elements -> Int]
  BY <1>1 DEF Means
<1>4. ASSUME NEW e \in Elements  PROVE Sum(M[l], S, e) \div Cardinality(S) = M[l][i][e]
  <2>1. M[l][i][e] \in Int
    BY <1>3
  <2>2. Sum(M[l], {i}, e) = M[l][i][e]
    BY <2>1, SumOne
  <2>3. M[l][i][e] \div 1 = M[l][i][e]
    BY <2>1
  <2> QED
    BY <1>2, <2>2, <2>3
<1> QED
  BY <1>3, <1>4 DEF MeanOf

(* Levels on which a peer is alone leave its value as it is.               *)
LEMMA LoneUpTo ==
  ASSUME NEW n \in Nat, NEW t, SoundTree(t, n), NEW M, Means(t, n, M),
         NEW i \in Indices(n), NEW m \in Nat, NEW b \in Nat, m <= b, b <= Max(Path(t, i)) + 1,
         \A l \in Path(t, i) : l >= m /\ l < b => Cardinality(ClusterOf(t, i, l)) = 1
  PROVE  M[b][i] = M[m][i]
<1> DEFINE bad == {c \in m..b : M[c][i] # M[m][i]}
<1>1. bad = {}
  <2> SUFFICES ASSUME bad # {}  PROVE FALSE
    OBVIOUS
  <2>1. bad \in SUBSET Nat
    OBVIOUS
  <2>2. PICK c \in bad : \A d \in bad : c <= d
    BY <2>1, LeastNatural
  <2>3. c # m /\ c \in Nat /\ m <= c /\ c <= b
    OBVIOUS
  <2>4. c - 1 \in m..b /\ c - 1 \notin bad /\ c - 1 \in Nat /\ c - 1 >= m /\ c - 1 < b
    <3>1. c - 1 \in m..b /\ ~(c <= c - 1) /\ c - 1 < b /\ c - 1 >= m /\ c - 1 \in Nat
      BY <2>3
    <3> QED
      BY <2>2, <3>1
  <2>5. c - 1 \in Path(t, i)
    <3>1. Path(t, i) = 0..Max(Path(t, i)) /\ Max(Path(t, i)) \in Nat
      BY PathFacts
    <3> QED
      BY <2>4, <3>1
  <2>6. M[(c - 1) + 1][i] = M[c - 1][i]
    BY <2>4, <2>5, Lone
  <2>7. (c - 1) + 1 = c
    BY <2>3
  <2>8. M[c - 1][i] = M[m][i]
    BY <2>4
  <2> QED
    BY <2>6, <2>7, <2>8
<1>2. b \in m..b
  OBVIOUS
<1>3. b \notin bad
  BY <1>1, Zenon
<1> QED
  BY <1>2, <1>3

(* Up takes a peer to a place where its value is the mean so far.          *)
LEMMA UpValue ==
  ASSUME NEW n \in Nat, NEW t, SoundTree(t, n), NEW M, Means(t, n, M), NEW x,
         NEW i \in Indices(n), NEW m \in Nat, m <= Max(Path(t, i)) + 1
  PROVE  Value(t, M, x, i, Up(i, m, t), M[m][i])
<1> DEFINE b == Up(i, m, t)
           top == Max(Path(t, i))
<1>1. /\ b \in Place /\ b.step = 0 /\ b.level \in Path(t, i)
      /\ \/ /\ b.pc = "down" /\ b.level = top
            /\ \A l \in Path(t, i) : l >= m => Cardinality(ClusterOf(t, i, l)) = 1
         \/ /\ b.pc = "send" /\ b.level >= m /\ Cardinality(ClusterOf(t, i, b.level)) > 1
            /\ \A l \in Path(t, i) : l >= m /\ l < b.level => Cardinality(ClusterOf(t, i, l)) = 1
  BY UpFacts
<1>2. top \in Nat /\ Path(t, i) = 0..top
  BY PathFacts
<1> HIDE DEF b
<1>3. CASE b.pc = "down"
  <2>1. b.level = top /\ \A l \in Path(t, i) : l >= m => Cardinality(ClusterOf(t, i, l)) = 1
    BY <1>1, <1>3
  <2>2. top + 1 \in Nat /\ top + 1 <= top + 1
    BY <1>2
  <2>3. M[top + 1][i] = M[m][i]
    BY <2>1, <2>2, LoneUpTo
  <2>4. ~Rising(b) /\ ~(b.level < top) /\ b.pc # "done"
    BY <1>2, <1>3, <2>1 DEF Rising
  <2> QED
    BY <2>1, <2>3, <2>4 DEF Value, b
<1>4. CASE b.pc # "down"
  <2> DEFINE L == b.level
             S == ClusterOf(t, i, L)
  <2>1. /\ b.pc = "send" /\ L >= m /\ Cardinality(S) > 1 /\ L \in Path(t, i)
        /\ \A l \in Path(t, i) : l >= m /\ l < L => Cardinality(ClusterOf(t, i, l)) = 1
    BY <1>1, <1>4
  <2>2. L \in Nat /\ m <= L /\ L <= top + 1
    BY <1>2, <2>1
  <2>3. M[L][i] = M[m][i]
    BY <2>1, <2>2, LoneUpTo
  <2>4. S \in SUBSET Nat /\ IsFiniteSet(S) /\ i \in S /\ L \in DOMAIN t /\ Cardinality(S) \in Nat
    BY <2>1, RingOf DEF Indices
  <2>5. M[L][i] \in [Elements -> Int]
    BY <2>4 DEF Means
  <2>6. ASSUME NEW e \in Elements
        PROVE  M[L][i][e] = Sum(M[L], Part(i, Behind(i, e, S), 0, S), e)
    <3>1. 0 < Rounds(S)
      BY <2>1, <2>4 DEF Rounds
    <3>2. Behind(i, e, S) \in 0..(Cardinality(S) - 1)
      BY <2>4, <3>1, ChunkSent
    <3>3. Part(i, Behind(i, e, S), 0, S) = {i}
      BY <2>4, <3>1, <3>2, PartFacts
    <3>4. Sum(M[L], {i}, e) = M[L][i][e]
      BY <2>5, SumOne
    <3> QED
      BY <3>3, <3>4
  <2>7. Rising(b) /\ b.pc # "down" /\ b.pc # "done" /\ b.step = 0
    BY <1>1, <2>1 DEF Rising
  <2> QED
    BY <2>3, <2>6, <2>7 DEF Value, b
<1> QED
  BY <1>3, <1>4

-----------------------------------------------------------------------------
(* What a message carries.                                                 *)

(* Peer i of the ring S held old for the element e, and takes the chunk C  *)
(* with the value got for it as its message number k: it now holds new.    *)
TakesElement(S, i, k, g, e, old, C, got, new) ==
  /\ Numbers(S, g, e)
  /\ old = Sum(g, Part(i, Behind(i, e, S), k, S), e)
  /\ C = Chunk(SendIndex(Left(i, S), S, k), Cardinality(S))
  /\ e \in C => got = Sum(g, Shipped(Left(i, S), k, S), e)
  /\ e \notin C => new = old
  /\ e \in C => new = IF k >= Cardinality(S) - 1 THEN got ELSE old + got

(* What a peer holds after a message of its ring: the chunk it received    *)
(* stands for one peer more, or for all.                                   *)
LEMMA RingElement ==
  ASSUME NEW S \in SUBSET Nat, IsFiniteSet(S), NEW i \in S, NEW k \in Nat, k < Rounds(S),
         NEW e \in Elements, NEW g, NEW old, NEW C, NEW got, NEW new,
         TakesElement(S, i, k, g, e, old, C, got, new)
  PROVE  new = Sum(g, Part(i, Behind(i, e, S), k + 1, S), e)
<1>0. /\ Numbers(S, g, e)
      /\ old = Sum(g, Part(i, Behind(i, e, S), k, S), e)
      /\ C = Chunk(SendIndex(Left(i, S), S, k), Cardinality(S))
      /\ e \in C => got = Sum(g, Shipped(Left(i, S), k, S), e)
      /\ e \notin C => new = old
      /\ e \in C => new = IF k >= Cardinality(S) - 1 THEN got ELSE old + got
  BY DEF TakesElement
<1> DEFINE r == Cardinality(S)
           u == Behind(i, e, S)
           W == Shipped(Left(i, S), k, S)
           next == IF k + 1 < r THEN k + 1 ELSE k + 1 - r
<1>1. u \in 0..(r - 1) /\ (e \in C <=> u = next)
  BY <1>0, ChunkSent
<1>2. /\ u # next => Part(i, u, k + 1, S) = Part(i, u, k, S)
      /\ u = next => IF k >= r - 1 THEN Part(i, u, k + 1, S) = W
                     ELSE Part(i, u, k, S) = {i} /\ i \notin W /\ Part(i, u, k + 1, S) = W \cup {i}
      /\ W \in SUBSET S
  BY <1>1, PartFacts
<1>3. /\ old = Sum(g, Part(i, u, k, S), e)
      /\ e \in C => got = Sum(g, W, e)
  BY <1>0
<1> HIDE DEF u, W, next, r
<1>4. CASE u # next
  BY <1>0, <1>1, <1>2, <1>3, <1>4 DEF u
<1>5. CASE u = next /\ k >= r - 1
  BY <1>0, <1>1, <1>2, <1>3, <1>5 DEF u, r
<1>6. CASE u = next /\ ~(k >= r - 1)
  <2>1. Sum(g, W, e) \in Int /\ Sum(g, W \cup {i}, e) = Sum(g, W, e) + g[i][e]
    <3>1. W \in SUBSET S /\ i \notin W
      BY <1>2, <1>6
    <3>2. Numbers(S, g, e)
      BY <1>0
    <3>3. Without(S, g, e, W, i)
      BY <3>1, <3>2 DEF Without
    <3> QED
      BY <3>3, SumWithout
  <2>2. g[i][e] \in Int
    BY <1>0 DEF Numbers
  <2>3. old = Sum(g, {i}, e)
    BY <1>2, <1>3, <1>6
  <2>4. old = g[i][e]
    BY <2>2, <2>3, SumOne
  <2>5. old + got = Sum(g, W \cup {i}, e)
    BY <1>1, <1>3, <1>6, <2>1, <2>2, <2>4
  <2> QED
    BY <1>0, <1>1, <1>2, <1>6, <2>5 DEF u, r
<1> QED
  BY <1>4, <1>5, <1>6

(* The same for the whole gradient v of a peer: w is v with the message m. *)
Takes(S, i, k, g, v, m, w) ==
  /\ DOMAIN m = Chunk(SendIndex(Left(i, S), S, k), Cardinality(S))
  /\ \A e \in Elements : Numbers(S, g, e)
  /\ \A e \in Elements : v[e] = Sum(g, Part(i, Behind(i, e, S), k, S), e)
  /\ \A e \in DOMAIN m : m[e] = Sum(g, Shipped(Left(i, S), k, S), e)
  /\ \A e \in Elements : w[e] = IF e \notin DOMAIN m THEN v[e]
                                ELSE IF k >= Cardinality(S) - 1 THEN m[e] ELSE v[e] + m[e]

(* A peer that takes the next message holds one more of its window.        *)
LEMMA RingTaken ==
  ASSUME NEW S \in SUBSET Nat, IsFiniteSet(S), NEW i \in S, NEW k \in Nat, k < Rounds(S),
         NEW g, NEW v, NEW m, NEW w, Takes(S, i, k, g, v, m, w)
  PROVE  \A e \in Elements : w[e] = Sum(g, Part(i, Behind(i, e, S), k + 1, S), e)
<1> SUFFICES ASSUME NEW e \in Elements  PROVE w[e] = Sum(g, Part(i, Behind(i, e, S), k + 1, S), e)
  OBVIOUS
<1> DEFINE old == v[e]
           got == m[e]
           C == DOMAIN m
           new == w[e]
<1>1. TakesElement(S, i, k, g, e, old, C, got, new)
  BY DEF Takes, TakesElement
<1> HIDE DEF old, got, C, new
<1>2. new = Sum(g, Part(i, Behind(i, e, S), k + 1, S), e)
  BY <1>1, RingElement
<1> QED
  BY <1>2 DEF new

(* After the last message of its ring a peer holds the mean of its cluster. *)
LEMMA RingMean ==
  ASSUME NEW S \in SUBSET Nat, IsFiniteSet(S), NEW i \in S, Cardinality(S) > 1, NEW g,
         NEW w, \A e \in Elements : w[e] = Sum(g, Part(i, Behind(i, e, S), Rounds(S), S), e)
  PROVE  Averaged(w, Cardinality(S)) = MeanOf(g, S)
<1>1. 0 < Rounds(S) /\ 0 \in Nat
  BY PositionFacts DEF Rounds
<1>2. ASSUME NEW e \in Elements  PROVE w[e] = Sum(g, S, e)
  <2>1. Behind(i, e, S) \in 0..(Cardinality(S) - 1)
    BY <1>1, ChunkSent
  <2>2. Part(i, Behind(i, e, S), Rounds(S), S) = S
    BY <1>1, <2>1, PartFacts
  <2> QED
    BY <2>2
<1> QED
  BY <1>2 DEF Averaged, MeanOf

(* The message that is the next after s from y to z on level l.            *)
Message(t, M, x, safe, y, z, l, s, m) ==
  LET S == ClusterOf(t, y, l) IN
    IF z = Right(y, S) /\ s < Rounds(S)
    THEN /\ m \in [Chunk(SendIndex(y, S, s), Cardinality(S)) -> Int]
         /\ safe => \A e \in DOMAIN m : m[e] = Sum(M[l], Shipped(y, s, S), e)
    ELSE m \in [Elements -> Int] /\ (safe => m = x)
Messages(t, M, x, safe, a, c) ==
  \A y, z \in Index : \A l \in Path(t, y) : Meet(t, y, z, l) =>
    \A q \in 1..Len(c[y][z]) : Message(t, M, x, safe, y, z, l, Got(t, a, y, z, l) + q - 1, c[y][z][q])

(* A message that is right where it is appended is right when it is its    *)
(* turn.                                                                   *)
LEMMA Posted ==
  ASSUME NEW n \in 0..MaxPeers, NEW t, SoundTree(t, n), NEW M, NEW x, NEW safe \in BOOLEAN,
         NEW a, NEW b, NEW c, NEW d,
         NEW i \in Indices(n), NEW L \in Path(t, i), NEW To \in SUBSET (ClusterOf(t, i, L) \ {i}), NEW m,
         a \in [Index -> Place], Balanced(t, a, c), Channels(c), Added(c, d, i, To, m),
         GotKept(t, a, b),
         \A z \in To : Message(t, M, x, safe, i, z, L, Sent(t, a, i, z, L), m),
         Messages(t, M, x, safe, a, c)
  PROVE  Messages(t, M, x, safe, b, d)
<1> SUFFICES ASSUME NEW y \in Index, NEW z \in Index, NEW l \in Path(t, y), Meet(t, y, z, l),
                    NEW q \in 1..Len(d[y][z])
             PROVE  Message(t, M, x, safe, y, z, l, Got(t, b, y, z, l) + q - 1, d[y][z][q])
  BY DEF Messages
<1>0. n \in Nat /\ MaxPeers \in Nat /\ Index = Indices(MaxPeers) /\ y \in Nat
  BY ReduceAssumption DEF Index, Indices
<1>1. Got(t, b, y, z, l) = Got(t, a, y, z, l)
  BY DEF GotKept
<1>2. \A p \in 1..Len(c[y][z]) : Message(t, M, x, safe, y, z, l, Got(t, a, y, z, l) + p - 1, c[y][z][p])
  BY DEF Messages
<1>3. CASE ~(y = i /\ z \in To)
  <2>1. d[y][z] = c[y][z]
    BY <1>3 DEF Added
  <2> QED
    BY <1>1, <1>2, <2>1
<1>4. CASE y = i /\ z \in To
  <2>1. d[y][z] = Append(c[y][z], m) /\ Len(d[y][z]) = Len(c[y][z]) + 1
    BY <1>4 DEF Added
  <2>2. Queue(c[y][z])
    BY DEF Channels
  <2>3. /\ Len(c[y][z]) \in Nat /\ Append(c[y][z], m)[Len(c[y][z]) + 1] = m
        /\ \A p \in 1..Len(c[y][z]) : Append(c[y][z], m)[p] = c[y][z][p]
    BY <2>2, QueueFacts
  <2>4. l = L
    <3>1. z \in ClusterOf(t, i, l) /\ z \in ClusterOf(t, i, L) /\ z # i
      BY <1>4 DEF Meet
    <3>2. z \in Indices(n)
      BY <1>0, <1>4, <3>1, RingOf
    <3> QED
      BY <1>0, <1>4, <3>1, <3>2, MeetOnce
  <2>5. CASE q \in 1..Len(c[y][z])
    BY <1>1, <1>2, <2>1, <2>3, <2>5
  <2>6. CASE q \notin 1..Len(c[y][z])
    <3>1. q = Len(c[y][z]) + 1
      BY <2>1, <2>3, <2>6
    <3>2. Len(c[y][z]) = Sent(t, a, y, z, l) - Got(t, a, y, z, l)
      BY DEF Balanced
    <3>3. Sent(t, a, y, z, l) \in Nat /\ Got(t, a, y, z, l) \in Nat
      <4>1. a[y] \in Place /\ a[z] \in Place /\ y \in Indices(n)
        BY <1>4
      <4> QED
        BY <1>0, <4>1, CountsInt
    <3> DEFINE got == Got(t, a, y, z, l)
               sent == Sent(t, a, y, z, l)
               len == Len(c[y][z])
    <3>4. got + q - 1 = sent
      <4> HIDE DEF got, sent, len
      <4> QED
        BY <2>3, <3>1, <3>2, <3>3 DEF got, sent, len
    <3>5. d[y][z][q] = m
      BY <2>1, <2>3, <3>1
    <3>6. Message(t, M, x, safe, y, z, l, sent, m)
      BY <1>4, <2>4
    <3> QED
      BY <1>1, <3>4, <3>5, <3>6
  <2> QED
    BY <2>5, <2>6
<1> QED
  BY <1>3, <1>4

(* The message at the head is the one whose turn it is.                    *)
LEMMA Fetched ==
  ASSUME NEW n \in 0..MaxPeers, NEW t, SoundTree(t, n), NEW M, NEW x, NEW safe \in BOOLEAN, NEW safeNow \in BOOLEAN,
         safeNow => safe, NEW a, NEW b, NEW c, NEW d,
         NEW i \in Indices(n), NEW L \in Path(t, i), NEW from \in ClusterOf(t, i, L) \ {i},
         a \in [Index -> Place], Channels(c), c[from][i] # << >>, Removed(c, d, from, i),
         GotOne(t, a, b, from, i, L),
         Messages(t, M, x, safe, a, c)
  PROVE  Messages(t, M, x, safeNow, b, d)
<1> SUFFICES ASSUME NEW y \in Index, NEW z \in Index, NEW l \in Path(t, y), Meet(t, y, z, l),
                    NEW q \in 1..Len(d[y][z])
             PROVE  Message(t, M, x, safeNow, y, z, l, Got(t, b, y, z, l) + q - 1, d[y][z][q])
  BY DEF Messages
<1>0. n \in Nat /\ MaxPeers \in Nat /\ Index = Indices(MaxPeers) /\ y \in Nat
  BY ReduceAssumption DEF Index, Indices
<1>1. Got(t, b, y, z, l) = Got(t, a, y, z, l) + IF z = i /\ l = L /\ y = from THEN 1 ELSE 0
  BY DEF GotOne
<1>2. \A p \in 1..Len(c[y][z]) : Message(t, M, x, safe, y, z, l, Got(t, a, y, z, l) + p - 1, c[y][z][p])
  BY DEF Messages
<1>3. \A s, m : Message(t, M, x, safe, y, z, l, s, m) => Message(t, M, x, safeNow, y, z, l, s, m)
  BY DEF Message
<1>4. Got(t, a, y, z, l) \in Nat
  <2>1. a[y] \in Place /\ a[z] \in Place
    OBVIOUS
  <2>2. y \in Indices(n)
    BY <1>0, RingOf
  <2> QED
    BY <1>0, <2>1, <2>2, CountsInt
<1>5. CASE ~(y = from /\ z = i)
  <2>1. d[y][z] = c[y][z] /\ Got(t, b, y, z, l) = Got(t, a, y, z, l)
    BY <1>1, <1>4, <1>5 DEF Removed
  <2> QED
    BY <1>2, <1>3, <2>1
<1>6. CASE y = from /\ z = i
  <2>1. d[y][z] = Tail(c[y][z]) /\ Len(d[y][z]) = Len(c[y][z]) - 1
    BY <1>6 DEF Removed
  <2>2. Queue(c[y][z])
    BY DEF Channels
  <2>3. /\ Len(c[y][z]) \in Nat
        /\ \A p \in 1..(Len(c[y][z]) - 1) : Tail(c[y][z])[p] = c[y][z][p + 1]
    BY <1>6, <2>2, QueueFacts
  <2>4. l = L
    <3>1. ClusterOf(t, y, L) = ClusterOf(t, i, L) /\ y \in Indices(n) /\ L \in Path(t, y)
      <4>1. i \in Nat /\ y \in ClusterOf(t, i, L)
        BY <1>0, <1>6 DEF Indices
      <4> QED
        BY <1>0, <4>1, RingOf
    <3>2. z \in ClusterOf(t, y, l) /\ z \in ClusterOf(t, y, L) /\ y # z
      <4>1. i \in ClusterOf(t, i, L)
        BY <1>0, RingOf DEF Indices
      <4> QED
        BY <1>6, <3>1, <4>1 DEF Meet
    <3> QED
      BY <1>0, <1>6, <3>1, <3>2, MeetOnce
  <2>5. Got(t, b, y, z, l) = Got(t, a, y, z, l) + 1
    BY <1>1, <1>6, <2>4
  <2> DEFINE got == Got(t, a, y, z, l)
             len == Len(c[y][z])
  <2>6. q + 1 \in 1..len /\ q \in 1..(len - 1) /\ got + (q + 1) - 1 = (got + 1) + q - 1
    <3>1. got \in Nat /\ len \in Nat
      BY <1>4, <2>3
    <3>2. q \in 1..(len - 1)
      BY <2>1
    <3> HIDE DEF got, len
    <3> QED
      BY <3>1, <3>2
  <2>7. d[y][z][q] = c[y][z][q + 1]
    BY <2>1, <2>3, <2>6
  <2>8. Message(t, M, x, safeNow, y, z, l, got + (q + 1) - 1, c[y][z][q + 1])
    BY <1>2, <1>3, <2>6
  <2> QED
    BY <2>5, <2>6, <2>7, <2>8
<1> QED
  BY <1>5, <1>6

-----------------------------------------------------------------------------
(* The actions keep what is held and what is under way.                    *)

TopMean(t, n, M, x) ==
  \A i \in Indices(n) : Max(Path(t, i)) + 1 \notin DOMAIN t => M[Max(Path(t, i)) + 1][i] = x

(* What the peers hold and what is under way.                              *)
Holdings(M, x) ==
  /\ grad \in [Index -> [Elements -> Int]] /\ lost \in Nat
  /\ Messages(tree, M, x, lost = 0, at, channel)
  /\ lost = 0 => \A i \in Indices(n_participants) : Value(tree, M, x, i, at[i], grad[i])

(* RingSend sends the sum of a window.                                     *)
LEMMA HoldRingSend ==
  ASSUME RoundInv, NEW i \in Index, RingSend(i),
         NEW M, Means(tree, n_participants, M), NEW x, Holdings(M, x)
  PROVE  Holdings(M, x)'
<1> DEFINE n == n_participants
           L == at[i].level
           k == at[i].step
           S == ClusterOf(tree, i, L)
           m == RingMessage(grad[i], i, S, k)
           To == {Right(i, S)}
           safe == lost = 0
<1>1. /\ tree # NoTree /\ n \in 0..MaxPeers /\ n \in Nat /\ i \in Indices(n) /\ SoundTree(tree, n) /\ i \in Nat
      /\ at \in [Index -> Place] /\ at[i] \in Place /\ Indices(n) \subseteq Index
      /\ Balanced(tree, at, channel) /\ Channels(channel)
  BY Active DEF RingSend
<1>2. at[i].pc = "send" /\ InRing(tree, i, at[i]) /\ L \in Path(tree, i) /\ Cardinality(S) > 1
  BY SendingPeer DEF Rising, RingSend
<1>3. k \in Nat /\ L \in Nat /\ k < Rounds(S)
  BY <1>1, <1>2 DEF InRing, Place
<1>4. /\ OnlyMoves(i, at, at') /\ at'[i] = [at[i] EXCEPT !.pc = "recv"] /\ GotKept(tree, at, at')
      /\ Added(channel, channel', i, To, m) /\ UNCHANGED <<tree, n_participants, grad, lost>>
  BY RingSendMoves DEF RingSend
<1>5. S \in SUBSET Nat /\ IsFiniteSet(S) /\ i \in S
  BY <1>1, <1>2, RingOf
<1>6. To \in SUBSET (S \ {i})
  BY <1>2, <1>5, Neighbours
<1>7. grad[i] \in [Elements -> Int] /\ (safe => Value(tree, M, x, i, at[i], grad[i])) /\ safe \in BOOLEAN
  BY <1>1 DEF Holdings
<1>8. Sent(tree, at, i, Right(i, S), L) = k
  <2>1. UpSent(at[i], L, S) = k /\ Told(at[i], L) = 0
    BY <1>2, <1>3 DEF UpSent, UpGot, Told, Rising, Falling
  <2> QED
    BY <1>3, <2>1 DEF Sent
<1>9. Message(tree, M, x, safe, i, Right(i, S), L, k, m)
  <2> DEFINE C == Chunk(SendIndex(i, S, k), Cardinality(S))
  <2>1. C \subseteq Elements
    BY DEF Chunk
  <2>2. DOMAIN m = C /\ m \in [C -> Int] /\ \A e \in C : m[e] = grad[i][e]
    BY <1>7, <2>1 DEF RingMessage
  <2>3. ASSUME safe, NEW e \in C  PROVE m[e] = Sum(M[L], Shipped(i, k, S), e)
    <3>1. e \in Elements
      BY <2>1
    <3>2. grad[i][e] = Sum(M[L], Part(i, Behind(i, e, S), k, S), e)
      BY <1>2, <1>7, <2>3, <3>1 DEF Value, Rising
    <3>3. /\ Behind(i, e, S) \in 0..(Cardinality(S) - 1)
          /\ Behind(i, e, S) = IF k < Cardinality(S) THEN k ELSE k - Cardinality(S)
      BY <1>3, <1>5, <2>3, <3>1, ChunkSent
    <3>4. Part(i, Behind(i, e, S), k, S) = Shipped(i, k, S)
      BY <1>3, <1>5, <3>3, PartFacts
    <3> QED
      BY <2>2, <3>2, <3>4
  <2> HIDE DEF m, C
  <2> QED
    BY <1>3, <2>2, <2>3 DEF Message, C
<1>10. Messages(tree, M, x, safe, at, channel)
  BY DEF Holdings
<1> HIDE DEF n, L, k, S, m, To, safe
<1>11. \A z \in To : Message(tree, M, x, safe, i, z, L, Sent(tree, at, i, z, L), m)
  BY <1>8, <1>9 DEF To
<1>12. Messages(tree, M, x, safe, at', channel')
  BY <1>1, <1>2, <1>4, <1>6, <1>7, <1>10, <1>11, Posted DEF S
<1>13. ASSUME safe, NEW j \in Indices(n)  PROVE Value(tree, M, x, j, at'[j], grad[j])
  <2>1. Value(tree, M, x, j, at[j], grad[j])
    BY <1>13 DEF Holdings, safe, n
  <2>2. CASE j # i
    BY <1>1, <1>4, <2>1, <2>2 DEF OnlyMoves
  <2>3. CASE j = i
    <3>1. at'[i].pc = "recv" /\ at'[i].level = at[i].level /\ at'[i].step = at[i].step
      BY <1>1, <1>4 DEF Place
    <3> QED
      BY <1>2, <2>1, <2>3, <3>1 DEF Value, Rising
  <2> QED
    BY <2>2, <2>3
<1> QED
  BY <1>4, <1>12, <1>13 DEF Holdings, safe, n

(* A loss keeps the types.                                                 *)
LEMMA HoldRingReceive ==
  ASSUME RoundInv, NEW i \in Index, RingReceive(i),
         NEW M, Means(tree, n_participants, M), NEW x, Holdings(M, x)
  PROVE  Holdings(M, x)'
<1> DEFINE n == n_participants
           L == at[i].level
           k == at[i].step
           S == ClusterOf(tree, i, L)
           r == Cardinality(S)
           y == Left(i, S)
           m == Head(channel[y][i])
           safe == lost = 0
           safeNow == lost' = 0
<1>1. /\ tree # NoTree /\ n \in 0..MaxPeers /\ n \in Nat /\ i \in Indices(n) /\ SoundTree(tree, n) /\ i \in Nat
      /\ at \in [Index -> Place] /\ at[i] \in Place /\ Indices(n) \subseteq Index
      /\ Channels(channel)
  BY Active DEF RingReceive
<1>2. at[i].pc = "recv" /\ InRing(tree, i, at[i]) /\ L \in Path(tree, i) /\ r > 1
  BY SendingPeer DEF Rising, RingReceive
<1>3. k \in Nat /\ L \in Nat /\ k < Rounds(S)
  BY <1>1, <1>2 DEF InRing, Place
<1>4. /\ OnlyMoves(i, at, at') /\ GotOne(tree, at, at', y, i, L)
      /\ channel[y][i] # << >> /\ Removed(channel, channel', y, i)
      /\ UNCHANGED <<tree, n_participants>>
  BY RingReceiveMoves
<1>5. S \in SUBSET Nat /\ S \in SUBSET Indices(n) /\ IsFiniteSet(S) /\ i \in S /\ r \in Nat
      /\ \A z \in S : L \in Path(tree, z) /\ ClusterOf(tree, z, L) = S
  BY <1>1, <1>2, RingOf
<1>6. y \in S \ {i} /\ Right(y, S) = i
  BY <1>2, <1>5, Neighbours
<1>7. grad \in [Index -> [Elements -> Int]] /\ lost \in Nat /\ safe \in BOOLEAN /\ safeNow \in BOOLEAN
      /\ (safe => Value(tree, M, x, i, at[i], grad[i]))
  BY <1>1 DEF Holdings
<1>8. Got(tree, at, y, i, L) = k
  <2>1. UpGot(at[i], L, S) = k /\ Told(at[i], L) = 0
    BY <1>2, <1>3 DEF UpGot, Told, Rising, Falling
  <2>2. ClusterOf(tree, y, L) = S
    BY <1>5, <1>6
  <2> QED
    BY <1>3, <1>6, <2>1, <2>2 DEF Got
<1> DEFINE C == Chunk(SendIndex(y, S, k), r)
<1>9. m \in [C -> Int] /\ C \subseteq Elements /\ (safe => \A e \in C : m[e] = Sum(M[L], Shipped(y, k, S), e))
  <2>1. Queue(channel[y][i]) /\ y \in Index /\ L \in Path(tree, y) /\ ClusterOf(tree, y, L) = S
    BY <1>1, <1>5, <1>6 DEF Channels
  <2>2. Len(channel[y][i]) \in Nat \ {0} /\ m = channel[y][i][1]
    BY <1>4, <2>1, QueueFacts
  <2>3. Meet(tree, y, i, L)
    BY <1>5, <1>6, <2>1 DEF Meet
  <2>4. 1 \in 1..Len(channel[y][i])
    BY <2>2
  <2>5. Message(tree, M, x, safe, y, i, L, Got(tree, at, y, i, L) + 1 - 1, channel[y][i][1])
    BY <2>1, <2>3, <2>4 DEF Holdings, Messages
  <2>6. Message(tree, M, x, safe, y, i, L, k, m)
    BY <1>3, <1>8, <2>2, <2>5
  <2> HIDE DEF m, safe
  <2>7. m \in [C -> Int] /\ (safe => \A e \in DOMAIN m : m[e] = Sum(M[L], Shipped(y, k, S), e))
    BY <1>3, <1>6, <2>1, <2>6 DEF Message
  <2> QED
    BY <2>7 DEF Chunk
<1>10. Messages(tree, M, x, safe, at, channel)
  BY DEF Holdings
<1> DEFINE w == Received(i, S, m)
<1>11. \/ AfterStep(i, S, w) /\ lost' = lost
       \/ AfterStep(i, S, grad[i]) /\ lost' = lost + 1
  BY DEF RingReceive, Ring
<1>12. safeNow => safe /\ AfterStep(i, S, w)
  BY <1>7, <1>11
<1>13. lost' \in Nat
  BY <1>7, <1>11
<1>14. w \in [Elements -> Int]
  <2>1. ASSUME NEW e \in Elements
        PROVE  (IF e \notin DOMAIN m THEN grad[i][e]
                ELSE IF Gathering(S, at[i].step) THEN m[e] ELSE grad[i][e] + m[e]) \in Int
    <3>1. grad[i][e] \in Int /\ (e \in DOMAIN m => m[e] \in Int)
      BY <1>7, <1>9
    <3> QED
      BY <3>1
  <2> HIDE DEF m
  <2> QED
    BY <2>1 DEF Received
<1>15. ASSUME NEW g \in [Elements -> Int]  PROVE Averaged(g, r) \in [Elements -> Int]
  <2>1. ASSUME NEW e \in Elements  PROVE g[e] \div r \in Int
    <3>1. g[e] \in Int /\ r \in Nat \ {0}
      BY <1>2, <1>5
    <3> HIDE DEF r
    <3> QED
      BY <3>1
  <2> QED
    BY <2>1 DEF Averaged
<1>16. /\ grad' \in [Index -> [Elements -> Int]] /\ \A j \in Index \ {i} : grad'[j] = grad[j]
  <2>1. \E g \in [Elements -> Int] : AfterStep(i, S, g)
    BY <1>7, <1>11, <1>14
  <2>2. PICK g \in [Elements -> Int] : AfterStep(i, S, g)
    BY <2>1
  <2>3. \E h \in [Elements -> Int] : grad' = [grad EXCEPT ![i] = h]
    <3>1. grad' = [grad EXCEPT ![i] = g] \/ grad' = [grad EXCEPT ![i] = Averaged(g, r)]
      BY <2>2 DEF AfterStep
    <3> QED
      BY <1>15, <3>1
  <2> QED
    BY <1>7, <2>3
<1> HIDE DEF n, L, S, y, m, safe, safeNow, w
<1>17. Messages(tree, M, x, safeNow, at', channel')
  BY <1>1, <1>2, <1>4, <1>6, <1>7, <1>10, <1>12, Fetched DEF S
<1>18. ASSUME safeNow  PROVE Value(tree, M, x, i, at'[i], grad'[i])
  <2>1. safe /\ AfterStep(i, S, w)
    BY <1>12, <1>18
  <2>2. \A e \in Elements : grad[i][e] = Sum(M[L], Part(i, Behind(i, e, S), k, S), e)
    BY <1>2, <1>7, <2>1 DEF Value, Rising, L, S
  <2>3. \A e \in Elements : w[e] = IF e \notin DOMAIN m THEN grad[i][e]
                                   ELSE IF k >= r - 1 THEN m[e] ELSE grad[i][e] + m[e]
    BY DEF w, Received, Gathering
  <2>4. DOMAIN m = C /\ \A e \in DOMAIN m : m[e] = Sum(M[L], Shipped(y, k, S), e)
    BY <1>9, <2>1
  <2> HIDE DEF k
  <2>5. S = ClusterOf(tree, i, L)
    BY DEF S
  <2> DEFINE v == grad[i]
  <2>6. \A e \in Elements : v[e] = Sum(M[L], Part(i, Behind(i, e, S), k, S), e)
    BY <2>2
  <2>7. \A e \in Elements : w[e] = IF e \notin DOMAIN m THEN v[e]
                                   ELSE IF k >= Cardinality(S) - 1 THEN m[e] ELSE v[e] + m[e]
    BY <2>3
  <2>8. DOMAIN m = Chunk(SendIndex(Left(i, S), S, k), Cardinality(S))
        /\ \A e \in DOMAIN m : m[e] = Sum(M[L], Shipped(Left(i, S), k, S), e)
    BY <2>4 DEF y
  <2> DEFINE g == M[L]
  <2>12. \A e \in Elements : Numbers(S, g, e)
    BY <1>1, <1>2, <1>5, PathFacts DEF Means, Numbers, n, S
  <2>13. S \in SUBSET Nat /\ IsFiniteSet(S) /\ i \in S
    BY <1>5 DEF S
  <2> HIDE DEF v, g
  <2>14. /\ \A e \in Elements : v[e] = Sum(g, Part(i, Behind(i, e, S), k, S), e)
         /\ \A e \in DOMAIN m : m[e] = Sum(g, Shipped(Left(i, S), k, S), e)
    BY <2>6, <2>8 DEF g
  <2>15. \A e \in Elements : w[e] = Sum(g, Part(i, Behind(i, e, S), k + 1, S), e)
    <3>1. Takes(S, i, k, g, v, m, w)
      BY <2>7, <2>8, <2>12, <2>14 DEF Takes
    <3>2. k \in Nat /\ k < Rounds(S)
      BY <1>3
    <3> QED
      BY <2>13, <3>1, <3>2, RingTaken
  <2>9. \A e \in Elements : w[e] = Sum(M[L], Part(i, Behind(i, e, S), k + 1, S), e)
    BY <2>15 DEF g
  <2>10. CASE k < LastStep(S)
    <3>1. grad' = [grad EXCEPT ![i] = w] /\ at' = [at EXCEPT ![i].pc = "send", ![i].step = @ + 1]
      BY <2>1, <2>10 DEF AfterStep, k
    <3>2. grad'[i] = w /\ at'[i] = [at[i] EXCEPT !.pc = "send", !.step = @ + 1]
      BY <1>1, <1>7, <3>1
    <3>3. at'[i].pc = "send" /\ at'[i].level = L /\ at'[i].step = k + 1
      BY <1>1, <3>2 DEF Place, L, k
    <3> QED
      BY <2>9, <3>2, <3>3 DEF Value, Rising, S
  <2>11. CASE ~(k < LastStep(S))
    <3>1. grad' = [grad EXCEPT ![i] = Averaged(w, Cardinality(S))] /\ at' = [at EXCEPT ![i] = Up(i, L + 1, tree)]
      BY <2>1, <2>11 DEF AfterStep, k, L
    <3>2. grad'[i] = Averaged(w, Cardinality(S)) /\ at'[i] = Up(i, L + 1, tree)
      BY <1>1, <1>7, <3>1
    <3>3. k + 1 = Rounds(S)
      BY <1>3, <1>5, <2>11 DEF LastStep, Rounds
    <3>4. Averaged(w, Cardinality(S)) = M[L + 1][i]
      <4>1. \A e \in Elements : w[e] = Sum(M[L], Part(i, Behind(i, e, S), Rounds(S), S), e)
        BY <2>9, <3>3
      <4>2. Averaged(w, Cardinality(S)) = MeanOf(M[L], S)
        BY <1>2, <2>13, <4>1, RingMean DEF r, S
      <4>3. L \in DOMAIN tree /\ InLevel(tree, i, L)
        BY <1>1, <1>2, PathFacts DEF n
      <4> QED
        BY <1>1, <2>5, <4>2, <4>3 DEF Means, n
    <3>5. L + 1 \in Nat /\ L + 1 <= Max(Path(tree, i)) + 1
      <4>1. Path(tree, i) = 0..Max(Path(tree, i)) /\ Max(Path(tree, i)) \in Nat
        BY <1>1, PathFacts
      <4> QED
        BY <1>2, <4>1
    <3>6. Value(tree, M, x, i, Up(i, L + 1, tree), M[L + 1][i])
      BY <1>1, <3>5, UpValue DEF n
    <3> QED
      BY <3>2, <3>4, <3>6
  <2> QED
    BY <2>10, <2>11
<1>19. ASSUME safeNow, NEW j \in Indices(n)  PROVE Value(tree, M, x, j, at'[j], grad'[j])
  <2>1. CASE j = i
    BY <1>18, <1>19, <2>1
  <2>2. CASE j # i
    <3>1. Value(tree, M, x, j, at[j], grad[j])
      BY <1>12, <1>19 DEF Holdings, safe, n
    <3>2. at'[j] = at[j] /\ grad'[j] = grad[j]
      BY <1>1, <1>4, <1>16, <2>2 DEF OnlyMoves
    <3> QED
      BY <3>1, <3>2
  <2> QED
    BY <2>1, <2>2
<1> QED
  BY <1>4, <1>13, <1>16, <1>17, <1>19 DEF Holdings, safeNow, n

(* On the way down: a leader has the result of the round, and only a peer  *)
(* that does not lead its highest cluster is told.                         *)
LEMMA LeaderHolds ==
  ASSUME RoundInv, NEW i \in Index, at[i].pc = "down", i = Leader(ClusterOf(tree, i, at[i].level)),
         NEW M, NEW x, TopMean(tree, n_participants, M, x),
         NEW v, Value(tree, M, x, i, at[i], v)
  PROVE  v = x
<1> DEFINE n == n_participants
           L == at[i].level
           top == Max(Path(tree, i))
<1>1. n \in Nat /\ i \in Indices(n) /\ SoundTree(tree, n) /\ PlaceOf(tree, i, at[i]) /\ at[i] \in Place
  BY Active
<1>2. L \in Path(tree, i)
  BY <1>1 DEF PlaceOf, Rising
<1>3. /\ Path(tree, i) = 0..top /\ top \in Nat
      /\ top + 1 \in DOMAIN tree => i # Leader(ClusterOf(tree, i, top))
  BY <1>1, PathFacts
<1>4. CASE L < top
  BY <1>4 DEF Value
<1>5. CASE L = top
  <2>1. top + 1 \notin DOMAIN tree
    BY <1>3, <1>5
  <2>2. M[top + 1][i] = x
    BY <1>1, <2>1 DEF TopMean
  <2>3. v = M[top + 1][i]
    BY <1>5 DEF Value
  <2> QED
    BY <2>2, <2>3
<1>6. L < top \/ L = top
  <2> HIDE DEF L, top
  <2> QED
    BY <1>2, <1>3
<1> QED
  BY <1>4, <1>5, <1>6

(* A peer that goes down holds what the round returns.                     *)
LEMMA DownValue ==
  ASSUME RoundInv, NEW i \in Index, at[i].pc = "down", NEW M, NEW x
  PROVE  Value(tree, M, x, i, Down(at[i].level), x)
<1> DEFINE n == n_participants
           L == at[i].level
           top == Max(Path(tree, i))
           b == Down(L)
<1>1. n \in Nat /\ i \in Indices(n) /\ SoundTree(tree, n) /\ PlaceOf(tree, i, at[i]) /\ at[i] \in Place
  BY Active
<1>2. L \in Path(tree, i) /\ L \in Nat
  BY <1>1 DEF PlaceOf, Rising, Place
<1>3. Path(tree, i) = 0..top /\ top \in Nat
  BY <1>1, PathFacts
<1>4. CASE L = 0
  BY <1>4 DEF Down, Done, Waiting, Value, Rising
<1>5. CASE L # 0
  <2>1. b.pc = "down" /\ b.level = L - 1
    BY <1>5 DEF Down
  <2>2. b.level # top /\ b.level < top
    BY <1>2, <1>3, <1>5, <2>1
  <2> HIDE DEF b, top
  <2> QED
    BY <2>1, <2>2 DEF Value, Rising, b, top
<1> QED
  BY <1>4, <1>5

(* Broadcast sends what the round returns.                                 *)
LEMMA HoldBroadcast ==
  ASSUME RoundInv, NEW i \in Index, Broadcast(i),
         NEW M, Means(tree, n_participants, M), NEW x, TopMean(tree, n_participants, M, x), Holdings(M, x)
  PROVE  Holdings(M, x)'
<1> DEFINE n == n_participants
           L == at[i].level
           S == ClusterOf(tree, i, L)
           m == grad[i]
           To == S \ {i}
           safe == lost = 0
<1>1. /\ tree # NoTree /\ n \in 0..MaxPeers /\ n \in Nat /\ i \in Indices(n) /\ SoundTree(tree, n) /\ i \in Nat
      /\ at \in [Index -> Place] /\ at[i] \in Place /\ Indices(n) \subseteq Index
      /\ Balanced(tree, at, channel) /\ Channels(channel)
  BY Active DEF Broadcast
<1>2. at[i].pc = "down" /\ i = Leader(S)
  BY DEF Broadcast, Ring
<1>3. at' = [at EXCEPT ![i] = Down(L)] /\ UNCHANGED <<tree, n_participants, grad, lost>>
  BY DEF Broadcast
<1>4. /\ OnlyMoves(i, at, at') /\ L \in Path(tree, i) /\ GotKept(tree, at, at')
      /\ Added(channel, channel', i, To, m)
  BY BroadcastMoves
<1>5. m \in [Elements -> Int] /\ safe \in BOOLEAN /\ (safe => Value(tree, M, x, i, at[i], m))
  BY <1>1 DEF Holdings
<1>6. safe => m = x
  <2> HIDE DEF m
  <2> QED
    BY <1>2, <1>5, LeaderHolds
<1>7. ASSUME NEW z \in To  PROVE Message(tree, M, x, safe, i, z, L, Sent(tree, at, i, z, L), m)
  <2>1. /\ z = Right(i, S) => Sent(tree, at, i, z, L) = Rounds(S)
    <3>1. Told(at[i], L) = 0 /\ UpSent(at[i], L, S) = Rounds(S) /\ Rounds(S) \in Nat
      <4>1. L \in Nat /\ Rounds(S) \in Nat
        BY <1>1, <1>4, RingOf
      <4> QED
        BY <1>2, <4>1 DEF Told, UpSent, UpGot, Falling
    <3> QED
      BY <1>2, <3>1 DEF Sent
  <2>2. ~(z = Right(i, S) /\ Sent(tree, at, i, z, L) < Rounds(S))
    <3>1. Rounds(S) \in Nat
      BY <1>1, <1>4, RingOf
    <3> QED
      BY <2>1, <3>1
  <2> HIDE DEF m, safe
  <2> QED
    BY <1>5, <1>6, <2>2 DEF Message
<1>8. Messages(tree, M, x, safe, at, channel)
  BY DEF Holdings
<1> HIDE DEF n, L, S, m, To, safe
<1>9. To \in SUBSET (ClusterOf(tree, i, L) \ {i})
  BY DEF To, S
<1>10. Messages(tree, M, x, safe, at', channel')
  BY <1>1, <1>4, <1>5, <1>7, <1>8, <1>9, Posted
<1>11. ASSUME safe, NEW j \in Indices(n)  PROVE Value(tree, M, x, j, at'[j], grad[j])
  <2>1. CASE j = i
    BY <1>1, <1>2, <1>3, <1>6, <1>11, <2>1, DownValue DEF L, m
  <2>2. CASE j # i
    <3>1. Value(tree, M, x, j, at[j], grad[j])
      BY <1>11 DEF Holdings, safe, n
    <3> QED
      BY <1>1, <1>4, <2>2, <3>1 DEF OnlyMoves
  <2> QED
    BY <2>1, <2>2
<1> QED
  BY <1>3, <1>10, <1>11 DEF Holdings, safe, n

(* ReceiveBroadcast takes what the round returns over.                     *)
LEMMA HoldReceiveBroadcast ==
  ASSUME RoundInv, NEW i \in Index, ReceiveBroadcast(i),
         NEW M, Means(tree, n_participants, M), NEW x, TopMean(tree, n_participants, M, x), Holdings(M, x)
  PROVE  Holdings(M, x)'
<1> DEFINE n == n_participants
           L == at[i].level
           S == ClusterOf(tree, i, L)
           y == Leader(S)
           m == Head(channel[y][i])
           safe == lost = 0
           safeNow == lost' = 0
<1>1. /\ tree # NoTree /\ n \in 0..MaxPeers /\ n \in Nat /\ i \in Indices(n) /\ SoundTree(tree, n) /\ i \in Nat
      /\ at \in [Index -> Place] /\ at[i] \in Place /\ Indices(n) \subseteq Index
      /\ Channels(channel)
  BY Active DEF ReceiveBroadcast
<1>2. at[i].pc = "down" /\ i # y
  BY DEF ReceiveBroadcast, Ring
<1>3. at' = [at EXCEPT ![i] = Down(L)] /\ UNCHANGED <<tree, n_participants>>
  BY DEF ReceiveBroadcast
<1>4. /\ OnlyMoves(i, at, at') /\ L \in Path(tree, i) /\ GotOne(tree, at, at', y, i, L)
      /\ channel[y][i] # << >> /\ Removed(channel, channel', y, i)
  BY ReceiveBroadcastMoves
<1>5. S \in SUBSET Nat /\ S \in SUBSET Indices(n) /\ IsFiniteSet(S) /\ i \in S /\ y \in S /\ Rounds(S) \in Nat
      /\ \A z \in S : L \in Path(tree, z) /\ ClusterOf(tree, z, L) = S
  BY <1>1, <1>4, RingOf
<1>6. grad \in [Index -> [Elements -> Int]] /\ lost \in Nat /\ safe \in BOOLEAN /\ safeNow \in BOOLEAN
  BY DEF Holdings
<1>7. i = Right(y, S) => Got(tree, at, y, i, L) = Rounds(S)
  <2>1. UpGot(at[i], L, S) = Rounds(S) /\ Told(at[i], L) = 0
    <3>1. L \in Nat
      BY <1>1, <1>4, RingOf
    <3> QED
      BY <1>2, <3>1 DEF UpGot, Told, Falling
  <2>2. ClusterOf(tree, y, L) = S
    BY <1>5
  <2> QED
    BY <1>5, <2>1, <2>2 DEF Got
<1>8. m \in [Elements -> Int] /\ (safe => m = x)
  <2>1. Queue(channel[y][i]) /\ y \in Index /\ L \in Path(tree, y) /\ ClusterOf(tree, y, L) = S
    BY <1>1, <1>5 DEF Channels
  <2>2. Len(channel[y][i]) \in Nat \ {0} /\ m = channel[y][i][1]
    BY <1>4, <2>1, QueueFacts
  <2>3. Meet(tree, y, i, L)
    BY <1>2, <1>5, <2>1 DEF Meet
  <2>4. 1 \in 1..Len(channel[y][i])
    BY <2>2
  <2>5. Message(tree, M, x, safe, y, i, L, Got(tree, at, y, i, L) + 1 - 1, channel[y][i][1])
    BY <2>1, <2>3, <2>4 DEF Holdings, Messages
  <2>6. ~(i = Right(y, S) /\ Got(tree, at, y, i, L) + 1 - 1 < Rounds(S))
    BY <1>5, <1>7
  <2> HIDE DEF m, safe
  <2> QED
    BY <2>1, <2>2, <2>5, <2>6 DEF Message
<1>9. Messages(tree, M, x, safe, at, channel)
  BY DEF Holdings
<1>10. \/ grad' = [grad EXCEPT ![i] = m] /\ lost' = lost
       \/ grad' = grad /\ lost' = lost + 1
  BY DEF ReceiveBroadcast, Ring
<1>11. /\ lost' \in Nat /\ grad' \in [Index -> [Elements -> Int]]
       /\ \A j \in Index \ {i} : grad'[j] = grad[j]
       /\ safeNow => safe /\ grad'[i] = m
  <2> HIDE DEF m
  <2> QED
    BY <1>6, <1>8, <1>10
<1> HIDE DEF n, L, S, y, m, safe, safeNow
<1>12. Messages(tree, M, x, safeNow, at', channel')
  <2>1. y \in ClusterOf(tree, i, L) \ {i}
    BY <1>2, <1>5 DEF S
  <2> QED
    BY <1>1, <1>4, <1>6, <1>9, <1>11, <2>1, Fetched
<1>13. ASSUME safeNow, NEW j \in Indices(n)  PROVE Value(tree, M, x, j, at'[j], grad'[j])
  <2>1. CASE j = i
    <3>1. at'[i] = Down(at[i].level) /\ grad'[i] = x
      BY <1>1, <1>3, <1>8, <1>11, <1>13 DEF L
    <3> QED
      BY <1>2, <2>1, <3>1, DownValue
  <2>2. CASE j # i
    <3>1. Value(tree, M, x, j, at[j], grad[j])
      BY <1>11, <1>13 DEF Holdings, safe, n
    <3>2. at'[j] = at[j] /\ grad'[j] = grad[j]
      BY <1>1, <1>4, <1>11, <2>2 DEF OnlyMoves
    <3> QED
      BY <3>1, <3>2
  <2> QED
    BY <2>1, <2>2
<1> QED
  BY <1>3, <1>11, <1>12, <1>13 DEF Holdings, safeNow, n

-----------------------------------------------------------------------------
(* The means that Averaging promises.                                      *)

(* The mean of Averaging is a sum divided.                                 *)
LEMMA PromiseMean ==
  ASSUME NEW g, NEW S
  PROVE  Promise!Mean(g, S) = [e \in DOMAIN g[Min(S)] |-> Sum(g, S, e) \div Cardinality(S)]
<1> DEFINE mean == [e \in DOMAIN g[Min(S)] |-> Sum(g, S, e) \div Cardinality(S)]
<1>1. Promise!Cardinality(S) = Cardinality(S) /\ Promise!Min(S) = Min(S)
  BY DEF Promise!Cardinality, Cardinality, Promise!Min, Min
<1>2. ASSUME NEW e \in DOMAIN g[Min(S)]  PROVE Promise!Mean(g, S)[e] = mean[e]
  BY <1>1 DEF Promise!Mean, Promise!FoldSet, FoldSet, MapThenFoldSet, Promise!MapThenFoldSet, Sum
<1>3. Promise!Mean(g, S) = [e \in DOMAIN g[Min(S)] |-> Promise!Mean(g, S)[e]]
  BY <1>1 DEF Promise!Mean
<1>4. mean = [e \in DOMAIN g[Min(S)] |-> mean[e]]
  OBVIOUS
<1> HIDE DEF mean
<1>5. Promise!Mean(g, S) = mean
  BY <1>2, <1>3, <1>4
<1> QED
  BY <1>5 DEF mean

(* Averaging and AllReduce read the tree alike.                            *)
LEMMA PromiseTree ==
  ASSUME NEW n \in Nat \ {0}, SoundTree(tree, n)
  PROVE  /\ Promise!Members = Indices(n)
         /\ \A i, l : /\ Promise!InLevel(tree, i, l) = InLevel(tree, i, l)
                      /\ Promise!ClusterOf(tree, i, l) = ClusterOf(tree, i, l)
         /\ \A S : Promise!Leader(S) = Leader(S)
         /\ Promise!Cardinality(DOMAIN tree) = Cardinality(DOMAIN tree)
<1>1. \A i, l : /\ Promise!InLevel(tree, i, l) = InLevel(tree, i, l)
                /\ Promise!ClusterOf(tree, i, l) = ClusterOf(tree, i, l)
  BY DEF Promise!InLevel, InLevel, Promise!ClusterOf, ClusterOf
<1>2. \A S : Promise!Leader(S) = Leader(S)
  BY DEF Promise!Leader, Leader, Promise!Min, Min
<1>3. Promise!Cardinality(DOMAIN tree) = Cardinality(DOMAIN tree)
  BY DEF Promise!Cardinality, Cardinality
<1>4. PICK depth \in Nat \ {0} :
        /\ DOMAIN tree = Indices(depth)
        /\ \A l \in Indices(depth) : \E N \in Nat : SoundLevel(tree[l], N, Indices(n))
        /\ \A i \in Indices(n) : InLevel(tree, i, 0)
  BY DEF SoundTree
<1>5. 0 \in Indices(depth)
  BY IndexSet
<1>6. PICK N \in Nat : SoundLevel(tree[0], N, Indices(n))
  BY <1>4, <1>5
<1>7. DOMAIN tree[0] = Indices(N) /\ \A c \in Indices(N) : tree[0][c] \subseteq Indices(n)
  BY <1>6 DEF SoundLevel
<1>8. \A i \in Indices(n) : \E c \in DOMAIN tree[0] : i \in tree[0][c]
  BY <1>4 DEF InLevel
<1>9. Promise!Members = Indices(n)
  BY <1>7, <1>8 DEF Promise!Members
<1> QED
  BY <1>1, <1>2, <1>3, <1>9

(* The recursion of MeanOfMeans, which CHOOSE hides.                       *)
LEMMA MeansStep ==
  ASSUME NEW n \in Nat \ {0}, SoundTree(tree, n)
  PROVE  LET M == Promise!MeanOfMeans IN
         /\ M[0] = Gradient
         /\ \A l \in DOMAIN tree :
              M[l + 1] = [i \in Indices(n) |-> IF InLevel(tree, i, l)
                                               THEN Promise!Mean(M[l], ClusterOf(tree, i, l))
                                               ELSE M[l][i]]
<1> DEFINE next(g, l) == [i \in Indices(n) |-> IF InLevel(tree, i, l - 1)
                                               THEN Promise!Mean(g, ClusterOf(tree, i, l - 1))
                                               ELSE g[i]]
           means(g, m) == g = [l \in 0..m |-> IF l = 0 THEN Gradient ELSE next(g[l - 1], l)]
           bad == {m \in Nat : ~ \E g : means(g, m)}
<1>1. PICK depth \in Nat \ {0} : DOMAIN tree = Indices(depth) /\ Cardinality(DOMAIN tree) = depth
  BY IndexSet DEF SoundTree
<1>2. Promise!MeanOfMeans = CHOOSE g : means(g, depth)
  BY <1>1, PromiseTree DEF Promise!MeanOfMeans
<1> HIDE DEF next
<1>3. bad = {}
  <2> SUFFICES ASSUME bad # {}  PROVE FALSE
    OBVIOUS
  <2>1. bad \in SUBSET Nat
    OBVIOUS
  <2>2. PICK m \in bad : \A e \in bad : m <= e
    BY <2>1, LeastNatural
  <2>3. m \in Nat /\ ~ \E g : means(g, m)
    OBVIOUS
  <2>4. m # 0
    <3>1. means([l \in 0..0 |-> Gradient], 0)
      OBVIOUS
    <3> HIDE DEF means
    <3> QED
      BY <2>3, <3>1
  <2>5. m - 1 \in Nat /\ m - 1 \notin bad
    <3>1. m - 1 \in Nat /\ ~(m <= m - 1)
      BY <2>3, <2>4
    <3> QED
      BY <2>2, <3>1
  <2>6. PICK g : means(g, m - 1)
    BY <2>5
  <2> DEFINE h == [l \in 0..m |-> IF l = 0 THEN Gradient ELSE next(g[l - 1], l)]
  <2>7. \A l \in 0..m : l # 0 => l - 1 \in 0..(m - 1) /\ l - 1 \in 0..m
    BY <2>3
  <2>8. \A l \in 0..(m - 1) : h[l] = g[l]
    <3>1. \A l \in 0..(m - 1) : l \in 0..m
      BY <2>3
    <3> QED
      BY <2>6, <3>1
  <2>9. means(h, m)
    BY <2>7, <2>8
  <2> HIDE DEF h, means
  <2> QED
    BY <2>3, <2>9
<1>4. depth \notin bad
  BY <1>3, Zenon
<1>5. means(Promise!MeanOfMeans, depth)
  <2> HIDE DEF means
  <2> QED
    BY <1>2, <1>4
<1> DEFINE M == Promise!MeanOfMeans
<1>6. M[0] = Gradient
  <2>1. 0 \in 0..depth
    OBVIOUS
  <2> QED
    BY <1>5, <2>1
<1>7. ASSUME NEW l \in DOMAIN tree  PROVE M[l + 1] = next(M[l], l + 1)
  <2>1. l + 1 \in 0..depth /\ l + 1 # 0 /\ (l + 1) - 1 = l
    BY <1>1 DEF Indices
  <2> QED
    BY <1>5, <2>1
<1>8. \A l \in DOMAIN tree : (l + 1) - 1 = l
  BY <1>1 DEF Indices
<1> QED
  BY <1>6, <1>7, <1>8 DEF next

(* MeanOfMeans is the means of the clusters, level by level.               *)
LEMMA MeansHold ==
  ASSUME NEW n \in Nat \ {0}, n <= MaxPeers, SoundTree(tree, n)
  PROVE  /\ Means(tree, n, Promise!MeanOfMeans)
         /\ TopMean(tree, n, Promise!MeanOfMeans, Promise!Expected)
<1> DEFINE M == Promise!MeanOfMeans
           typed(l) == \A i \in Indices(n) : M[l][i] \in [Elements -> Int]
           bad == {l \in Nat : l - 1 \in DOMAIN tree /\ ~typed(l)}
<1>0. n \in Nat /\ MaxPeers \in Nat /\ Indices(n) \subseteq Index /\ Indices(n) \subseteq Nat
  BY ReduceAssumption DEF Index, Indices
<1>1. PICK depth \in Nat \ {0} :
        /\ DOMAIN tree = Indices(depth) /\ Cardinality(DOMAIN tree) = depth
        /\ DOMAIN tree[depth - 1] = {0}
  BY IndexSet DEF SoundTree
<1>2. M[0] = Gradient
  BY MeansStep
<1>3. ASSUME NEW l \in DOMAIN tree, NEW i \in Indices(n), typed(l)
      PROVE  M[l + 1][i] = IF InLevel(tree, i, l) THEN MeanOf(M[l], ClusterOf(tree, i, l)) ELSE M[l][i]
  <2>1. M[l + 1][i] = IF InLevel(tree, i, l) THEN Promise!Mean(M[l], ClusterOf(tree, i, l)) ELSE M[l][i]
    BY <1>3, MeansStep
  <2>2. ASSUME InLevel(tree, i, l)
        PROVE  Promise!Mean(M[l], ClusterOf(tree, i, l)) = MeanOf(M[l], ClusterOf(tree, i, l))
    <3> DEFINE S == ClusterOf(tree, i, l)
    <3>1. S \in SUBSET Indices(n) /\ Leader(S) \in S
      BY <1>0, <1>3, <2>2, ClusterFacts
    <3>2. DOMAIN M[l][Min(S)] = Elements
      BY <1>3, <3>1 DEF Leader
    <3> HIDE DEF S, M
    <3> QED
      BY <3>2, PromiseMean DEF MeanOf, S
  <2> QED
    BY <2>1, <2>2
<1>4. typed(0)
  BY <1>0, <1>2, ReduceAssumption
<1>5. ASSUME NEW l \in DOMAIN tree, typed(l)  PROVE typed(l + 1)
  <2> SUFFICES ASSUME NEW i \in Indices(n)  PROVE M[l + 1][i] \in [Elements -> Int]
    OBVIOUS
  <2>1. CASE ~InLevel(tree, i, l)
    BY <1>3, <1>5, <2>1
  <2>2. CASE InLevel(tree, i, l)
    <3> DEFINE S == ClusterOf(tree, i, l)
               g == M[l]
    <3>1. S \in SUBSET Indices(n) /\ S \in SUBSET Nat /\ IsFiniteSet(S) /\ i \in S
      BY <1>0, <1>5, <2>2, ClusterFacts
    <3>2. Cardinality(S) \in Nat \ {0}
      BY <3>1, PositionFacts
    <3>3. ASSUME NEW e \in Elements  PROVE Sum(g, S, e) \div Cardinality(S) \in Int
      <4>1. Numbers(S, g, e)
        BY <1>5, <3>1 DEF Numbers
      <4> HIDE DEF S, g
      <4>2. Sum(g, S, e) \in Int
        BY <3>1, <4>1, SumTyped
      <4> DEFINE sum == Sum(g, S, e)
                 r == Cardinality(S)
      <4>3. sum \in Int /\ r \in Nat \ {0}
        BY <3>2, <4>2
      <4> HIDE DEF sum, r
      <4>4. sum \div r \in Int
        BY <4>3
      <4> QED
        BY <4>4 DEF sum, r
    <3> HIDE DEF g, S
    <3>4. MeanOf(g, S) \in [Elements -> Int]
      BY <3>3 DEF MeanOf
    <3> QED
      BY <1>3, <1>5, <2>2, <3>4 DEF g, S
  <2> QED
    BY <2>1, <2>2
<1> HIDE DEF typed
<1>6. bad = {}
  <2> SUFFICES ASSUME bad # {}  PROVE FALSE
    OBVIOUS
  <2>1. bad \in SUBSET Nat
    OBVIOUS
  <2>2. PICK l \in bad : \A e \in bad : l <= e
    BY <2>1, LeastNatural
  <2>3. l \in Nat /\ l - 1 \in DOMAIN tree /\ ~typed(l)
    OBVIOUS
  <2>4. l # 0 /\ l - 1 \in Nat /\ ~(l <= l - 1) /\ (l - 1) + 1 = l
    BY <1>1, <2>3 DEF Indices
  <2>5. typed(l - 1)
    <3>1. CASE l - 1 = 0
      BY <1>4, <3>1
    <3>2. CASE l - 1 # 0
      <4>1. (l - 1) - 1 \in DOMAIN tree
        BY <1>1, <2>3, <2>4, <3>2 DEF Indices
      <4> QED
        BY <2>2, <2>4, <4>1
    <3> QED
      BY <3>1, <3>2
  <2>6. typed((l - 1) + 1)
    BY <1>5, <2>3, <2>5
  <2> QED
    BY <2>3, <2>4, <2>6
<1>7. ASSUME NEW l \in DOMAIN tree  PROVE typed(l) /\ typed(l + 1)
  <2>1. l \in Nat /\ (l = 0 \/ l - 1 \in DOMAIN tree) /\ l + 1 \in Nat /\ (l + 1) - 1 \in DOMAIN tree
    BY <1>1, <1>7 DEF Indices
  <2>2. typed(l)
    BY <1>4, <1>6, <2>1
  <2> QED
    BY <1>5, <2>2
<1>8. Means(tree, n, M)
  <2>1. ASSUME NEW l \in DOMAIN tree, NEW i \in Indices(n)
        PROVE  /\ M[l][i] \in [Elements -> Int] /\ M[l + 1][i] \in [Elements -> Int]
               /\ M[l + 1][i] = IF InLevel(tree, i, l) THEN MeanOf(M[l], ClusterOf(tree, i, l)) ELSE M[l][i]
    <3>1. typed(l) /\ typed(l + 1)
      BY <1>7
    <3> QED
      BY <1>3, <3>1 DEF typed
  <2> HIDE DEF M
  <2> QED
    BY <1>2, <2>1 DEF Means
<1>9. TopMean(tree, n, M, Promise!Expected)
  <2> SUFFICES ASSUME NEW i \in Indices(n), Max(Path(tree, i)) + 1 \notin DOMAIN tree
               PROVE  M[Max(Path(tree, i)) + 1][i] = Promise!Expected
    BY DEF TopMean
  <2> DEFINE top == Max(Path(tree, i))
             S == ClusterOf(tree, i, top)
             root == Leader(tree[depth - 1][0])
  <2>1. top \in Nat /\ top \in DOMAIN tree /\ InLevel(tree, i, top) /\ top \in Path(tree, i)
    <3>1. top \in Nat /\ Path(tree, i) = 0..top
      BY <1>0, PathFacts
    <3>2. top \in 0..top
      BY <3>1
    <3> QED
      BY <1>0, <3>1, <3>2, PathFacts
  <2>2. top = depth - 1 /\ top + 1 = depth
    BY <1>1, <2>1 DEF Indices
  <2>3. S = tree[depth - 1][0] /\ S \in SUBSET Indices(n) /\ Leader(S) \in S
        /\ \A j \in S : InLevel(tree, j, top) /\ ClusterOf(tree, j, top) = S
    <3>1. /\ \E c \in DOMAIN tree[top] : tree[top][c] = S
          /\ S \in SUBSET Indices(n) /\ Leader(S) \in S
          /\ \A j \in S : InLevel(tree, j, top) /\ ClusterOf(tree, j, top) = S
      BY <1>0, <2>1, ClusterFacts
    <3> QED
      BY <1>1, <2>2, <3>1
  <2>4. Promise!Root = root
    BY <1>1, PromiseTree DEF Promise!Root
  <2>5. Promise!Expected = M[depth][root]
    BY <1>1, <2>4, PromiseTree DEF Promise!Expected
  <2>6. root \in S /\ root \in Indices(n)
    BY <2>3
  <2> HIDE DEF M, S, top, root
  <2>7. M[top + 1][i] = MeanOf(M[top], S) /\ M[top + 1][root] = MeanOf(M[top], S)
    <3>1. InLevel(tree, root, top) /\ ClusterOf(tree, root, top) = S /\ ClusterOf(tree, i, top) = S
      BY <2>3, <2>6 DEF S
    <3> QED
      BY <1>8, <2>1, <2>6, <3>1 DEF Means
  <2> QED
    BY <2>2, <2>5, <2>7 DEF top
<1> QED
  BY <1>8, <1>9

-----------------------------------------------------------------------------
(* A round keeps the promise of Averaging.                                 *)

MeansInv ==
  tree # NoTree => /\ Means(tree, n_participants, Promise!MeanOfMeans)
                   /\ TopMean(tree, n_participants, Promise!MeanOfMeans, Promise!Expected)
HoldInv ==
  /\ grad \in [Index -> [Elements -> Int]]
  /\ tree = NoTree => grad = Gradient /\ lost = 0
  /\ tree # NoTree => Holdings(Promise!MeanOfMeans, Promise!Expected)

(* In every state of a round Averaging promises the means of a sound tree. *)
LEMMA MeansAlways == RoundInv => MeansInv
<1> SUFFICES ASSUME RoundInv, tree # NoTree
             PROVE  /\ Means(tree, n_participants, Promise!MeanOfMeans)
                    /\ TopMean(tree, n_participants, Promise!MeanOfMeans, Promise!Expected)
  BY DEF MeansInv
<1> DEFINE n == n_participants
<1>1. n \in Nat \ {0} /\ n <= MaxPeers /\ SoundTree(tree, n)
  BY ReduceAssumption DEF RoundInv, TreeInv
<1> HIDE DEF n
<1>2. /\ Means(tree, n, Promise!MeanOfMeans)
      /\ TopMean(tree, n, Promise!MeanOfMeans, Promise!Expected)
  BY <1>1, MeansHold
<1> QED
  BY <1>2 DEF n

(* The promise depends on the tree alone.                                  *)
LEMMA SameTree ==
  ASSUME tree' = tree
  PROVE  Promise!MeanOfMeans' = Promise!MeanOfMeans /\ Promise!Expected' = Promise!Expected
<1>1. Promise!MeanOfMeans' = Promise!MeanOfMeans
  BY DEF Promise!MeanOfMeans, Promise!Members
<1>2. Promise!Root' = Promise!Root
  BY DEF Promise!Root
<1> QED
  BY <1>1, <1>2 DEF Promise!Expected

(* A step of a peer keeps what all hold.                                   *)
LEMMA HoldStep ==
  ASSUME RoundInv, MeansInv, HoldInv, NEW i \in Index, Step(i)
  PROVE  HoldInv'
<1> PICK M : M = Promise!MeanOfMeans
  OBVIOUS
<1> PICK x : x = Promise!Expected
  OBVIOUS
<1>1. tree' = tree /\ tree # NoTree
  <2>1. at[i].pc # "waiting"
    BY DEF Step, RingSend, RingReceive, Broadcast, ReceiveBroadcast
  <2> QED
    BY <2>1, Active DEF Step, RingSend, RingReceive, Broadcast, ReceiveBroadcast
<1>2. Means(tree, n_participants, M) /\ TopMean(tree, n_participants, M, x) /\ Holdings(M, x)
  BY <1>1 DEF MeansInv, HoldInv
<1>3. Holdings(M, x)'
  BY <1>2, HoldRingSend, HoldRingReceive, HoldBroadcast, HoldReceiveBroadcast DEF Step
<1>4. M = Promise!MeanOfMeans' /\ x = Promise!Expected'
  BY <1>1, SameTree
<1>5. Holdings(Promise!MeanOfMeans, Promise!Expected)'
  BY <1>3, <1>4 DEF Holdings
<1>6. grad' \in [Index -> [Elements -> Int]]
  BY <1>3 DEF Holdings
<1> QED
  BY <1>1, <1>5, <1>6 DEF HoldInv

(* finalize: everybody holds its own gradient.                             *)
LEMMA HoldFinalize ==
  ASSUME RoundInv, HoldInv, MeansInv', Finalize
  PROVE  HoldInv'
<1> PICK M : M = Promise!MeanOfMeans'
  OBVIOUS
<1> PICK x : x = Promise!Expected'
  OBVIOUS
<1> DEFINE n == n_participants
<1>1. tree = NoTree /\ n \in 0..MaxPeers /\ MaxPeers \in Nat
  BY ReduceAssumption DEF Finalize, RoundInv, TreeInv
<1>2. tree' # NoTree /\ SoundTree(tree', n) /\ n > 0 /\ n \in Nat
  BY <1>1, FinalizeTree
<1>3. /\ at' = [i \in Index |-> IF i < n THEN Up(i, 0, tree') ELSE Waiting]
      /\ channel' = channel /\ n_participants' = n /\ grad' = grad /\ lost' = lost
  BY DEF Finalize
<1>4. grad = Gradient /\ lost = 0 /\ grad \in [Index -> [Elements -> Int]]
      /\ \A i, j \in Index : channel[i][j] = << >>
  BY <1>1 DEF HoldInv, RoundInv, ChannelsInv
<1>5. Means(tree', n, M)
  BY <1>2, <1>3 DEF MeansInv
<1> HIDE DEF n
<1>6. Messages(tree', M, x, lost' = 0, at', channel')
  <2>1. \A y, z \in Index : Len(channel'[y][z]) = 0
    BY <1>3, <1>4
  <2> QED
    BY <2>1 DEF Messages
<1>7. ASSUME NEW i \in Indices(n)  PROVE Value(tree', M, x, i, at'[i], grad'[i])
  <2>1. i \in Index /\ i < n /\ at'[i] = Up(i, 0, tree')
    BY <1>1, <1>2, <1>3 DEF Index, Indices
  <2>2. M[0][i] = grad'[i]
    BY <1>3, <1>4, <1>5 DEF Means
  <2>3. 0 \in Nat /\ 0 <= Max(Path(tree', i)) + 1
    <3>1. Max(Path(tree', i)) \in Nat
      BY <1>2, PathFacts
    <3> QED
      BY <3>1
  <2>4. Value(tree', M, x, i, Up(i, 0, tree'), M[0][i])
    BY <1>2, <1>5, <2>3, UpValue
  <2> QED
    BY <2>1, <2>2, <2>4
<1>8. Holdings(Promise!MeanOfMeans, Promise!Expected)'
  BY <1>3, <1>4, <1>6, <1>7 DEF Holdings
<1> QED
  BY <1>2, <1>3, <1>4, <1>8 DEF HoldInv

(* Every step keeps what the peers hold.                                   *)
LEMMA HoldSteps == RoundInv /\ MeansInv /\ MeansInv' /\ HoldInv /\ [ReduceNext]_reduceVars => HoldInv'
<1> SUFFICES ASSUME RoundInv, MeansInv, MeansInv', HoldInv, [ReduceNext]_reduceVars  PROVE HoldInv'
  OBVIOUS
<1>1. CASE RegisterPeer
  BY <1>1 DEF RegisterPeer, HoldInv
<1>2. CASE Finalize
  BY <1>2, HoldFinalize
<1>3. ASSUME NEW i \in Index, Step(i)  PROVE HoldInv'
  BY <1>3, HoldStep
<1>4. CASE UNCHANGED reduceVars
  <2>1. /\ tree' = tree /\ grad' = grad /\ lost' = lost /\ at' = at /\ channel' = channel
        /\ n_participants' = n_participants
    BY <1>4 DEF reduceVars
  <2>2. Promise!MeanOfMeans' = Promise!MeanOfMeans /\ Promise!Expected' = Promise!Expected
    BY <2>1, SameTree
  <2> QED
    BY <2>1, <2>2 DEF HoldInv, Holdings
<1> QED
  BY <1>1, <1>2, <1>3, <1>4 DEF ReduceNext

(* It holds in the beginning.                                              *)
LEMMA HoldStarts == ReduceInit => HoldInv
BY ReduceAssumption DEF ReduceInit, HoldInv

(* In every state of a round in which nothing was lost a peer holds, per   *)
(* element of its gradient, the sum of the members whose chunks have       *)
(* reached it (or the mean once its ring has ended), every message under   *)
(* way is the sum its sender shipped, and a peer past the top holds the    *)
(* mean of the means.                                                      *)
THEOREM HoldInvariant == ReduceSpec => []HoldInv
<1>1. ReduceSpec => [](RoundInv /\ MeansInv)
  BY RoundInvariant, MeansAlways, PTL
<1>2. ReduceSpec => ReduceInit /\ [][ReduceNext]_reduceVars
  BY DEF ReduceSpec
<1>3. RoundInv /\ MeansInv /\ (RoundInv /\ MeansInv)' /\ HoldInv /\ [ReduceNext]_reduceVars => HoldInv'
  BY HoldSteps
<1> QED
  BY <1>1, <1>2, <1>3, HoldStarts, PTL

-----------------------------------------------------------------------------
Returned == [i \in Index |-> IF at[i].pc = "done" THEN grad[i] ELSE NoResult]

(* The initial states are initial states of Averaging.                     *)
LEMMA PromiseStarts == ReduceInit => Promise!Init
BY ReduceAssumption DEF ReduceInit, Promise!Init, Waiting

(* A step after which nobody is done that was not: a stutter, or a loss.   *)
LEMMA PromiseKeeps ==
  ASSUME NEW i \in Index, at[i].pc # "done", at'[i].pc # "done", UNCHANGED tree, tree # NoTree,
         \A j \in Index \ {i} : at'[j] = at[j] /\ grad'[j] = grad[j],
         lost' = lost \/ lost' = lost + 1
  PROVE  [Promise!Next]_(Promise!vars)
<1>1. Returned' = Returned
  <2>1. ASSUME NEW j \in Index
        PROVE  (IF at'[j].pc = "done" THEN grad'[j] ELSE NoResult) = (IF at[j].pc = "done" THEN grad[j] ELSE NoResult)
    <3>1. CASE j = i
      BY <3>1
    <3>2. CASE j # i
      BY <3>2
    <3> QED
      BY <3>1, <3>2
  <2> QED
    BY <2>1 DEF Returned
<1>2. CASE lost' = lost
  BY <1>1, <1>2 DEF Promise!vars, Returned
<1>3. CASE lost' = lost + 1
  <2>1. Promise!Lose
    BY <1>1, <1>3 DEF Promise!Lose, Returned
  <2> QED
    BY <2>1 DEF Promise!Next
<1> QED
  BY <1>2, <1>3

(* A step that makes a peer done returns the mean, unless something is     *)
(* lost.                                                                   *)
LEMMA PromiseReturns ==
  ASSUME RoundInv, HoldInv, HoldInv', NEW i \in Index, at[i].pc = "down", at[i].level = 0,
         at' = [at EXCEPT ![i] = Down(at[i].level)], UNCHANGED <<tree, n_participants>>,
         \A j \in Index \ {i} : grad'[j] = grad[j],
         lost' = lost \/ lost' = lost + 1
  PROVE  [Promise!Next]_(Promise!vars)
<1>1. /\ tree # NoTree /\ i \in Indices(n_participants) /\ n_participants \in Nat
      /\ SoundTree(tree, n_participants) /\ at \in [Index -> Place]
  BY Active
<1>2. n_participants \in Nat \ {0}
  BY <1>1 DEF Indices
<1>3. Promise!Members = Indices(n_participants)
  BY <1>1, <1>2, PromiseTree
<1>4. at'[i].pc = "done" /\ \A j \in Index \ {i} : at'[j] = at[j]
  BY <1>1 DEF Down, Done, Waiting
<1>5. lost \in Nat
  BY <1>1 DEF HoldInv, Holdings
<1>6. /\ Returned[i] = NoResult /\ Returned'[i] = grad'[i] /\ grad'[i] # NoResult
      /\ \A j \in DOMAIN Returned \ {i} : Returned'[j] = Returned[j]
  <2>1. grad'[i] \in [Elements -> Int]
    BY DEF HoldInv
  <2>2. ASSUME NEW j \in Index, j # i  PROVE Returned'[j] = Returned[j]
    BY <1>4, <2>2 DEF Returned
  <2> QED
    BY <1>4, <2>1, <2>2, ReduceAssumption DEF Returned
<1>7. lost' = 0 => grad'[i] = Promise!Expected
  <2>1. Promise!Expected' = Promise!Expected
    BY SameTree
  <2>2. Holdings(Promise!MeanOfMeans, Promise!Expected)'
    BY <1>1 DEF HoldInv
  <2>3. lost' = 0 => Value(tree', Promise!MeanOfMeans', Promise!Expected', i, at'[i], grad'[i])
    BY <1>1, <2>2 DEF Holdings
  <2> QED
    BY <1>4, <2>1, <2>3 DEF Value
<1>8. i \in DOMAIN Gradient
  BY ReduceAssumption
<1>9. Promise!Return(i)
  BY <1>1, <1>3, <1>5, <1>6, <1>7 DEF Promise!Return, Returned
<1> QED
  BY <1>8, <1>9 DEF Promise!Next

(* A step of a peer is a step of Averaging.                                *)
LEMMA PromiseStep ==
  ASSUME RoundInv, HoldInv, HoldInv', NEW i \in Index, Step(i)
  PROVE  [Promise!Next]_(Promise!vars)
<1>1. at[i].pc # "waiting" /\ at[i].pc # "done"
  BY DEF Step, RingSend, RingReceive, Broadcast, ReceiveBroadcast
<1>2. /\ tree # NoTree /\ i \in Indices(n_participants) /\ n_participants \in Nat
      /\ SoundTree(tree, n_participants) /\ at \in [Index -> Place] /\ at[i] \in Place
  BY <1>1, Active
<1>3. grad \in [Index -> [Elements -> Int]]
  BY DEF HoldInv
<1>4. CASE RingSend(i)
  <2>1. /\ at' = [at EXCEPT ![i].pc = "recv"] /\ UNCHANGED <<tree, grad, lost>>
    BY <1>4 DEF RingSend
  <2>2. at'[i].pc = "recv" /\ \A j \in Index \ {i} : at'[j] = at[j]
    BY <1>2, <2>1 DEF Place
  <2> QED
    BY <1>1, <1>2, <2>1, <2>2, PromiseKeeps
<1>5. CASE RingReceive(i)
  <2>1. PICK g : AfterStep(i, Ring(i, at[i].level), g)
    BY <1>5 DEF RingReceive
  <2>2. UNCHANGED tree /\ (lost' = lost \/ lost' = lost + 1)
    BY <1>5 DEF RingReceive
  <2>3. \A j \in Index \ {i} : at'[j] = at[j] /\ grad'[j] = grad[j]
    BY <1>2, <1>3, <2>1 DEF AfterStep
  <2>4. at'[i].pc # "done"
    <3>1. CASE at[i].step < LastStep(Ring(i, at[i].level))
      BY <1>2, <2>1, <3>1 DEF AfterStep, Place
    <3>2. CASE ~(at[i].step < LastStep(Ring(i, at[i].level)))
      <4>1. at'[i] = Up(i, at[i].level + 1, tree)
        BY <1>2, <2>1, <3>2 DEF AfterStep
      <4> QED
        BY <4>1 DEF Up
    <3> QED
      BY <3>1, <3>2
  <2> QED
    BY <1>1, <1>2, <2>2, <2>3, <2>4, PromiseKeeps
<1>6. CASE Broadcast(i) \/ ReceiveBroadcast(i)
  <2>1. /\ at[i].pc = "down" /\ at' = [at EXCEPT ![i] = Down(at[i].level)]
        /\ UNCHANGED <<tree, n_participants>> /\ (lost' = lost \/ lost' = lost + 1)
    BY <1>6 DEF Broadcast, ReceiveBroadcast
  <2>2. \A j \in Index \ {i} : at'[j] = at[j] /\ grad'[j] = grad[j]
    BY <1>2, <1>3, <1>6, <2>1 DEF Broadcast, ReceiveBroadcast
  <2>3. CASE at[i].level = 0
    BY <2>1, <2>2, <2>3, PromiseReturns
  <2>4. CASE at[i].level # 0
    <3>1. at'[i].pc = "down"
      BY <1>2, <2>1, <2>4 DEF Down
    <3> QED
      BY <1>1, <1>2, <2>1, <2>2, <3>1, PromiseKeeps
  <2> QED
    BY <2>3, <2>4
<1> QED
  BY <1>4, <1>5, <1>6 DEF Step

(* Every step is a step of Averaging.                                      *)
LEMMA PromiseSteps ==
  RoundInv /\ HoldInv /\ HoldInv' /\ [ReduceNext]_reduceVars => [Promise!Next]_(Promise!vars)
<1> SUFFICES ASSUME RoundInv, HoldInv, HoldInv', [ReduceNext]_reduceVars
             PROVE  [Promise!Next]_(Promise!vars)
  OBVIOUS
<1>1. CASE RegisterPeer
  BY <1>1 DEF RegisterPeer, Promise!vars
<1>2. CASE Finalize
  <2>1. tree = NoTree /\ tree' # NoTree /\ lost' = lost /\ n_participants \in 0..MaxPeers
    BY <1>2, FinalizeTree DEF Finalize, RoundInv, TreeInv
  <2>2. \A j \in Index : at[j].pc # "done" /\ at'[j].pc # "done"
    <3>1. \A j \in Index : at[j] = Waiting
      BY <2>1 DEF RoundInv, PlacesInv
    <3>2. \A j \in Index : at'[j] = IF j < n_participants THEN Up(j, 0, tree') ELSE Waiting
      BY <1>2 DEF Finalize
    <3>3. Waiting.pc # "done"
      BY DEF Waiting
    <3>4. ASSUME NEW j \in Index  PROVE Up(j, 0, tree').pc # "done"
      BY DEF Up
    <3> QED
      BY <3>1, <3>2, <3>3, <3>4
  <2>3. Returned' = Returned
    BY <2>2 DEF Returned
  <2>4. Promise!Assign
    BY <2>1, <2>3 DEF Promise!Assign, Returned
  <2> QED
    BY <2>4 DEF Promise!Next
<1>3. ASSUME NEW i \in Index, Step(i)  PROVE [Promise!Next]_(Promise!vars)
  BY <1>3, PromiseStep
<1>4. CASE UNCHANGED reduceVars
  BY <1>4 DEF reduceVars, Promise!vars
<1> QED
  BY <1>1, <1>2, <1>3, <1>4 DEF ReduceNext

(* What Averaging allows is all a round does: whatever the order of the    *)
(* peers, the first thing a peer returns is the mean of the means of its   *)
(* clusters, unless a message was lost. This is the safety part of the     *)
(* property Averages: initial states and steps.                            *)
THEOREM RoundKeepsPromise ==
  ReduceSpec => Promise!Init /\ [][Promise!Next]_(Promise!vars)
<1>1. ReduceSpec => [](RoundInv /\ HoldInv)
  BY RoundInvariant, HoldInvariant, PTL
<1>2. ReduceSpec => ReduceInit /\ [][ReduceNext]_reduceVars
  BY DEF ReduceSpec
<1>3. RoundInv /\ HoldInv /\ (RoundInv /\ HoldInv)' /\ [ReduceNext]_reduceVars => [Promise!Next]_(Promise!vars)
  BY PromiseSteps
<1> QED
  BY <1>1, <1>2, <1>3, PromiseStarts, PTL

-----------------------------------------------------------------------------
(* The lockstep simulation.                                                *)

(* In lockstep the index that is sent is taken from the receiver.          *)
LEMMA ChunkTaken ==
  ASSUME NEW S \in SUBSET Nat, IsFiniteSet(S), NEW i \in S, NEW e \in Elements,
         NEW s \in Nat, s < Rounds(S)
  PROVE  e \in Chunk(SendIndex(i, S, s + 1), Cardinality(S)) <=>
           e \in Chunk(SendIndex(Left(i, S), S, s), Cardinality(S))
<1>7. e \in Chunk(SendIndex(Left(i, S), S, s), Cardinality(S)) <=>
        Behind(i, e, S) = IF s + 1 < Cardinality(S) THEN s + 1 ELSE s + 1 - Cardinality(S)
  BY ChunkSent
<1> DEFINE r == Cardinality(S)
           p == Position(i, S)
           q == ChunkOf(e, r)
           k == s + 1
<1>1. r \in Nat \ {0} /\ p \in 0..(r - 1)
  BY PositionFacts
<1>2. q \in 0..(r - 1)
  BY <1>1, ChunkOfIn
<1>3. k \in 0..(2 * r - 2)
  BY <1>1 DEF Rounds
<1>4. \A c : e \in Chunk(c, r) <=> q = c % r
  BY DEF Chunk, ChunkOf
<1>5. Behind(i, e, S) = Dist(r, p, q)
  BY DEF Behind
<1>6. SendIndex(i, S, k) = p - k + 2 * r
  BY DEF SendIndex
<1>8. q = (p - k + 2 * r) % r <=> Dist(r, p, q) = IF k < r THEN k ELSE k - r
  <2>1. ASSUME NEW a \in Nat \ {0}, NEW b \in 0..(a - 1), NEW c \in 0..(a - 1), NEW d \in 0..(2 * a - 2)
        PROVE  c = (b - d + 2 * a) % a <=> Dist(a, b, c) = IF d < a THEN d ELSE d - a
    BY ShiftedIndex
  <2> HIDE DEF r, p, q, k
  <2> QED
    BY <1>1, <1>2, <1>3, <2>1
<1> HIDE DEF r, p, q, k
<1>10. e \in Chunk(SendIndex(Left(i, S), S, s), r) <=> Behind(i, e, S) = IF k < r THEN k ELSE k - r
  BY <1>1, <1>7 DEF k, r
<1>9. e \in Chunk(SendIndex(i, S, k), r) <=> e \in Chunk(SendIndex(Left(i, S), S, s), r)
  BY <1>4, <1>5, <1>6, <1>8, <1>10
<1> QED
  BY <1>9 DEF r, k

(* In lockstep every member of a ring gets the mean of its members.        *)
LEMMA LockstepRing ==
  ASSUME NEW S \in SUBSET Nat, IsFiniteSet(S), S # {}, NEW g, S \subseteq DOMAIN g,
         \A i \in S : g[i] \in [Elements -> Int]
  PROVE  RingReduceAll(S, g) = [i \in DOMAIN g |-> IF i \in S THEN MeanOf(g, S) ELSE g[i]]
<1> DEFINE r == Cardinality(S)
           last == 2 * r - 2
           val(s) == [i \in S |-> [e \in Elements |-> Sum(g, Part(i, Behind(i, e, S), s, S), e)]]
           step(old, s) == [i \in S |-> [e \in Elements |->
             IF e \notin Chunk(SendIndex(i, S, s), r) THEN old[i][e]
             ELSE IF s < r THEN old[i][e] + old[Left(i, S)][e]
             ELSE old[Left(i, S)][e]]]
           rec(f) == f = [s \in 0..last |-> IF s = 0 THEN [i \in S |-> g[i]] ELSE step(f[s - 1], s)]
           round == CHOOSE f : rec(f)
<1>1. r \in Nat \ {0} /\ last \in Nat /\ last = Rounds(S) /\ (r = 1 => last = 0)
  BY PositionFacts DEF Rounds
<1>2. \A e \in Elements : Numbers(S, g, e)
  BY DEF Numbers
<1>3. RingReduceAll(S, g) = [i \in DOMAIN g |-> IF i \in S THEN Averaged(round[last][i], r) ELSE g[i]]
  BY DEF RingReduceAll
<1>4. \A i \in S, e \in Elements : Behind(i, e, S) \in 0..(r - 1)
  <2> SUFFICES ASSUME NEW i \in S, NEW e \in Elements  PROVE Behind(i, e, S) \in 0..(r - 1)
    OBVIOUS
  <2>1. Position(i, S) \in 0..(r - 1)
    BY PositionFacts
  <2>2. ChunkOf(e, r) \in 0..(r - 1)
    BY <1>1, ChunkOfIn
  <2> HIDE DEF r
  <2> QED
    BY <1>1, <2>1, <2>2, DistFacts DEF Behind, r
<1>5. val(0) = [i \in S |-> g[i]]
  <2>1. ASSUME NEW i \in S  PROVE [e \in Elements |-> Sum(g, Part(i, Behind(i, e, S), 0, S), e)] = g[i]
    <3>1. ASSUME NEW e \in Elements  PROVE Sum(g, Part(i, Behind(i, e, S), 0, S), e) = g[i][e]
      <4>1. ~(r + Behind(i, e, S) <= 0) /\ (Behind(i, e, S) <= 0 => Behind(i, e, S) = 0)
        BY <1>1, <1>4
      <4>2. Window(i, 0, S) = {i}
        BY WindowFacts
      <4>3. Part(i, Behind(i, e, S), 0, S) = {i}
        BY <4>1, <4>2 DEF Part
      <4> QED
        BY <4>3, SumOne
    <3> QED
      BY <3>1
  <2> QED
    BY <2>1
<1>6. ASSUME NEW s \in 0..last, s # 0  PROVE step(val(s - 1), s) = val(s)
  <2> DEFINE k == s - 1
  <2>1. k \in Nat /\ k < Rounds(S) /\ k + 1 = s /\ (s < r <=> ~(k >= r - 1))
    BY <1>1, <1>6
  <2>2. ASSUME NEW i \in S, NEW e \in Elements
        PROVE  step(val(k), s)[i][e] = Sum(g, Part(i, Behind(i, e, S), s, S), e)
    <3> DEFINE y == Left(i, S)
               C == Chunk(SendIndex(y, S, k), Cardinality(S))
               v == val(k)[i]
               m == [d \in C |-> val(k)[y][d]]
               w == step(val(k), s)[i]
    <3>1. y \in S
      BY Neighbours
    <3>2. \A d \in Elements : v[d] = Sum(g, Part(i, Behind(i, d, S), k, S), d)
      OBVIOUS
    <3>3. \A d \in Elements : d \in Chunk(SendIndex(i, S, s), r) <=> d \in C
      BY <2>1, ChunkTaken
    <3>4. ASSUME NEW d \in C  PROVE m[d] = Sum(g, Shipped(y, k, S), d)
      <4>0. d \in Elements
        BY DEF Chunk
      <4>1. Behind(y, d, S) = IF k < r THEN k ELSE k - r
        BY <2>1, <3>1, <4>0, ChunkSent
      <4>4. m[d] = Sum(g, Part(y, Behind(y, d, S), k, S), d)
        BY <3>1, <4>0
      <4> DEFINE u == Behind(y, d, S)
      <4>2. u \in 0..(Cardinality(S) - 1) /\ u = IF k < Cardinality(S) THEN k ELSE k - Cardinality(S)
        BY <1>4, <3>1, <4>0, <4>1
      <4> HIDE DEF u, y, k, m, C
      <4>3. Part(y, u, k, S) = Shipped(y, k, S)
        BY <2>1, <3>1, <4>2, PartFacts
      <4> QED
        BY <4>3, <4>4 DEF u
    <3>5. DOMAIN m = C /\ C = Chunk(SendIndex(Left(i, S), S, k), Cardinality(S))
      OBVIOUS
    <3>6. \A d \in DOMAIN m : m[d] = Sum(g, Shipped(Left(i, S), k, S), d)
      BY <3>4, <3>5
    <3>7. ASSUME NEW d \in Elements
          PROVE  w[d] = IF d \notin DOMAIN m THEN v[d]
                        ELSE IF k >= Cardinality(S) - 1 THEN m[d] ELSE v[d] + m[d]
      <4>1. w[d] = IF d \notin Chunk(SendIndex(i, S, s), r) THEN val(k)[i][d]
                   ELSE IF s < r THEN val(k)[i][d] + val(k)[y][d]
                   ELSE val(k)[y][d]
        OBVIOUS
      <4>2. d \in C => m[d] = val(k)[y][d]
        OBVIOUS
      <4> HIDE DEF val, C, y, k, w, m
      <4> QED
        BY <2>1, <3>3, <3>5, <4>1, <4>2 DEF v
    <3> HIDE DEF k, v, m, w, C, y, val, step
    <3>8. k \in Nat /\ k < Rounds(S)
      BY <2>1
    <3>11. k + 1 = s
      BY <2>1
    <3>9. DOMAIN m = Chunk(SendIndex(Left(i, S), S, k), Cardinality(S))
      BY <3>5
    <3>12. Takes(S, i, k, g, v, m, w)
      BY <1>2, <3>2, <3>6, <3>7, <3>9 DEF Takes
    <3>10. w[e] = Sum(g, Part(i, Behind(i, e, S), k + 1, S), e)
      BY <3>8, <3>12, RingTaken
    <3> QED
      BY <3>10, <3>11 DEF w
  <2>3. \A i \in S : step(val(k), s)[i] = [e \in Elements |-> step(val(k), s)[i][e]]
    OBVIOUS
  <2>4. step(val(k), s) = [i \in S |-> step(val(k), s)[i]]
    OBVIOUS
  <2>5. k = s - 1
    OBVIOUS
  <2> HIDE DEF step, k
  <2> QED
    BY <2>2, <2>3, <2>4, <2>5
<1> HIDE DEF val, step
<1> DEFINE vals == [s \in 0..last |-> val(s)]
<1>7. rec(vals)
  <2>1. ASSUME NEW s \in 0..last
        PROVE  val(s) = IF s = 0 THEN [i \in S |-> g[i]] ELSE step(vals[s - 1], s)
    <3>1. s # 0 => s - 1 \in 0..last
      BY <1>1
    <3> QED
      BY <1>5, <1>6, <3>1
  <2> QED
    BY <2>1
<1>8. rec(round)
  <2> HIDE DEF vals, rec
  <2> QED
    BY <1>7
<1> HIDE DEF round
<1> DEFINE bad == {s \in 0..last : round[s] # val(s)}
<1>9. bad = {}
  <2> SUFFICES ASSUME bad # {}  PROVE FALSE
    OBVIOUS
  <2>1. bad \in SUBSET Nat
    BY <1>1
  <2>2. PICK s \in bad : \A d \in bad : s <= d
    BY <2>1, LeastNatural
  <2>3. s \in 0..last /\ round[s] # val(s)
    OBVIOUS
  <2>4. s # 0
    BY <1>5, <1>8, <2>3
  <2>5. s - 1 \in 0..last /\ ~(s <= s - 1)
    BY <1>1, <2>3, <2>4
  <2>6. round[s - 1] = val(s - 1)
    BY <2>2, <2>5
  <2>7. round[s] = step(val(s - 1), s)
    BY <1>8, <2>3, <2>4, <2>6
  <2> QED
    BY <1>6, <2>3, <2>4, <2>7
<1>10. last \in 0..last /\ last \notin bad
  <2>1. last \in 0..last
    BY <1>1
  <2> HIDE DEF last
  <2> QED
    BY <1>9, <2>1, Zenon
<1>11. round[last] = val(last)
  BY <1>10
<1>12. ASSUME NEW i \in S  PROVE Averaged(round[last][i], r) = MeanOf(g, S)
  <2> DEFINE w == round[last][i]
  <2>1. \A e \in Elements : w[e] = Sum(g, Part(i, Behind(i, e, S), last, S), e)
    BY <1>11 DEF val
  <2>2. CASE r > 1
    <3> HIDE DEF w
    <3> QED
      BY <1>1, <2>1, <2>2, RingMean DEF w
  <2>3. CASE ~(r > 1)
    <3>1. r = 1 /\ last = 0
      BY <1>1, <2>3
    <3>2. w = g[i]
      BY <1>5, <1>11, <3>1
    <3>3. S = {i}
      <4>1. PICK x : S = {x}
        BY <3>1, FS_Singleton
      <4> QED
        BY <4>1
    <3>4. \A e \in Elements : Sum(g, S, e) = g[i][e]
      BY <3>3, SumOne
    <3> QED
      BY <3>2, <3>4 DEF Averaged, MeanOf
  <2> QED
    BY <2>2, <2>3
<1> QED
  BY <1>3, <1>12

(* A sum depends on the values of its members.                             *)
LEMMA SumSame ==
  ASSUME NEW S, IsFiniteSet(S), NEW g, NEW h, NEW e, Numbers(S, g, e),
         \A j \in S : g[j] = h[j]
  PROVE  Sum(g, S, e) = Sum(h, S, e)
<1> DEFINE f == [j \in S |-> g[j][e]]
<1>1. f \in [S -> Int] /\ f = [j \in S |-> h[j][e]]
  BY DEF Numbers
<1>2. PICK a \in [SUBSET S -> Int] : Adds(a, S, f)
  BY <1>1, AddsExists
<1>3. S \in SUBSET S /\ \A j \in S : h[j][e] \in Int
  BY DEF Numbers
<1>4. Sum(g, S, e) = a[S]
  BY <1>2, <1>3, SumIs DEF Numbers
<1>5. Adds(a, S, [j \in S |-> h[j][e]])
  BY <1>1, <1>2
<1>6. Sum(h, S, e) = a[S]
  BY <1>3, <1>5, SumIs
<1> QED
  BY <1>4, <1>6

(* So does a mean.                                                         *)
LEMMA MeanSame ==
  ASSUME NEW S, IsFiniteSet(S), NEW g, NEW h,
         \A j \in S : g[j] \in [Elements -> Int] /\ g[j] = h[j]
  PROVE  MeanOf(g, S) = MeanOf(h, S)
<1>1. ASSUME NEW e \in Elements  PROVE Sum(g, S, e) = Sum(h, S, e)
  <2>1. Numbers(S, g, e)
    BY DEF Numbers
  <2> QED
    BY <2>1, SumSame
<1> QED
  BY <1>1 DEF MeanOf

(* A level of the simulation: one cluster, and all those of a set.         *)
LevelUp(S, g) == IF Cardinality(S) > 1 THEN RingReduceAll(S, g) ELSE g
Rows(M, n, l, T) ==
  [i \in Indices(n) |-> IF \E S \in T : i \in S THEN M[l + 1][i] ELSE M[l][i]]

(* A cluster of a level and its members.                                   *)
LEMMA ClusterIn ==
  ASSUME NEW n \in Nat, NEW t, SoundTree(t, n), NEW l \in DOMAIN t, NEW S \in AllClusters(t[l])
  PROVE  /\ S # {} /\ S \in SUBSET Indices(n) /\ S \in SUBSET Nat /\ IsFiniteSet(S)
         /\ Cardinality(S) \in Nat \ {0}
         /\ \A i \in S : InLevel(t, i, l) /\ ClusterOf(t, i, l) = S /\ l \in Path(t, i)
<1>1. PICK N \in Nat : SoundLevel(t[l], N, Indices(n))
  BY DEF SoundTree
<1>2. PICK c \in Indices(N) : S = t[l][c]
  BY <1>1 DEF SoundLevel, AllClusters
<1>3. S # {} /\ S \in SUBSET Indices(n) /\ DOMAIN t[l] = Indices(N)
  BY <1>1, <1>2 DEF SoundLevel
<1>4. ASSUME NEW i \in S
      PROVE  /\ InLevel(t, i, l) /\ ClusterOf(t, i, l) = S /\ l \in Path(t, i)
             /\ S \in SUBSET Nat /\ IsFiniteSet(S)
  <2>1. InLevel(t, i, l) /\ i \in Indices(n)
    BY <1>2, <1>3 DEF InLevel
  <2>2. /\ ClusterOf(t, i, l) \in SUBSET Nat /\ IsFiniteSet(ClusterOf(t, i, l))
        /\ \E d \in DOMAIN t[l] : t[l][d] = ClusterOf(t, i, l)
        /\ i \in ClusterOf(t, i, l)
    BY <2>1, ClusterFacts
  <2>3. ClusterOf(t, i, l) = S
    BY <1>1, <1>2, <1>3, <2>1, <2>2 DEF SoundLevel
  <2> QED
    BY <2>1, <2>2, <2>3 DEF Path
<1>5. Cardinality(S) \in Nat /\ Cardinality(S) # 0
  BY <1>3, <1>4, FS_CardinalityType, FS_EmptySet
<1> QED
  BY <1>3, <1>4, <1>5

(* A ring of the simulation takes its cluster to the next level and nobody *)
(* else.                                                                   *)
LEMMA OneCluster ==
  ASSUME NEW n \in Nat, NEW t, SoundTree(t, n), NEW M, Means(t, n, M), NEW l \in DOMAIN t,
         NEW T \in SUBSET AllClusters(t[l]), NEW S \in T
  PROVE  Rows(M, n, l, T) = LevelUp(S, Rows(M, n, l, T \ {S}))
<1> DEFINE g == Rows(M, n, l, T \ {S})
           h == M[l]
<1>1. /\ S # {} /\ S \in SUBSET Indices(n) /\ S \in SUBSET Nat /\ IsFiniteSet(S)
      /\ Cardinality(S) \in Nat \ {0}
      /\ \A i \in S : InLevel(t, i, l) /\ ClusterOf(t, i, l) = S /\ l \in Path(t, i)
  BY ClusterIn
<1>2. \A i \in S, U \in T : i \in U => U = S
  BY <1>1, ClusterIn
<1>3. DOMAIN g = Indices(n) /\ g = [i \in Indices(n) |-> g[i]]
  BY DEF Rows
<1>4. \A i \in S : g[i] = h[i] /\ h[i] \in [Elements -> Int]
  BY <1>1, <1>2 DEF Rows, Means
<1>5. \A i \in Indices(n) : i \notin S => g[i] = Rows(M, n, l, T)[i]
  BY DEF Rows
<1>6. \A i \in S : Rows(M, n, l, T)[i] = MeanOf(h, S) /\ M[l + 1][i] = MeanOf(h, S)
  BY <1>1 DEF Rows, Means
<1>7. Rows(M, n, l, T) = [i \in Indices(n) |-> Rows(M, n, l, T)[i]]
  BY DEF Rows
<1> HIDE DEF g, h
<1>8. CASE Cardinality(S) > 1
  <2>1. \A i \in S : g[i] \in [Elements -> Int]
    BY <1>4
  <2>2. RingReduceAll(S, g) = [i \in DOMAIN g |-> IF i \in S THEN MeanOf(g, S) ELSE g[i]]
    BY <1>1, <1>3, <2>1, LockstepRing
  <2>3. MeanOf(g, S) = MeanOf(h, S)
    BY <1>1, <1>4, MeanSame
  <2>4. RingReduceAll(S, g) = Rows(M, n, l, T)
    BY <1>3, <1>5, <1>6, <1>7, <2>2, <2>3
  <2> QED
    BY <1>8, <2>4 DEF LevelUp, g
<1>9. CASE ~(Cardinality(S) > 1)
  <2>1. Cardinality(S) = 1
    BY <1>1, <1>9
  <2>2. \A i \in S : M[l + 1][i] = h[i]
    BY <1>1, <2>1, Lone DEF h
  <2>3. \A i \in S : Rows(M, n, l, T)[i] = g[i]
    BY <1>4, <1>6, <2>2
  <2>4. g = Rows(M, n, l, T)
    BY <1>3, <1>5, <1>7, <2>3
  <2> QED
    BY <1>9, <2>4 DEF LevelUp, g
<1> QED
  BY <1>8, <1>9

FoldLevel(g, T) ==
  FoldSet(LAMBDA S, h : IF Cardinality(S) > 1 THEN RingReduceAll(S, h) ELSE h, g, T)

(* The rings of a level, in whatever order, take everybody to the next.    *)
LEMMA LevelFold ==
  ASSUME NEW n \in Nat, NEW t, SoundTree(t, n), NEW M, Means(t, n, M), NEW l \in DOMAIN t
  PROVE  FoldLevel([i \in Indices(n) |-> M[l][i]], AllClusters(t[l])) = [i \in Indices(n) |-> M[l + 1][i]]
<1> DEFINE T == AllClusters(t[l])
           base == [i \in Indices(n) |-> M[l][i]]
           any(s) == CHOOSE x \in s : TRUE
           iter == CHOOSE it : it = [s \in SUBSET T |-> IF s = {} THEN base ELSE LevelUp(any(s), it[s \ {any(s)}])]
           k == [s \in SUBSET T |-> Rows(M, n, l, s)]
<1>0. IsFiniteSet(T)
  <2>1. PICK N \in Nat : SoundLevel(t[l], N, Indices(n))
    BY DEF SoundTree
  <2>2. DOMAIN t[l] = Indices(N) /\ IsFiniteSet(Indices(N))
    BY <2>1, IndexSet DEF SoundLevel
  <2>3. t[l] \in Surjection(Indices(N), T)
    BY <2>1, <2>2 DEF AllClusters, SoundLevel, Surjection
  <2> QED
    BY <2>2, <2>3, FS_Surjection
<1>1. FoldLevel(base, T) = iter[T]
  BY DEF FoldLevel, LevelUp, FoldSet, MapThenFoldSet
<1>2. \A s \in SUBSET T : s # {} => any(s) \in s /\ s \ {any(s)} \in SUBSET T
  OBVIOUS
<1> HIDE DEF any
<1>3. \A s \in SUBSET T : Rows(M, n, l, s) = IF s = {} THEN base ELSE LevelUp(any(s), k[s \ {any(s)}])
  <2> SUFFICES ASSUME NEW s \in SUBSET T
               PROVE  Rows(M, n, l, s) = IF s = {} THEN base ELSE LevelUp(any(s), k[s \ {any(s)}])
    OBVIOUS
  <2>1. CASE s = {}
    BY <2>1 DEF Rows
  <2>2. CASE s # {}
    <3>1. any(s) \in s /\ s \ {any(s)} \in SUBSET T
      BY <1>2, <2>2
    <3>2. Rows(M, n, l, s) = LevelUp(any(s), Rows(M, n, l, s \ {any(s)}))
      BY <3>1, OneCluster
    <3> QED
      BY <2>2, <3>1, <3>2
  <2> QED
    BY <2>1, <2>2
<1>4. iter = [s \in SUBSET T |-> IF s = {} THEN base ELSE LevelUp(any(s), iter[s \ {any(s)}])]
  <2>1. k = [s \in SUBSET T |-> IF s = {} THEN base ELSE LevelUp(any(s), k[s \ {any(s)}])]
    BY <1>3
  <2> HIDE DEF k, base, T
  <2> QED
    BY <2>1
<1>10. k = [s \in SUBSET T |-> k[s]] /\ \A s \in SUBSET T : k[s] = Rows(M, n, l, s)
  OBVIOUS
<1> HIDE DEF iter, k, base
<1> DEFINE differ == {s \in SUBSET T : iter[s] # k[s]}
           sizes == {Cardinality(s) : s \in differ}
<1>5. \A s \in SUBSET T : IsFiniteSet(s) /\ Cardinality(s) \in Nat
  BY <1>0, FS_Subset, FS_CardinalityType
<1>6. differ = {}
  <2> SUFFICES ASSUME differ # {}  PROVE FALSE
    OBVIOUS
  <2>1. sizes \in SUBSET Nat /\ sizes # {}
    BY <1>5
  <2>2. PICK c \in sizes : \A d \in sizes : c <= d
    BY <2>1, LeastNatural
  <2>3. PICK s \in differ : Cardinality(s) = c
    OBVIOUS
  <2>4. s \in SUBSET T /\ s # {}
    BY <1>3, <1>4, <1>10
  <2>5. any(s) \in s /\ s \ {any(s)} \in SUBSET T
    BY <1>2, <2>4
  <2>6. Cardinality(s \ {any(s)}) = c - 1 /\ c \in Nat
    BY <1>5, <2>3, <2>4, <2>5, FS_RemoveElement
  <2>7. s \ {any(s)} \notin differ
    <3>1. s \ {any(s)} \in differ => c <= c - 1
      BY <2>2, <2>6
    <3> QED
      BY <2>6, <3>1
  <2>8. iter[s \ {any(s)}] = k[s \ {any(s)}]
    BY <2>5, <2>7
  <2>9. iter[s] = LevelUp(any(s), iter[s \ {any(s)}])
    BY <1>4, <2>4
  <2>10. k[s] = LevelUp(any(s), k[s \ {any(s)}])
    BY <1>3, <1>10, <2>4
  <2> QED
    BY <2>3, <2>8, <2>9, <2>10
<1>7. T \in SUBSET T
  OBVIOUS
<1>8. T \notin differ
  BY <1>6, Zenon
<1>9. iter[T] = Rows(M, n, l, T)
  BY <1>7, <1>8, <1>10
<1>11. ASSUME NEW i \in Indices(n)
       PROVE  M[l + 1][i] = IF \E S \in T : i \in S THEN M[l + 1][i] ELSE M[l][i]
  <2>1. CASE \E S \in T : i \in S
    BY <2>1
  <2>2. CASE ~ \E S \in T : i \in S
    <3>1. ~InLevel(t, i, l)
      BY <2>2 DEF InLevel, AllClusters
    <3> QED
      BY <2>2, <3>1 DEF Means
  <2> QED
    BY <2>1, <2>2
<1>12. Rows(M, n, l, T) = [i \in Indices(n) |-> M[l + 1][i]]
  BY <1>11 DEF Rows
<1> QED
  BY <1>1, <1>9, <1>12 DEF base

(* Going up, the simulation has the means of every level.                  *)
LEMMA LockstepUp ==
  ASSUME NEW n \in Nat, NEW t, SoundTree(t, n), NEW M, Means(t, n, M),
         NEW depth \in Nat \ {0}, DOMAIN t = Indices(depth),
         NEW up, up = CHOOSE f : f = [l \in 0..depth |->
           IF l = 0 THEN [i \in Indices(n) |-> Gradient[i]]
           ELSE FoldLevel(f[l - 1], AllClusters(t[l - 1]))]
  PROVE  up[depth] = [i \in Indices(n) |-> M[depth][i]]
<1> DEFINE row(l) == [i \in Indices(n) |-> M[l][i]]
           rows == [l \in 0..depth |-> row(l)]
<1>1. row(0) = [i \in Indices(n) |-> Gradient[i]]
  BY DEF Means
<1>2. ASSUME NEW l \in 0..depth, l # 0
      PROVE  row(l) = FoldLevel(row(l - 1), AllClusters(t[l - 1])) /\ l - 1 \in 0..depth
  <2> DEFINE k == l - 1
  <2>1. k \in DOMAIN t /\ k + 1 = l /\ k \in 0..depth
    BY <1>2 DEF Indices
  <2> HIDE DEF k
  <2>2. FoldLevel([i \in Indices(n) |-> M[k][i]], AllClusters(t[k])) = [i \in Indices(n) |-> M[k + 1][i]]
    BY <2>1, LevelFold
  <2>3. row(l) = FoldLevel(row(k), AllClusters(t[k])) /\ k \in 0..depth
    BY <2>1, <2>2
  <2> QED
    BY <2>3 DEF k
<1>3. rows = [l \in 0..depth |->
           IF l = 0 THEN [i \in Indices(n) |-> Gradient[i]]
           ELSE FoldLevel(rows[l - 1], AllClusters(t[l - 1]))]
  <2> HIDE DEF row
  <2>1. ASSUME NEW l \in 0..depth
        PROVE  row(l) = IF l = 0 THEN [i \in Indices(n) |-> Gradient[i]]
                        ELSE FoldLevel(rows[l - 1], AllClusters(t[l - 1]))
    BY <1>1, <1>2
  <2> QED
    BY <2>1
<1>4. up = [l \in 0..depth |->
           IF l = 0 THEN [i \in Indices(n) |-> Gradient[i]]
           ELSE FoldLevel(up[l - 1], AllClusters(t[l - 1]))]
  <2> HIDE DEF rows
  <2> QED
    BY <1>3
<1> HIDE DEF row
<1> DEFINE bad == {l \in 0..depth : up[l] # row(l)}
<1>5. bad = {}
  <2> SUFFICES ASSUME bad # {}  PROVE FALSE
    OBVIOUS
  <2>1. bad \in SUBSET Nat
    OBVIOUS
  <2>2. PICK l \in bad : \A d \in bad : l <= d
    BY <2>1, LeastNatural
  <2>3. l \in 0..depth /\ up[l] # row(l)
    OBVIOUS
  <2>4. l # 0
    BY <1>1, <1>4, <2>3
  <2>5. l - 1 \in 0..depth /\ ~(l <= l - 1)
    BY <2>3, <2>4
  <2>6. up[l - 1] = row(l - 1)
    BY <2>2, <2>5
  <2>7. up[l] = FoldLevel(row(l - 1), AllClusters(t[l - 1]))
    BY <1>4, <2>3, <2>4, <2>6
  <2> QED
    BY <1>2, <2>3, <2>4, <2>7
<1>6. depth \in 0..depth /\ depth \notin bad
  BY <1>5
<1> QED
  BY <1>6 DEF row

(* Going down, it has the result on every path below the top.              *)
LEMMA LockstepDown ==
  ASSUME NEW n \in Nat, NEW t, SoundTree(t, n), NEW M, NEW x, TopMean(t, n, M, x),
         NEW depth \in Nat \ {0}, DOMAIN t = Indices(depth), NEW i \in Indices(n),
         NEW top, top = [j \in Indices(n) |-> M[depth][j]],
         NEW down, down = CHOOSE f : f = [l \in 0..depth |->
           IF l = depth THEN top
           ELSE [j \in Indices(n) |-> IF InLevel(t, j, l) THEN f[l + 1][Leader(ClusterOf(t, j, l))]
                                      ELSE f[l + 1][j]]]
  PROVE  down[0][i] = x
<1> DEFINE row(l) == [j \in Indices(n) |-> IF l < depth /\ InLevel(t, j, l) THEN x ELSE M[depth][j]]
           rows == [l \in 0..depth |-> row(l)]
           below(f, l) == [j \in Indices(n) |-> IF InLevel(t, j, l) THEN f[Leader(ClusterOf(t, j, l))]
                                                ELSE f[j]]
<1>1. row(depth) = top
  OBVIOUS
<1>2. \A j \in Indices(n) : InLevel(t, j, 0)
  BY DEF SoundTree
<1>3. ASSUME NEW l \in 0..depth, l # depth
      PROVE  row(l) = below(row(l + 1), l) /\ l + 1 \in 0..depth
  <2>0. l \in DOMAIN t /\ l \in Nat /\ l + 1 \in 0..depth /\ l < depth
    BY <1>3 DEF Indices
  <2>1. ASSUME NEW j \in Indices(n), InLevel(t, j, l)
        PROVE  row(l + 1)[Leader(ClusterOf(t, j, l))] = x
    <3> DEFINE S == ClusterOf(t, j, l)
               y == Leader(S)
    <3>1. /\ y \in Indices(n) /\ InLevel(t, y, l) /\ ClusterOf(t, y, l) = S
          /\ \E c \in DOMAIN t[l] : t[l][c] = S
      BY <2>0, <2>1, ClusterFacts
    <3> HIDE DEF y
    <3>2. CASE l + 1 < depth
      <4>1. l + 1 \in DOMAIN t /\ y = Leader(ClusterOf(t, y, l))
        BY <2>0, <3>1, <3>2 DEF Indices, y
      <4>2. InLevel(t, y, l + 1)
        BY <2>0, <3>1, <4>1, Climbs
      <4> QED
        BY <3>1, <3>2, <4>2 DEF y
    <3>3. CASE ~(l + 1 < depth)
      <4>1. l + 1 = depth /\ depth \notin DOMAIN t
        BY <2>0, <3>3 DEF Indices
      <4>2. Max(Path(t, y)) + 1 = depth
        <5>1. l \in Path(t, y)
          BY <2>0, <3>1 DEF Path
        <5>2. Path(t, y) = 0..Max(Path(t, y)) /\ Max(Path(t, y)) \in Nat
              /\ \A k \in Path(t, y) : k \in DOMAIN t
          BY <3>1, PathFacts
        <5>3. Max(Path(t, y)) \in DOMAIN t /\ l <= Max(Path(t, y))
          BY <5>1, <5>2
        <5> QED
          BY <2>0, <4>1, <5>2, <5>3 DEF Indices
      <4>3. M[depth][y] = x
        BY <3>1, <4>1, <4>2 DEF TopMean
      <4> QED
        BY <3>1, <3>3, <4>1, <4>3 DEF y
    <3> QED
      BY <3>2, <3>3
  <2>2. ASSUME NEW j \in Indices(n), ~InLevel(t, j, l)
        PROVE  row(l + 1)[j] = M[depth][j]
    <3>1. ASSUME l + 1 < depth, InLevel(t, j, l + 1)  PROVE FALSE
      <4>1. l + 1 \in DOMAIN t
        BY <2>0, <3>1 DEF Indices
      <4> QED
        BY <2>0, <2>2, <3>1, <4>1, Climbs
    <3>2. CASE ~(l + 1 < depth /\ InLevel(t, j, l + 1))
      BY <3>2
    <3> QED
      BY <3>1, <3>2
  <2>3. ASSUME NEW j \in Indices(n)
        PROVE  (IF l < depth /\ InLevel(t, j, l) THEN x ELSE M[depth][j])
               = IF InLevel(t, j, l) THEN row(l + 1)[Leader(ClusterOf(t, j, l))] ELSE row(l + 1)[j]
    BY <2>0, <2>1, <2>2
  <2> QED
    BY <2>0, <2>3
<1> HIDE DEF below
<1>4. rows = [l \in 0..depth |-> IF l = depth THEN top ELSE below(rows[l + 1], l)]
  <2> HIDE DEF row
  <2>1. ASSUME NEW l \in 0..depth
        PROVE  row(l) = IF l = depth THEN top ELSE below(rows[l + 1], l)
    BY <1>1, <1>3
  <2> QED
    BY <2>1
<1>5. down = [l \in 0..depth |-> IF l = depth THEN top ELSE below(down[l + 1], l)]
  <2> HIDE DEF rows
  <2>1. down = CHOOSE f : f = [l \in 0..depth |-> IF l = depth THEN top ELSE below(f[l + 1], l)]
    BY DEF below
  <2> QED
    BY <1>4, <2>1
<1> HIDE DEF row
<1> DEFINE bad == {l \in 0..depth : down[depth - l] # row(depth - l)}
<1>6. bad = {}
  <2> SUFFICES ASSUME bad # {}  PROVE FALSE
    OBVIOUS
  <2>1. bad \in SUBSET Nat
    OBVIOUS
  <2>2. PICK k \in bad : \A d \in bad : k <= d
    BY <2>1, LeastNatural
  <2> DEFINE l == depth - k
  <2>3. k \in 0..depth /\ l \in 0..depth /\ down[l] # row(l)
    OBVIOUS
  <2>4. l # depth
    BY <1>1, <1>5, <2>3
  <2>5. k - 1 \in 0..depth /\ ~(k <= k - 1) /\ depth - (k - 1) = l + 1
    BY <2>3, <2>4
  <2>6. down[l + 1] = row(l + 1)
    BY <2>2, <2>5
  <2> HIDE DEF l
  <2>7. down[l] = below(row(l + 1), l)
    BY <1>5, <2>3, <2>4, <2>6
  <2> QED
    BY <1>3, <2>3, <2>4, <2>7
<1>7. depth \in 0..depth /\ depth - depth = 0
  OBVIOUS
<1>9. depth \notin bad
  BY <1>6, Zenon
<1>8. down[0] = row(0)
  BY <1>7, <1>9
<1> QED
  BY <1>2, <1>8 DEF row

(* A single cluster is the flat ring.                                      *)
LEMMA OneRing ==
  ASSUME NEW n \in Nat \ {0}, NEW t, SoundTree(t, n), DOMAIN t = {0},
         NEW M, Means(t, n, M), NEW x, TopMean(t, n, M, x), NEW i \in Indices(n)
  PROVE  RingReduceAll(Indices(n), [j \in Indices(n) |-> Gradient[j]])[i] = x
<1> DEFINE S == Indices(n)
           g == [j \in S |-> Gradient[j]]
<1>0. n \in Nat /\ S \in SUBSET Nat /\ IsFiniteSet(S) /\ S # {} /\ 0 \in DOMAIN t
  BY IndexSet
<1>1. DOMAIN t[0] = {0} /\ \A j \in S : InLevel(t, j, 0)
  <2>1. PICK depth \in Nat \ {0} : DOMAIN t = Indices(depth) /\ DOMAIN t[depth - 1] = {0}
                                   /\ \A j \in S : InLevel(t, j, 0)
    BY DEF SoundTree
  <2>2. depth - 1 \in Indices(depth)
    BY IndexSet
  <2>3. depth - 1 = 0
    BY <2>1, <2>2
  <2> QED
    BY <2>1, <2>3
<1>2. ClusterOf(t, i, 0) = S
  <2>1. \A j \in S : j \in t[0][0]
    BY <1>1 DEF InLevel
  <2>2. ClusterOf(t, i, 0) \in SUBSET S /\ \E c \in DOMAIN t[0] : t[0][c] = ClusterOf(t, i, 0)
    BY <1>0, <1>1, ClusterFacts
  <2> QED
    BY <1>1, <2>1, <2>2
<1>3. M[1][i] = MeanOf(M[0], S)
  <2>1. M[0 + 1][i] = MeanOf(M[0], S)
    BY <1>0, <1>1, <1>2 DEF Means
  <2> QED
    BY <2>1
<1>4. M[1][i] = x
  <2> DEFINE top == Max(Path(t, i))
  <2>1. top \in Nat /\ Path(t, i) = 0..top /\ \A l \in Path(t, i) : l \in DOMAIN t
    BY <1>0, PathFacts
  <2>2. top = 0
    BY <2>1
  <2> HIDE DEF top
  <2>3. top + 1 = 1 /\ 1 \notin DOMAIN t
    BY <2>2
  <2>4. top + 1 \notin DOMAIN t => M[top + 1][i] = x
    BY DEF TopMean, top
  <2> QED
    BY <2>3, <2>4
<1>5. \A j \in S : g[j] = M[0][j] /\ g[j] \in [Elements -> Int]
  BY <1>0 DEF Means
<1>6. RingReduceAll(S, g) = [j \in DOMAIN g |-> IF j \in S THEN MeanOf(g, S) ELSE g[j]]
  <2>1. S \subseteq DOMAIN g
    OBVIOUS
  <2> HIDE DEF g, S
  <2> QED
    BY <1>0, <1>5, <2>1, LockstepRing
<1>7. MeanOf(g, S) = MeanOf(M[0], S)
  <2> DEFINE h == M[0]
  <2>1. \A j \in S : g[j] \in [Elements -> Int] /\ g[j] = h[j]
    BY <1>5
  <2> HIDE DEF S, g, h
  <2>2. MeanOf(g, S) = MeanOf(h, S)
    BY <1>0, <2>1, MeanSame
  <2> QED
    BY <2>2 DEF h
<1> QED
  BY <1>3, <1>4, <1>6, <1>7

(* Above the threshold reduce_all returns the mean of the means.           *)
LEMMA LockstepTree ==
  ASSUME NEW n \in Nat \ {0}, NEW t, SoundTree(t, n), NEW M, Means(t, n, M),
         NEW x, TopMean(t, n, M, x), NEW i \in Indices(n), n > Threshold
  PROVE  ReduceAll(t, n)[i] = x
<1>1. PICK depth \in Nat \ {0} : DOMAIN t = Indices(depth) /\ Cardinality(DOMAIN t) = depth
  BY IndexSet DEF SoundTree
<1>0. n \in Nat /\ ~(n <= Threshold)
  BY ReduceAssumption
<1> DEFINE up == CHOOSE f : f = [l \in 0..depth |->
                   IF l = 0 THEN [j \in Indices(n) |-> Gradient[j]]
                   ELSE FoldLevel(f[l - 1], AllClusters(t[l - 1]))]
           down == CHOOSE f : f = [l \in 0..depth |->
                     IF l = depth THEN up[depth]
                     ELSE [j \in Indices(n) |-> IF InLevel(t, j, l) THEN f[l + 1][Leader(ClusterOf(t, j, l))]
                                                ELSE f[l + 1][j]]]
<1>2. ReduceAll(t, n) = down[0]
  BY <1>0, <1>1 DEF ReduceAll, FoldLevel
<1>3. up[depth] = [j \in Indices(n) |-> M[depth][j]]
  <2> HIDE DEF up
  <2> QED
    BY <1>0, <1>1, LockstepUp DEF up
<1> DEFINE top == up[depth]
<1> HIDE DEF up
<1>4. down = CHOOSE f : f = [l \in 0..depth |->
                 IF l = depth THEN top
                 ELSE [j \in Indices(n) |-> IF InLevel(t, j, l) THEN f[l + 1][Leader(ClusterOf(t, j, l))]
                                            ELSE f[l + 1][j]]]
  OBVIOUS
<1> HIDE DEF top, down
<1>5. top = [j \in Indices(n) |-> M[depth][j]]
  BY <1>3 DEF top
<1>6. down[0][i] = x
  BY <1>0, <1>1, <1>4, <1>5, LockstepDown
<1> QED
  BY <1>2, <1>6

(* Up to the size of a small network the tree has one level.               *)
FlatInv == tree # NoTree /\ n_participants <= SmallNetwork => DOMAIN tree = {0}

(* Every step keeps it.                                                    *)
LEMMA FlatSteps == FlatInv /\ [ReduceNext]_reduceVars => FlatInv'
<1> SUFFICES ASSUME FlatInv, [ReduceNext]_reduceVars  PROVE FlatInv'
  OBVIOUS
<1>1. CASE RegisterPeer
  BY <1>1 DEF RegisterPeer, FlatInv
<1>2. CASE Finalize
  <2> SUFFICES ASSUME n_participants <= SmallNetwork  PROVE DOMAIN tree' = {0}
    BY <1>2 DEF FlatInv, Finalize
  <2>1. PICK k : config' \in AutoConfigs(n_participants, k, SmallNetwork)
    BY <1>2 DEF Finalize
  <2>2. config' = Config(n_participants, 1)
    BY <2>1 DEF AutoConfigs
  <2>3. tree' = Levels(Leaves(perm', n_participants), Config(n_participants, 1))
    BY <1>2, <2>2 DEF Finalize, AssignClusters, Config
  <2>4. DOMAIN tree' = Indices(1)
    BY <2>3, LevelsStep
  <2> QED
    BY <2>4 DEF Indices
<1>3. ASSUME NEW i \in Index, Step(i)  PROVE FlatInv'
  BY <1>3 DEF Step, RingSend, RingReceive, Broadcast, ReceiveBroadcast, FlatInv
<1>4. CASE UNCHANGED reduceVars
  BY <1>4 DEF reduceVars, FlatInv
<1> QED
  BY <1>1, <1>2, <1>3, <1>4 DEF ReduceNext

(* Peers that are done hold what reduce_all returns.                       *)
LEMMA LockstepAgrees ==
  ASSUME RoundInv, HoldInv, FlatInv, AllDone, lost = 0, NEW i \in Indices(n_participants),
         n_participants > Threshold \/ n_participants <= SmallNetwork
  PROVE  grad[i] = ReduceAll(tree, n_participants)[i]
<1> PICK M : M = Promise!MeanOfMeans
  OBVIOUS
<1> PICK x : x = Promise!Expected
  OBVIOUS
<1> DEFINE n == n_participants
<1>1. tree # NoTree /\ at[i] = Done
  BY DEF AllDone
<1>2. n \in Nat \ {0} /\ SoundTree(tree, n) /\ Threshold \in Nat /\ SmallNetwork \in Nat
  BY <1>1, ReduceAssumption DEF RoundInv, TreeInv
<1>3. Means(tree, n, M) /\ TopMean(tree, n, M, x)
  BY <1>1, MeansAlways DEF MeansInv
<1>4. grad[i] = x
  <2>1. Value(tree, M, x, i, at[i], grad[i])
    BY <1>1 DEF HoldInv, Holdings
  <2>2. at[i].pc = "done"
    BY <1>1 DEF Done, Waiting
  <2> QED
    BY <2>1, <2>2 DEF Value
<1>5. i \in Indices(n) /\ (n > Threshold \/ n <= SmallNetwork)
  OBVIOUS
<1>6. n <= SmallNetwork => DOMAIN tree = {0}
  BY <1>1 DEF FlatInv
<1> HIDE DEF n
<1>7. CASE n > Threshold
  <2>1. ReduceAll(tree, n)[i] = x
    BY <1>2, <1>3, <1>5, <1>7, LockstepTree
  <2> QED
    BY <1>4, <2>1 DEF n
<1>8. CASE ~(n > Threshold)
  <2>1. n <= Threshold /\ DOMAIN tree = {0}
    BY <1>2, <1>5, <1>6, <1>8
  <2>2. RingReduceAll(Indices(n), [j \in Indices(n) |-> Gradient[j]])[i] = x
    BY <1>2, <1>3, <1>5, <2>1, OneRing
  <2>3. ReduceAll(tree, n)[i] = x
    BY <2>1, <2>2 DEF ReduceAll
  <2> QED
    BY <1>4, <2>3 DEF n
<1> QED
  BY <1>7, <1>8

(* The lockstep simulation the tests use computes what the peers compute by*)
(* messages, for every number of peers above its threshold and for every   *)
(* one that gets a single cluster.                                         *)
THEOREM RoundAgrees ==
  ReduceSpec => [](n_participants > Threshold \/ n_participants <= SmallNetwork => SimulationAgrees)
<1>1. ReduceSpec => [](RoundInv /\ HoldInv)
  BY RoundInvariant, HoldInvariant, PTL
<1>2. ReduceSpec => ReduceInit /\ [][ReduceNext]_reduceVars
  BY DEF ReduceSpec
<1>3. ReduceInit => FlatInv
  BY DEF ReduceInit, FlatInv
<1>4. RoundInv /\ HoldInv /\ FlatInv =>
        (n_participants > Threshold \/ n_participants <= SmallNetwork => SimulationAgrees)
  BY LockstepAgrees DEF SimulationAgrees
<1> QED
  BY <1>1, <1>2, <1>3, <1>4, FlatSteps, PTL

(* In particular it always does when the threshold is at most the size up  *)
(* to which ClusterConfig.auto makes one cluster: both are 64 by default.  *)
THEOREM DefaultRoundAgrees ==
  ASSUME Threshold <= SmallNetwork
  PROVE  ReduceSpec => []SimulationAgrees
<1>1. ReduceSpec => [](RoundInv)
  BY RoundInvariant
<1>2. RoundInv => n_participants > Threshold \/ n_participants <= SmallNetwork
  BY ReduceAssumption DEF RoundInv, TreeInv
<1> QED
  BY <1>1, <1>2, RoundAgrees, PTL

-----------------------------------------------------------------------------
(* The trees of the two sides.                                             *)

(* Of n in groups of k, the members of group c.                            *)
Block(n, k, c) == {v \in Indices(n) : v \div k = c}

(* Sets that a one-to-one function takes to each other are of a size.      *)
LEMMA SameSize ==
  ASSUME NEW S, IsFiniteSet(S), NEW T, NEW f \in [S -> T],
         \A x, y \in S : f[x] = f[y] => x = y,
         \A y \in T : \E x \in S : f[x] = y
  PROVE  IsFiniteSet(T) /\ Cardinality(T) = Cardinality(S)
<1>1. f \in Bijection(S, T)
  BY DEF Bijection, Injection, IsInjective, Surjection
<1>2. ExistsBijection(S, T)
  BY <1>1 DEF ExistsBijection
<1> QED
  BY <1>2, FS_Bijection

(* No group has more than k members, nor more than there are; the first    *)
(* has as many.                                                            *)
LEMMA BlockSize ==
  ASSUME NEW n \in Nat \ {0}, NEW k \in Nat \ {0}, NEW c \in Nat
  PROVE  /\ IsFiniteSet(Block(n, k, c)) /\ Cardinality(Block(n, k, c)) \in Nat
         /\ Cardinality(Block(n, k, c)) <= k /\ Cardinality(Block(n, k, c)) <= n
         /\ Cardinality(Block(n, k, 0)) = Min({k, n})
<1>1. IsFiniteSet(Indices(n)) /\ Cardinality(Indices(n)) = n /\ \A i : i \in Indices(n) <=> i \in Nat /\ i < n
  BY IndexSet
<1>2. Block(n, k, c) \in SUBSET Indices(n)
  BY DEF Block
<1>3. IsFiniteSet(Block(n, k, c)) /\ Cardinality(Block(n, k, c)) <= n
  BY <1>1, <1>2, FS_Subset
<1> DEFINE a == k * c
<1>4. a \in Nat
  OBVIOUS
<1>5. \A v \in Block(n, k, c) : a <= v /\ v < a + k
  BY <1>1, Quotient DEF Block
<1> HIDE DEF a
<1>6. Block(n, k, c) \in SUBSET (a..(a + k - 1))
  BY <1>1, <1>2, <1>4, <1>5
<1>7. IsFiniteSet(a..(a + k - 1)) /\ Cardinality(a..(a + k - 1)) = k
  <2>1. a + k - 1 \in Int /\ a \in Int /\ ~(a > a + k - 1) /\ (a + k - 1) - a + 1 = k
    BY <1>4
  <2> QED
    BY <2>1, FS_Interval
<1>8. Cardinality(Block(n, k, c)) <= k
  BY <1>6, <1>7, FS_Subset
<1>9. Min({k, n}) = IF k <= n THEN k ELSE n
  BY DEF Min
<1>10. Block(n, k, 0) = Indices(Min({k, n}))
  <2>1. ASSUME NEW v \in Nat  PROVE v \div k = 0 <=> v < k
    <3>1. v \div k \in Nat /\ k * (v \div k) <= v /\ v < k * (v \div k) + k
      BY Quotient
    <3>2. v < k => v \div k = 0
      <4>1. k * 0 = 0
        OBVIOUS
      <4> QED
        BY <4>1, QuotientIs
    <3>3. v \div k = 0 => v < k
      BY <3>1
    <3> QED
      BY <3>2, <3>3
  <2>2. \A i : i \in Indices(Min({k, n})) <=> i \in Nat /\ i < Min({k, n})
    BY <1>9, IndexSet
  <2>3. \A i : i \in Indices(Min({k, n})) <=> i \in Nat /\ i < n /\ i < k
    BY <1>9, <2>2
  <2> QED
    BY <1>1, <2>1, <2>3 DEF Block
<1>11. Min({k, n}) \in Nat /\ Cardinality(Indices(Min({k, n}))) = Min({k, n})
  BY <1>9, IndexSet
<1>12. Cardinality(Block(n, k, c)) \in Nat
  BY <1>3, FS_CardinalityType
<1> QED
  BY <1>3, <1>8, <1>10, <1>11, <1>12

(* A permutation takes the clusters of the one side to groups, and groups  *)
(* to the clusters of the other.                                           *)
LEMMA LeavesSize ==
  ASSUME NEW n \in Nat \ {0}, NEW k \in Nat \ {0}, NEW order \in Permuted(n)
  PROVE  /\ DOMAIN Leaves(order, k) = Indices(CeilDiv(n, k)) /\ DOMAIN Chunked(order, k) = Indices(CeilDiv(n, k))
         /\ \A c \in Indices(CeilDiv(n, k)) :
              /\ Cardinality(Leaves(order, k)[c]) = Cardinality(Block(n, k, c))
              /\ Cardinality(Chunked(order, k)[c]) = Cardinality(Block(n, k, c))
<1>1. /\ order \in [Indices(n) -> Indices(n)] /\ DOMAIN order = Indices(n)
      /\ \A i, j \in Indices(n) : order[i] = order[j] => i = j
      /\ \A x \in Indices(n) : \E i \in Indices(n) : order[i] = x
  BY PermutedOnto
<1>2. Cardinality(Indices(n)) = n /\ IsFiniteSet(Indices(n))
  BY IndexSet
<1>3. DOMAIN Chunked(order, k) = Indices(CeilDiv(n, k))
  BY <1>1, <1>2 DEF Chunked
<1>4. DOMAIN Leaves(order, k) = Indices(CeilDiv(n, k))
  BY LeavesSound DEF SoundLevel
<1>5. ASSUME NEW c \in Indices(CeilDiv(n, k))
      PROVE  Cardinality(Leaves(order, k)[c]) = Cardinality(Block(n, k, c))
  <2> DEFINE L == {i \in Indices(n) : order[i] \div k = c}
             f == [i \in L |-> order[i]]
  <2>1. Leaves(order, k)[c] = L
    BY <1>1, <1>4 DEF Leaves
  <2>2. L \in SUBSET Indices(n)
    OBVIOUS
  <2>3. IsFiniteSet(L)
    BY <1>2, <2>2, FS_Subset
  <2>4. f \in [L -> Block(n, k, c)]
    BY <1>1 DEF Block
  <2>5. \A x, y \in L : f[x] = f[y] => x = y
    BY <1>1
  <2>6. \A y \in Block(n, k, c) : \E x \in L : f[x] = y
    BY <1>1 DEF Block
  <2> HIDE DEF L, f
  <2> QED
    BY <2>1, <2>3, <2>4, <2>5, <2>6, SameSize
<1>6. ASSUME NEW c \in Indices(CeilDiv(n, k))
      PROVE  Cardinality(Chunked(order, k)[c]) = Cardinality(Block(n, k, c))
  <2> DEFINE B == Block(n, k, c)
             C == {order[i] : i \in B}
             f == [i \in B |-> order[i]]
  <2>1. Chunked(order, k)[c] = C
    BY <1>1, <1>2 DEF Chunked, Block
  <2>2. B \in SUBSET Indices(n)
    BY DEF Block
  <2>3. IsFiniteSet(B)
    BY <1>2, <2>2, FS_Subset
  <2>4. f \in [B -> C]
    OBVIOUS
  <2>5. \A x, y \in B : f[x] = f[y] => x = y
    BY <1>1, <2>2
  <2>6. \A y \in C : \E x \in B : f[x] = y
    OBVIOUS
  <2> HIDE DEF B, C, f
  <2>7. Cardinality(C) = Cardinality(B)
    BY <2>3, <2>4, <2>5, <2>6, SameSize
  <2> QED
    BY <2>1, <2>7 DEF B
<1> QED
  BY <1>3, <1>4, <1>5, <1>6

(* What the Rust side makes of the inverse permutation are the leaves.     *)
LEMMA LeavesMirror ==
  ASSUME NEW n \in Nat \ {0}, NEW k \in Nat \ {0}, NEW order \in Permuted(n)
  PROVE  Leaves(order, k) = Chunked(InverseOf(order), k)
<1> DEFINE back == InverseOf(order)
<1>1. /\ order \in [Indices(n) -> Indices(n)] /\ DOMAIN order = Indices(n)
      /\ \A i, j \in Indices(n) : order[i] = order[j] => i = j
      /\ \A x \in Indices(n) : \E i \in Indices(n) : order[i] = x
  BY PermutedOnto
<1>2. back = [v \in Indices(n) |-> CHOOSE i \in Indices(n) : order[i] = v]
  BY <1>1 DEF InverseOf
<1> HIDE DEF back
<1>3. \A v \in Indices(n) : back[v] \in Indices(n) /\ order[back[v]] = v
  BY <1>1, <1>2
<1>4. \A i \in Indices(n) : back[order[i]] = i
  BY <1>1, <1>3
<1>5. Cardinality(Indices(n)) = n /\ DOMAIN back = Indices(n)
  BY <1>2, IndexSet
<1>6. Chunked(back, k) = [c \in Indices(CeilDiv(n, k)) |-> {back[v] : v \in {j \in Indices(n) : j \div k = c}}]
  BY <1>5 DEF Chunked
<1>7. DOMAIN Leaves(order, k) = Indices(CeilDiv(n, k))
  BY LeavesSize
<1>8. Leaves(order, k) = [c \in Indices(CeilDiv(n, k)) |-> {i \in Indices(n) : order[i] \div k = c}]
  BY <1>1, <1>7 DEF Leaves
<1>9. ASSUME NEW c
      PROVE  {i \in Indices(n) : order[i] \div k = c} = {back[v] : v \in {j \in Indices(n) : j \div k = c}}
  <2>1. ASSUME NEW i \in Indices(n), order[i] \div k = c
        PROVE  i \in {back[v] : v \in {j \in Indices(n) : j \div k = c}}
    BY <1>1, <1>4, <2>1
  <2>2. ASSUME NEW v \in Indices(n), v \div k = c
        PROVE  back[v] \in Indices(n) /\ order[back[v]] \div k = c
    BY <1>3, <2>2
  <2> QED
    BY <2>1, <2>2
<1> QED
  BY <1>6, <1>8, <1>9 DEF back

(* A cluster of leaders has as many members as there are clusters below.   *)
LEMMA GroupedSize ==
  ASSUME NEW k \in Nat \ {0}, NEW n \in Nat, NEW clusters, NEW N,
         SoundLevel(clusters, N, Indices(n)), NEW c \in Indices(CeilDiv(N, k))
  PROVE  Cardinality(Grouped(clusters, k)[c]) = Cardinality(Block(N, k, c))
<1> DEFINE B == Block(N, k, c)
           C == {Leader(clusters[j]) : j \in B}
           f == [j \in B |-> Leader(clusters[j])]
<1>1. N \in Nat \ {0} /\ DOMAIN clusters = Indices(N) /\ Cardinality(Indices(N)) = N /\ IsFiniteSet(Indices(N))
  BY IndexSet DEF SoundLevel
<1>2. Grouped(clusters, k)[c] = C
  BY <1>1 DEF Grouped, Block
<1>3. \A j \in Indices(N) : clusters[j] \subseteq Indices(n) /\ Leader(clusters[j]) \in clusters[j]
  <2>1. \A j \in Indices(N) : clusters[j] \subseteq Indices(n) /\ clusters[j] # {}
    BY DEF SoundLevel
  <2>2. Indices(n) \subseteq Nat
    BY IndexSet
  <2> QED
    BY <2>1, <2>2, LeaderIn
<1>4. B \in SUBSET Indices(N)
  BY DEF Block
<1>5. IsFiniteSet(B)
  BY <1>1, <1>4, FS_Subset
<1>6. f \in [B -> C]
  OBVIOUS
<1>7. \A x, y \in B : f[x] = f[y] => x = y
  BY <1>3, <1>4 DEF SoundLevel
<1>8. \A y \in C : \E x \in B : f[x] = y
  OBVIOUS
<1> HIDE DEF B, C, f
<1>9. Cardinality(C) = Cardinality(B)
  BY <1>5, <1>6, <1>7, <1>8, SameSize
<1> QED
  BY <1>2, <1>9 DEF B

(* How many peers are grouped on every level.                              *)
Narrows(peers, n, k, d) ==
  peers = [l \in 0..d |-> IF l = 0 THEN n ELSE CeilDiv(peers[l - 1], k)]

LEMMA NarrowsExists ==
  ASSUME NEW n, NEW k, NEW d \in Nat
  PROVE  \E peers : Narrows(peers, n, k, d)
<1> DEFINE bad == {m \in Nat : ~ \E peers : Narrows(peers, n, k, m)}
<1>1. bad = {}
  <2> SUFFICES ASSUME bad # {}  PROVE FALSE
    OBVIOUS
  <2>1. bad \in SUBSET Nat
    OBVIOUS
  <2>2. PICK m \in bad : \A e \in bad : m <= e
    BY <2>1, LeastNatural
  <2>3. m \in Nat /\ ~ \E peers : Narrows(peers, n, k, m)
    OBVIOUS
  <2>4. m # 0
    <3>1. Narrows([l \in 0..0 |-> n], n, k, 0)
      BY DEF Narrows
    <3> QED
      BY <2>3, <3>1
  <2>5. m - 1 \in Nat /\ m - 1 \notin bad
    <3>1. m - 1 \in Nat /\ ~(m <= m - 1)
      BY <2>3, <2>4
    <3> QED
      BY <2>2, <3>1
  <2>6. PICK g : Narrows(g, n, k, m - 1)
    BY <2>5
  <2> DEFINE h == [l \in 0..m |-> IF l = 0 THEN n ELSE CeilDiv(g[l - 1], k)]
  <2>7. \A l \in 0..m : l # 0 => l - 1 \in 0..(m - 1) /\ l - 1 \in 0..m
    BY <2>3
  <2>8. \A l \in 0..(m - 1) : l \in 0..m /\ h[l] = g[l]
    <3>1. \A l \in 0..(m - 1) : l \in 0..m
      BY <2>3
    <3> QED
      BY <2>6, <3>1 DEF Narrows
  <2>9. \A l \in 0..m : h[l] = IF l = 0 THEN n ELSE CeilDiv(h[l - 1], k)
    BY <2>7, <2>8
  <2>10. h = [l \in 0..m |-> IF l = 0 THEN n ELSE CeilDiv(h[l - 1], k)]
    BY <2>9
  <2> HIDE DEF h
  <2> QED
    BY <2>3, <2>10 DEF Narrows
<1> QED
  BY <1>1

(* The sizes of a tree: on every level as many clusters as its peers need, *)
(* each as large as its group.                                             *)
Sized(t, peers, k, d) ==
  \A l \in Indices(d) :
    /\ peers[l] \in Nat \ {0} /\ DOMAIN t[l] = Indices(CeilDiv(peers[l], k))
    /\ \A c \in DOMAIN t[l] : Cardinality(t[l][c]) = Cardinality(Block(peers[l], k, c))

LEMMA TreeSized ==
  ASSUME NEW n \in Nat \ {0}, NEW k \in Nat \ {0}, NEW d \in Nat \ {0}, NEW order \in Permuted(n),
         NEW peers, Narrows(peers, n, k, d)
  PROVE  Sized(AssignClusters(order, Config(k, d)), peers, k, d)
<1> DEFINE leaves == Leaves(order, k)
           t == AssignClusters(order, Config(k, d))
<1>1. t = [l \in Indices(d) |-> IF l = 0 THEN leaves ELSE Grouped(t[l - 1], k)]
  <2>1. t = Levels(leaves, Config(k, d))
    BY DEF AssignClusters, Config
  <2> QED
    BY <2>1, LevelsStep
<1>2. SoundLevel(leaves, CeilDiv(n, k), Indices(n))
  BY LeavesSound
<1>3. \A c \in Indices(CeilDiv(n, k)) : Cardinality(leaves[c]) = Cardinality(Block(n, k, c))
  BY LeavesSize
<1>4. \A l \in Indices(d) : l \in Nat /\ l < d /\ l \in 0..d
  BY IndexSet
<1> HIDE DEF leaves, t
<1> DEFINE good(l) == /\ peers[l] \in Nat \ {0} /\ SoundLevel(t[l], CeilDiv(peers[l], k), Indices(n))
                      /\ \A c \in Indices(CeilDiv(peers[l], k)) :
                           Cardinality(t[l][c]) = Cardinality(Block(peers[l], k, c))
           bad == {l \in Indices(d) : ~good(l)}
<1>5. bad = {}
  <2> SUFFICES ASSUME bad # {}  PROVE FALSE
    OBVIOUS
  <2>1. bad \in SUBSET Nat
    BY <1>4
  <2>2. PICK l \in bad : \A e \in bad : l <= e
    BY <2>1, LeastNatural
  <2>3. l \in Indices(d) /\ l \in Nat /\ l < d /\ l \in 0..d /\ ~good(l)
    BY <1>4
  <2>4. CASE l = 0
    <3>1. peers[l] = n /\ t[l] = leaves
      BY <1>1, <2>3, <2>4 DEF Narrows
    <3>2. good(l)
      BY <1>2, <1>3, <3>1
    <3> QED
      BY <2>3, <3>2
  <2>5. CASE l # 0
    <3>1. l - 1 \in Indices(d) /\ ~(l <= l - 1)
      BY <2>3, <2>5 DEF Indices
    <3>2. good(l - 1)
      BY <2>2, <3>1
    <3> DEFINE m == peers[l - 1]
               N == CeilDiv(m, k)
    <3>3. m \in Nat \ {0} /\ SoundLevel(t[l - 1], N, Indices(n))
      BY <3>2
    <3>4. peers[l] = N /\ t[l] = Grouped(t[l - 1], k)
      BY <1>1, <2>3, <2>5 DEF Narrows
    <3>5. N \in Nat \ {0}
      BY <3>3 DEF SoundLevel
    <3> HIDE DEF m, N
    <3>6. SoundLevel(Grouped(t[l - 1], k), CeilDiv(N, k), Indices(n))
      <4>1. n \in Nat
        OBVIOUS
      <4>2. /\ SoundLevel(Grouped(t[l - 1], k), CeilDiv(N, k), Indices(n))
            /\ \A i : Within(Grouped(t[l - 1], k), i) <=> \E c \in Indices(N) : i = Leader(t[l - 1][c])
        BY <3>3, <4>1, GroupedSound
      <4> QED
        BY <4>2, Zenon
    <3>7. \A c \in Indices(CeilDiv(N, k)) : Cardinality(Grouped(t[l - 1], k)[c]) = Cardinality(Block(N, k, c))
      BY <3>3, GroupedSize
    <3>8. good(l)
      BY <3>4, <3>5, <3>6, <3>7
    <3> QED
      BY <2>3, <3>8
  <2> QED
    BY <2>4, <2>5
<1>6. \A l \in Indices(d) : good(l)
  BY <1>5
<1>7. \A l \in Indices(d) : DOMAIN t[l] = Indices(CeilDiv(peers[l], k))
  BY <1>6 DEF SoundLevel
<1> QED
  BY <1>6, <1>7 DEF Sized, t

(* The largest cluster of a level is as large as the level lets it be.     *)
LEMMA LargestCluster ==
  ASSUME NEW t, NEW peers, NEW k \in Nat \ {0}, NEW d, Sized(t, peers, k, d), NEW l \in Indices(d)
  PROVE  /\ Max({Cardinality(t[l][c]) : c \in DOMAIN t[l]}) = Min({k, peers[l]})
         /\ Min({k, peers[l]}) \in Int
<1> DEFINE N == peers[l]
           sizes == {Cardinality(t[l][c]) : c \in DOMAIN t[l]}
<1>1. /\ N \in Nat \ {0} /\ DOMAIN t[l] = Indices(CeilDiv(N, k))
      /\ \A c \in DOMAIN t[l] : Cardinality(t[l][c]) = Cardinality(Block(N, k, c))
  BY DEF Sized
<1> HIDE DEF N
<1>2. CeilDiv(N, k) \in Nat /\ CeilDiv(N, k) > 0
  <2>1. N \in Nat /\ N > 0
    BY <1>1
  <2> QED
    BY <2>1, RoundedUp
<1>3. 0 \in DOMAIN t[l] /\ \A c \in DOMAIN t[l] : c \in Nat
  BY <1>1, <1>2 DEF Indices
<1>4. \A c \in Nat : /\ Cardinality(Block(N, k, c)) \in Nat
                     /\ Cardinality(Block(N, k, c)) <= k /\ Cardinality(Block(N, k, c)) <= N
                     /\ Cardinality(Block(N, k, 0)) = Min({k, N})
  BY <1>1, BlockSize
<1>5. Min({k, N}) = IF k <= N THEN k ELSE N
  BY <1>1 DEF Min
<1> DEFINE m == Min({k, N})
<1>6. m \in Nat /\ (m = k \/ m = N)
  BY <1>1, <1>5
<1>7. m \in sizes
  BY <1>1, <1>3, <1>4
<1>8. \A s \in sizes : s \in Nat /\ s <= m
  BY <1>1, <1>3, <1>4, <1>6
<1> HIDE DEF m, sizes
<1>9. Max(sizes) = m
  <2>1. \E x \in sizes : \A y \in sizes : x >= y
    BY <1>6, <1>7, <1>8
  <2> DEFINE x == Max(sizes)
  <2>2. x \in sizes /\ \A y \in sizes : x >= y
    BY <2>1 DEF Max
  <2> HIDE DEF x
  <2>3. x \in Nat /\ x <= m /\ x >= m
    BY <1>7, <1>8, <2>2
  <2>4. x = m
    BY <1>6, <2>3
  <2> QED
    BY <2>4 DEF x
<1> QED
  BY <1>6, <1>9 DEF m, sizes, N

(* What is counted for every level.                                        *)
OneOf(s) == CHOOSE x \in s : TRUE

Counting(iter, T, f) ==
  iter = [s \in SUBSET T |-> IF s = {} THEN 0 ELSE iter[s \ {OneOf(s)}] + f[OneOf(s)]]

(* Such counts exist, and are the same.                                    *)
LEMMA CountIs ==
  ASSUME NEW T, IsFiniteSet(T), NEW f \in [T -> Int]
  PROVE  \E h \in [SUBSET T -> Int] :
           Counting(h, T, f) /\ \A iter : Counting(iter, T, f) => iter[T] = h[T]
<1>1. PICK h \in [SUBSET T -> Int] : Adds(h, T, f)
  BY AddsExists
<1>2. \A s \in SUBSET T : s # {} => OneOf(s) \in s /\ s \ {OneOf(s)} \in SUBSET T
  BY DEF OneOf
<1>3. \A s \in SUBSET T : h[s] = IF s = {} THEN 0 ELSE h[s \ {OneOf(s)}] + f[OneOf(s)]
  BY <1>1, <1>2 DEF Adds
<1>4. Counting(h, T, f)
  BY <1>3 DEF Counting
<1>5. ASSUME NEW iter, Counting(iter, T, f)  PROVE iter[T] = h[T]
  <2> DEFINE differ == {s \in SUBSET T : iter[s] # h[s]}
             sizes == {Cardinality(s) : s \in differ}
  <2>1. \A s \in SUBSET T : IsFiniteSet(s) /\ Cardinality(s) \in Nat
    BY FS_Subset, FS_CardinalityType
  <2>2. \A s \in SUBSET T : iter[s] = IF s = {} THEN 0 ELSE iter[s \ {OneOf(s)}] + f[OneOf(s)]
    BY <1>5 DEF Counting
  <2>3. differ = {}
    <3> SUFFICES ASSUME differ # {}  PROVE FALSE
      OBVIOUS
    <3>1. sizes \in SUBSET Nat /\ sizes # {}
      BY <2>1
    <3>2. PICK c \in sizes : \A d \in sizes : c <= d
      BY <3>1, LeastNatural
    <3>3. PICK s \in differ : Cardinality(s) = c
      OBVIOUS
    <3>4. s \in SUBSET T /\ s # {}
      BY <1>3, <2>2
    <3>5. OneOf(s) \in s /\ s \ {OneOf(s)} \in SUBSET T
      BY <1>2, <3>4
    <3>6. Cardinality(s \ {OneOf(s)}) = c - 1 /\ c \in Nat
      BY <2>1, <3>3, <3>4, <3>5, FS_RemoveElement
    <3>7. s \ {OneOf(s)} \notin differ
      <4>1. s \ {OneOf(s)} \in differ => c <= c - 1
        BY <3>2, <3>6
      <4> QED
        BY <3>6, <4>1
    <3>8. iter[s \ {OneOf(s)}] = h[s \ {OneOf(s)}]
      BY <3>5, <3>7
    <3> QED
      BY <1>3, <2>2, <3>4, <3>8
  <2>4. T \in SUBSET T
    OBVIOUS
  <2>5. T \notin differ
    BY <2>3, Zenon
  <2> QED
    BY <2>4, <2>5
<1> QED
  BY <1>4, <1>5

(* The rounds counted on a tree are the rounds counted from the sizes.     *)
LEMMA RoundsMirror ==
  ASSUME NEW t, NEW n, NEW k \in Nat \ {0}, NEW d \in Nat \ {0}, DOMAIN t = Indices(d),
         \A peers : Narrows(peers, n, k, d) => Sized(t, peers, k, d)
  PROVE  TotalRounds(t) = ScalingRounds(n, Config(k, d))
<1> DEFINE T == Indices(d)
           peers == CHOOSE p : p = [l \in 0..d |-> IF l = 0 THEN n ELSE CeilDiv(p[l - 1], k)]
           f == [l \in T |-> 2 * (Min({k, peers[l]}) - 1)]
           ofTree == CHOOSE it : it = [s \in SUBSET T |-> IF s = {} THEN 0 ELSE it[s \ {OneOf(s)}]
                       + 2 * (Max({Cardinality(t[OneOf(s)][c]) : c \in DOMAIN t[OneOf(s)]}) - 1)]
           ofSizes == CHOOSE it : it = [s \in SUBSET T |-> IF s = {} THEN 0 ELSE it[s \ {OneOf(s)}]
                       + 2 * (Min({k, peers[OneOf(s)]}) - 1)]
<1>1. TotalRounds(t) = ofTree[T]
  BY DEF TotalRounds, FoldSet, MapThenFoldSet, OneOf
<1>2. Config(k, d).depth = d /\ Config(k, d).size = k
  BY DEF Config
<1>3. ScalingRounds(n, Config(k, d)) = ofSizes[T]
  BY <1>2 DEF ScalingRounds, FoldSet, MapThenFoldSet, OneOf
<1>4. Narrows(peers, n, k, d)
  <2>1. PICK g : Narrows(g, n, k, d)
    BY NarrowsExists
  <2>2. \E p : p = [l \in 0..d |-> IF l = 0 THEN n ELSE CeilDiv(p[l - 1], k)]
    BY <2>1 DEF Narrows
  <2>3. peers = [l \in 0..d |-> IF l = 0 THEN n ELSE CeilDiv(peers[l - 1], k)]
    BY <2>2
  <2> HIDE DEF peers
  <2> QED
    BY <2>3 DEF Narrows
<1> HIDE DEF peers
<1>5. Sized(t, peers, k, d)
  BY <1>4
<1>6. \A l \in T : /\ Max({Cardinality(t[l][c]) : c \in DOMAIN t[l]}) = Min({k, peers[l]})
                   /\ Min({k, peers[l]}) \in Int
  BY <1>5, LargestCluster
<1>7. f \in [T -> Int] /\ IsFiniteSet(T)
  <2>1. \A l \in T : Min({k, peers[l]}) \in Int
    BY <1>6
  <2>2. \A l \in T : 2 * (Min({k, peers[l]}) - 1) \in Int
    BY <2>1
  <2>3. IsFiniteSet(T)
    BY IndexSet
  <2> HIDE DEF T
  <2> QED
    BY <2>2, <2>3
<1>8. \A s \in SUBSET T : s # {} => OneOf(s) \in T
  BY DEF OneOf
<1>9. \A it : [s \in SUBSET T |-> IF s = {} THEN 0 ELSE it[s \ {OneOf(s)}]
                 + 2 * (Max({Cardinality(t[OneOf(s)][c]) : c \in DOMAIN t[OneOf(s)]}) - 1)]
              = [s \in SUBSET T |-> IF s = {} THEN 0 ELSE it[s \ {OneOf(s)}] + f[OneOf(s)]]
  BY <1>6, <1>8
<1>10. \A it : [s \in SUBSET T |-> IF s = {} THEN 0 ELSE it[s \ {OneOf(s)}]
                 + 2 * (Min({k, peers[OneOf(s)]}) - 1)]
              = [s \in SUBSET T |-> IF s = {} THEN 0 ELSE it[s \ {OneOf(s)}] + f[OneOf(s)]]
  BY <1>8
<1> HIDE DEF f
<1>11. PICK h \in [SUBSET T -> Int] : Counting(h, T, f) /\ \A iter : Counting(iter, T, f) => iter[T] = h[T]
  BY <1>7, CountIs
<1>12. Counting(ofTree, T, f)
  <2>1. h = [s \in SUBSET T |-> IF s = {} THEN 0 ELSE h[s \ {OneOf(s)}]
               + 2 * (Max({Cardinality(t[OneOf(s)][c]) : c \in DOMAIN t[OneOf(s)]}) - 1)]
    BY <1>9, <1>11, Zenon DEF Counting
  <2>2. ofTree = [s \in SUBSET T |-> IF s = {} THEN 0 ELSE ofTree[s \ {OneOf(s)}]
               + 2 * (Max({Cardinality(t[OneOf(s)][c]) : c \in DOMAIN t[OneOf(s)]}) - 1)]
    BY <2>1, Zenon
  <2> HIDE DEF ofTree
  <2>3. ofTree = [s \in SUBSET T |-> IF s = {} THEN 0 ELSE ofTree[s \ {OneOf(s)}] + f[OneOf(s)]]
    BY <1>9, <2>2, Zenon
  <2> QED
    BY <2>3 DEF Counting
<1>13. Counting(ofSizes, T, f)
  <2>1. h = [s \in SUBSET T |-> IF s = {} THEN 0 ELSE h[s \ {OneOf(s)}] + 2 * (Min({k, peers[OneOf(s)]}) - 1)]
    BY <1>10, <1>11, Zenon DEF Counting
  <2>2. ofSizes = [s \in SUBSET T |-> IF s = {} THEN 0 ELSE ofSizes[s \ {OneOf(s)}]
               + 2 * (Min({k, peers[OneOf(s)]}) - 1)]
    BY <2>1, Zenon
  <2> HIDE DEF ofSizes
  <2>3. ofSizes = [s \in SUBSET T |-> IF s = {} THEN 0 ELSE ofSizes[s \ {OneOf(s)}] + f[OneOf(s)]]
    BY <1>10, <2>2, Zenon
  <2> QED
    BY <2>3 DEF Counting
<1> QED
  BY <1>1, <1>3, <1>11, <1>12, <1>13

(* Both sides take as many levels as are needed, or the one a level more.  *)
LEMMA DepthsMirror ==
  ASSUME NEW n \in Nat \ {0}, NEW target \in Nat \ {0}, NEW small \in Nat,
         target > 1 => n <= Power(target, 7),
         NEW c \in AutoConfigs(n, target, small)
  PROVE  c.depth - OptimalDepth(n, c.size) \in {0, 1}
<1> DEFINE k == Min({target, n})
           enough == {d \in 1..n : Power(k, d) >= n}
           least == Min(enough)
<1>1. \A m, d : Config(m, d).size = m /\ Config(m, d).depth = d
  BY DEF Config
<1>2. CASE c = Config(n, 1)
  <2>1. OptimalDepth(n, n) = 1
    BY DEF OptimalDepth
  <2> QED
    BY <1>1, <1>2, <2>1
<1>3. CASE c # Config(n, 1)
  <2>1. ~(n <= small \/ k <= 1) /\ c \in {Config(k, d) : d \in {least} \cup {e \in {least + 1} : least > 1 /\ Power(k, least) = n}}
    BY <1>3 DEF AutoConfigs
  <2>2. k \in {target, n} /\ k <= n /\ k <= target
    BY DEF Min
  <2>3. k \in 1..n /\ k \in Nat \ {0, 1}
    BY <2>1, <2>2
  <2> HIDE DEF k
  <2>4. n \in enough
    BY <2>3, PowerReaches, PowerSteps
  <2>5. least \in enough /\ \A d \in enough : least <= d
    <3>1. enough \in SUBSET Nat /\ enough # {}
      BY <2>4
    <3>2. \E x \in enough : \A y \in enough : x <= y
      BY <3>1, LeastNatural
    <3> QED
      BY <3>2 DEF Min
  <2>6. least \in 1..n /\ n <= Power(k, least) /\ least \in Nat /\ \A d \in 1..n : n <= Power(k, d) => least <= d
    <3>1. \A e \in Nat : Power(k, e) \in Nat
      BY <2>3, PowerSteps
    <3>2. \A d \in 1..n : d \in Nat
      OBVIOUS
    <3> QED
      BY <2>5, <3>1, <3>2
  <2> HIDE DEF enough, least
  <2>7. Power(k, 1) = k
    <3>1. Power(k, 0) = 1 /\ Power(k, 0 + 1) = k * Power(k, 0)
      BY <2>3, PowerSteps
    <3> QED
      BY <2>3, <3>1
  <2>8. PICK d \in {least, least + 1} : c = Config(k, d) /\ (d # least => least > 1)
    BY <2>1
  <2>9. CASE n <= k
    <3>1. least = 1
      BY <2>3, <2>6, <2>7, <2>9
    <3>2. OptimalDepth(n, k) = 1
      BY <2>9 DEF OptimalDepth
    <3> QED
      BY <1>1, <2>8, <3>1, <3>2
  <2>10. CASE ~(n <= k)
    <3> DEFINE S == {e \in 2..7 : Power(k, e) >= n} \cup {7}
    <3>1. OptimalDepth(n, k) = Min(S)
      BY <2>10 DEF OptimalDepth
    <3>2. k = target /\ n <= Power(k, 7)
      BY <2>2, <2>3, <2>10
    <3>3. \A e \in Nat : Power(k, e) \in Nat
      BY <2>3, PowerSteps
    <3>4. \A e \in S : e \in 2..7 /\ n <= Power(k, e)
      BY <3>2, <3>3
    <3>5. \A e \in S : least <= e
      BY <2>6, <3>4
    <3>6. least # 1
      BY <2>3, <2>6, <2>7, <2>10
    <3>7. least \in S
      <4>1. 7 \in S
        OBVIOUS
      <4>2. least \in 2..7
        BY <2>6, <3>5, <3>6, <4>1
      <4> QED
        BY <2>6, <3>3, <4>2
    <3> HIDE DEF S
    <3>8. Min(S) = least
      <4> DEFINE x == Min(S)
      <4>1. x \in S /\ \A e \in S : x <= e
        BY <3>5, <3>7 DEF Min
      <4> HIDE DEF x
      <4>2. x <= least /\ least <= x /\ x \in 2..7
        BY <3>4, <3>5, <3>7, <4>1
      <4>3. x = least
        BY <2>6, <4>2
      <4> QED
        BY <4>3 DEF x
    <3> QED
      BY <1>1, <2>6, <2>8, <3>1, <3>8
  <2> QED
    BY <2>9, <2>10
<1> QED
  BY <1>2, <1>3

(* What TreesMirror says of a step.                                        *)
TreeMirrors ==
  LET rust == RustAssignClusters(perm', config') IN
    /\ tree' = RustAssignClusters(InverseOf(perm'), config')
    /\ \A c \in DOMAIN tree'[0] : Cardinality(tree'[0][c]) = Cardinality(rust[0][c])
    /\ TotalRounds(tree') = ScalingRounds(n_participants, config')
    /\ n_participants > SmallNetwork =>
         config'.depth - OptimalDepth(n_participants, config'.size) \in {0, 1}

(* What finalize computes is what the Rust side computes.                  *)
LEMMA FinalizeMirrors ==
  ASSUME n_participants \in 0..MaxPeers, Finalize,
         \A k \in ClusterSizes : k > 1 => MaxPeers <= Power(k, 7)
  PROVE  TreeMirrors
<1> DEFINE n == n_participants
<1>1. n \in Nat \ {0} /\ MaxPeers \in Nat /\ SmallNetwork \in Nat
  BY ReduceAssumption DEF Finalize
<1>2. PICK target \in ClusterSizes : config' \in AutoConfigs(n, target, SmallNetwork)
  BY DEF Finalize
<1>3. target \in Nat \ {0}
  BY ReduceAssumption
<1>4. PICK k \in 1..n, d \in 1..(n + 1) : config' = Config(k, d) /\ n <= Power(k, d)
  BY FinalizeTree
<1>5. k \in Nat \ {0} /\ d \in Nat \ {0}
  BY <1>1
<1>6. perm' \in Permuted(n)
  BY FinalizeTree
<1> DEFINE order == perm'
           t == AssignClusters(order, Config(k, d))
<1>7. tree' = t
  BY <1>4 DEF Finalize
<1>8. Config(k, d).size = k /\ Config(k, d).depth = d
  BY DEF Config
<1>9. tree' = RustAssignClusters(InverseOf(order), config')
  <2>1. t = Levels(Leaves(order, k), Config(k, d))
    BY <1>8 DEF AssignClusters
  <2>2. RustAssignClusters(InverseOf(order), Config(k, d)) = Levels(Chunked(InverseOf(order), k), Config(k, d))
    BY <1>8 DEF RustAssignClusters
  <2>3. Leaves(order, k) = Chunked(InverseOf(order), k)
    BY <1>1, <1>5, <1>6, LeavesMirror
  <2> QED
    BY <1>4, <1>7, <2>1, <2>2, <2>3
<1>10. \A c \in DOMAIN tree'[0] : Cardinality(tree'[0][c]) = Cardinality(RustAssignClusters(order, config')[0][c])
  <2>1. \A leaves : Levels(leaves, Config(k, d))[0] = leaves
    <3>1. 0 \in Indices(d)
      BY <1>5 DEF Indices
    <3> QED
      BY <1>5, <3>1, LevelsStep
  <2>2. tree'[0] = Leaves(order, k) /\ RustAssignClusters(order, config')[0] = Chunked(order, k)
    BY <1>4, <1>7, <1>8, <2>1 DEF AssignClusters, RustAssignClusters
  <2>3. /\ DOMAIN Leaves(order, k) = Indices(CeilDiv(n, k))
        /\ \A c \in Indices(CeilDiv(n, k)) :
              /\ Cardinality(Leaves(order, k)[c]) = Cardinality(Block(n, k, c))
              /\ Cardinality(Chunked(order, k)[c]) = Cardinality(Block(n, k, c))
    BY <1>1, <1>5, <1>6, LeavesSize
  <2> QED
    BY <2>2, <2>3
<1>11. TotalRounds(tree') = ScalingRounds(n, config')
  <2>1. \A peers : Narrows(peers, n, k, d) => Sized(t, peers, k, d)
    BY <1>1, <1>5, <1>6, TreeSized
  <2>2. DOMAIN t = Indices(d)
    <3>1. t = Levels(Leaves(order, k), Config(k, d))
      BY <1>8 DEF AssignClusters
    <3> QED
      BY <1>5, <3>1, LevelsStep
  <2>3. TotalRounds(t) = ScalingRounds(n, Config(k, d))
    BY <1>5, <2>1, <2>2, RoundsMirror
  <2> QED
    BY <1>4, <1>7, <2>3
<1>12. config'.depth - OptimalDepth(n, config'.size) \in {0, 1}
  <2>1. target > 1 => n <= Power(target, 7)
    <3>1. Power(target, 7) \in Nat
      BY <1>3, PowerSteps
    <3> QED
      BY <1>1, <3>1
  <2> DEFINE c == config'
  <2>2. c \in AutoConfigs(n, target, SmallNetwork)
    BY <1>2
  <2> HIDE DEF c
  <2>3. c.depth - OptimalDepth(n, c.size) \in {0, 1}
    BY <1>1, <1>3, <2>1, <2>2, DepthsMirror
  <2> QED
    BY <2>3 DEF c
<1> QED
  BY <1>9, <1>10, <1>11, <1>12 DEF TreeMirrors

(* The tree of a round is the one that the Rust side computes from the     *)
(* inverse permutation, and both count the same rounds, for any number of  *)
(* peers that the seven levels of the Rust side can hold.                  *)
THEOREM RoundMirrors ==
  ASSUME \A k \in ClusterSizes : k > 1 => MaxPeers <= Power(k, 7)
  PROVE  ReduceSpec => TreesMirror
<1>1. ReduceSpec => [][ReduceNext]_reduceVars
  BY DEF ReduceSpec
<1>2. RoundInv /\ [ReduceNext]_reduceVars => (tree # tree' => TreeMirrors)
  <2> SUFFICES ASSUME RoundInv, ReduceNext, tree # tree'  PROVE TreeMirrors
    BY DEF reduceVars
  <2>1. Finalize
    BY DEF ReduceNext, RegisterPeer, Step, RingSend, RingReceive, Broadcast, ReceiveBroadcast
  <2>2. tree = NoTree
    BY <2>1 DEF Finalize
  <2>3. n_participants \in 0..MaxPeers
    BY <2>2 DEF RoundInv, TreeInv
  <2> QED
    BY <2>1, <2>3, FinalizeMirrors
<1>3. RoundInv /\ [ReduceNext]_reduceVars => [tree # tree' => TreeMirrors]_reduceVars
  BY <1>2
<1>4. ReduceSpec => [][tree # tree' => TreeMirrors]_reduceVars
  BY <1>1, <1>3, RoundInvariant, PTL
<1> QED
  BY <1>4, Zenon DEF TreesMirror, TreeMirrors

-----------------------------------------------------------------------------
(* The shard map.                                                          *)

(* What a map may hold: entries that were written under their key, no newer  *)
(* than the map's own clock. Clones and local maps alike.                    *)
SoundMap(m) ==
  \A k \in Key : m.entries[k] # NoEntry =>
    /\ m.entries[k] \in written
    /\ m.entries[k].key = k
    /\ m.entries[k].version <= m.clock

FreshClock == \A e \in written : e.version <= clock[e.origin]

IndInv ==
  /\ TypeOK
  /\ FreshClock
  /\ TiesAreConcurrent
  /\ \A r \in Replica : SoundMap(Local(r))
  /\ \A m \in clones : SoundMap(m)

-----------------------------------------------------------------------------
(* IndInv says the same as the checked invariant, map by map.                *)
LEMMA IndInvImplies == IndInv => ShardInv /\ ClockDominates /\ TiesAreConcurrent
<1> SUFFICES ASSUME IndInv PROVE ShardInv
  BY DEF ShardInv
<1> USE DEF IndInv
<1>1. \A m \in Maps : SoundMap(m)
  BY DEF Maps
<1>2. \A m \in Maps : m.entries \in [Key -> Entry \cup {NoEntry}]
  BY DEF Maps, Local, TypeOK, Map
<1>3. ClockDominates
  BY <1>1, <1>2 DEF ClockDominates, Held, SoundMap
<1>4. HeldWereWritten
  BY <1>1 DEF HeldWereWritten, SoundMap, FreshClock
<1> QED
  BY <1>3, <1>4 DEF ShardInv, FreshClock

(* The larger of two clocks bounds both.                                     *)
LEMMA LargerBounds ==
  ASSUME NEW a \in Nat, NEW b \in Nat
  PROVE  Larger(a, b) \in Nat /\ a <= Larger(a, b) /\ b <= Larger(a, b)
BY DEF Larger

(* The empty maps.                                                         *)
LEMMA InitIndInv == Init => IndInv
BY DEF Init, IndInv, TypeOK, FreshClock, TiesAreConcurrent, SoundMap, Local

-----------------------------------------------------------------------------
(* assign stamps a version its replica has never used.                       *)
LEMMA AssignStep ==
  ASSUME IndInv, NEW r \in Replica, NEW k \in Key, NEW p \in Peer, Assign(r, k, p)
  PROVE  IndInv'
<1> DEFINE e == [key |-> k, peer |-> p, version |-> clock[r] + 1, origin |-> r]
<1> USE DEF IndInv, TypeOK
<1>1. /\ e \in Entry
      /\ entries' = [entries EXCEPT ![r][k] = e]
      /\ written' = written \cup {e}
      /\ clock' = [clock EXCEPT ![r] = clock[r] + 1]
      /\ clones' = clones
  BY DEF Assign, Entry
<1> HIDE DEF e
<1>2. e.version = clock[r] + 1 /\ e.origin = r /\ e.key = k
  BY DEF e
<1>3. TypeOK'
  BY <1>1
<1>4. FreshClock'
  <2> SUFFICES ASSUME NEW f \in written' PROVE f.version <= clock'[f.origin]
    BY DEF FreshClock
  <2>1. CASE f = e
    BY <1>1, <1>2, <2>1
  <2>2. CASE f \in written
    BY <1>1, <2>2 DEF FreshClock, Entry
  <2> QED
    BY <1>1, <2>1, <2>2
<1>5. TiesAreConcurrent'
  <2> SUFFICES ASSUME NEW f \in written', NEW g \in written',
                      f.version = g.version, f # g
               PROVE  f.origin # g.origin
    BY DEF TiesAreConcurrent
  <2>1. \A h \in written : h.origin = r => h.version # e.version
    BY <1>2 DEF FreshClock, Entry
  <2>2. CASE f = e /\ g \in written
    BY <1>2, <2>1, <2>2
  <2>3. CASE g = e /\ f \in written
    BY <1>2, <2>1, <2>3
  <2>4. CASE f \in written /\ g \in written
    BY <2>4 DEF TiesAreConcurrent
  <2> QED
    BY <1>1, <2>2, <2>3, <2>4
<1>6. \A m \in clones' : SoundMap(m)'
  BY <1>1 DEF SoundMap
<1>7. ASSUME NEW s \in Replica PROVE SoundMap(Local(s))'
  <2>1. CASE s = r
    <3> SUFFICES ASSUME NEW j \in Key, entries'[r][j] # NoEntry
                 PROVE  /\ entries'[r][j] \in written'
                        /\ entries'[r][j].key = j
                        /\ entries'[r][j].version <= clock'[r]
      BY <2>1 DEF SoundMap, Local
    <3>1. CASE j = k
      BY <1>1, <1>2, <3>1
    <3>2. CASE j # k
      BY <1>1, <3>2 DEF SoundMap, Local, Entry
    <3> QED
      BY <3>1, <3>2
  <2>2. CASE s # r
    BY <1>1, <2>2 DEF SoundMap, Local
  <2> QED
    BY <2>1, <2>2
<1> QED
  BY <1>3, <1>4, <1>5, <1>6, <1>7

(* merge keeps entries below the joined clock.                               *)
LEMMA MergeStep ==
  ASSUME IndInv, NEW r \in Replica, NEW m \in clones, Merge(r, m)
  PROVE  IndInv'
<1> USE DEF IndInv, TypeOK
<1>1. m.clock \in Nat /\ m.entries \in [Key -> Entry \cup {NoEntry}]
  BY DEF Map
<1>2. /\ entries' = [entries EXCEPT ![r] =
                       [k \in Key |-> MergedEntry(entries[r][k], m.entries[k])]]
      /\ clock' = [clock EXCEPT ![r] = Larger(clock[r], m.clock)]
      /\ clones' = clones
      /\ written' = written
  BY DEF Merge
<1>3. \A k \in Key : \/ MergedEntry(entries[r][k], m.entries[k]) = entries[r][k]
                     \/ MergedEntry(entries[r][k], m.entries[k]) = m.entries[k]
  BY DEF MergedEntry
<1>4. /\ Larger(clock[r], m.clock) \in Nat
      /\ clock[r] <= Larger(clock[r], m.clock)
      /\ m.clock <= Larger(clock[r], m.clock)
  BY <1>1, LargerBounds
<1>5. TypeOK'
  <2>1. [k \in Key |-> MergedEntry(entries[r][k], m.entries[k])]
          \in [Key -> Entry \cup {NoEntry}]
    BY <1>1, <1>3
  <2> QED
    BY <1>2, <1>4, <2>1
<1>6. FreshClock'
  BY <1>2, <1>4 DEF FreshClock, Entry
<1>7. TiesAreConcurrent'
  BY <1>2 DEF TiesAreConcurrent
<1>8. \A c \in clones' : SoundMap(c)'
  BY <1>2 DEF SoundMap
<1>9. ASSUME NEW s \in Replica PROVE SoundMap(Local(s))'
  <2>1. CASE s = r
    <3> SUFFICES ASSUME NEW k \in Key, entries'[r][k] # NoEntry
                 PROVE  /\ entries'[r][k] \in written
                        /\ entries'[r][k].key = k
                        /\ entries'[r][k].version <= clock'[r]
      BY <1>2, <2>1 DEF SoundMap, Local
    <3>1. entries'[r][k] = entries[r][k] \/ entries'[r][k] = m.entries[k]
      BY <1>2, <1>3
    <3>2. clock'[r] = Larger(clock[r], m.clock)
      BY <1>2
    <3>3. CASE entries'[r][k] = entries[r][k]
      BY <1>4, <3>2, <3>3 DEF SoundMap, Local, Entry
    <3>4. CASE entries'[r][k] = m.entries[k]
      BY <1>1, <1>4, <3>2, <3>4 DEF SoundMap, Entry
    <3> QED
      BY <3>1, <3>3, <3>4
  <2>2. CASE s # r
    BY <1>2, <2>2 DEF SoundMap, Local
  <2> QED
    BY <2>1, <2>2
<1> QED
  BY <1>5, <1>6, <1>7, <1>8, <1>9

(* Every step of the shard map keeps the invariant.                        *)
LEMMA NextStep == IndInv /\ [Next]_vars => IndInv'
<1> SUFFICES ASSUME IndInv, [Next]_vars PROVE IndInv'
  OBVIOUS
<1>1. ASSUME NEW r \in Replica, NEW k \in Key, NEW p \in Peer, Assign(r, k, p)
      PROVE  IndInv'
  BY <1>1, AssignStep
<1>2. ASSUME NEW r \in Replica, NEW p \in Peer, RemovePeer(r, p)
      PROVE  IndInv'
  <2>1. /\ entries' \in [Replica -> [Key -> Entry \cup {NoEntry}]]
        /\ \A s \in Replica, k \in Key : entries'[s][k] \in {NoEntry, entries[s][k]}
        /\ UNCHANGED <<clock, clones, written>>
    BY <1>2 DEF RemovePeer, IndInv, TypeOK
  <2> QED
    BY <2>1 DEF IndInv, TypeOK, FreshClock, TiesAreConcurrent, SoundMap, Local
<1>3. ASSUME NEW r \in Replica, CloneMap(r)
      PROVE  IndInv'
  <2>1. Local(r) \in Map /\ SoundMap(Local(r))
    BY DEF IndInv, TypeOK, Map, Local
  <2>2. /\ clones' = clones \cup {Local(r)}
        /\ UNCHANGED <<entries, clock, written>>
    BY <1>3 DEF CloneMap
  <2>3. \A m : SoundMap(m)' <=> (\A k \in Key : m.entries[k] # NoEntry =>
                                    /\ m.entries[k] \in written
                                    /\ m.entries[k].key = k
                                    /\ m.entries[k].version <= m.clock)
    BY <2>2 DEF SoundMap
  <2>4. \A m \in clones' : SoundMap(m)'
    BY <2>1, <2>2 DEF IndInv, SoundMap
  <2>5. \A s \in Replica : SoundMap(Local(s))'
    BY <2>2 DEF IndInv, SoundMap, Local
  <2> QED
    BY <2>1, <2>2, <2>4, <2>5 DEF IndInv, TypeOK, FreshClock, TiesAreConcurrent
<1>4. ASSUME NEW m \in clones, DropClone(m) PROVE IndInv'
  BY <1>4 DEF DropClone, IndInv, TypeOK, FreshClock, TiesAreConcurrent, SoundMap, Local
<1>5. ASSUME NEW r \in Replica, NEW m \in clones, Merge(r, m) PROVE IndInv'
  BY <1>5, MergeStep
<1>6. CASE UNCHANGED vars
  BY <1>6 DEF vars, IndInv, TypeOK, FreshClock, TiesAreConcurrent, SoundMap, Local
<1>7. ASSUME NEW r \in Replica, NEW m \in clones, HandleShardMapUpdate(r, m)
      PROVE  IndInv'
  BY <1>5, <1>6, <1>7 DEF HandleShardMapUpdate
<1> QED
  BY <1>1, <1>2, <1>3, <1>4, <1>5, <1>6, <1>7 DEF Next

-----------------------------------------------------------------------------

(* The invariant of the shard map.                                         *)
LEMMA Inductive == Spec => []IndInv
BY InitIndInv, NextStep, PTL DEF Spec

(* Clocks dominate, versions identify the assignments of a replica, and      *)
(* nothing is held that was not assigned, in every map and every clone.      *)
THEOREM ShardSafety == Spec => []ShardInv
<1>1. IndInv => ShardInv
  BY IndInvImplies
<1> QED
  BY <1>1, Inductive, PTL

(* No version a map holds is ahead of the map's own clock.                   *)
THEOREM ClocksDominate == Spec => []ClockDominates
<1>1. IndInv => ClockDominates
  BY IndInvImplies
<1> QED
  BY <1>1, Inductive, PTL

(* Two entries of one key and version were assigned by different replicas.   *)
THEOREM TiesStayConcurrent == Spec => []TiesAreConcurrent
<1>1. IndInv => TiesAreConcurrent
  BY IndInvImplies
<1> QED
  BY <1>1, Inductive, PTL

(* Mutual absorption leaves only concurrent assignments undecided.           *)
THEOREM Convergence == Spec => []ConvergedUpToTies
<1>1. IndInv => ConvergedUpToTies
  <2> SUFFICES ASSUME IndInv, NEW r \in Replica, NEW s \in Replica,
                      Absorbed(r, Local(s)), Absorbed(s, Local(r)),
                      NEW k \in Key, entries[r][k] # entries[s][k]
               PROVE  /\ entries[r][k] # NoEntry /\ entries[s][k] # NoEntry
                      /\ entries[r][k].version = entries[s][k].version
                      /\ entries[r][k].origin # entries[s][k].origin
    BY DEF ConvergedUpToTies
  <2>1. /\ MergedEntry(entries[r][k], entries[s][k]) = entries[r][k]
        /\ MergedEntry(entries[s][k], entries[r][k]) = entries[s][k]
    BY DEF Absorbed, Local
  <2>2. entries[r][k] # NoEntry /\ entries[s][k] # NoEntry
    BY <2>1 DEF MergedEntry
  <2>3. entries[r][k] \in Entry /\ entries[s][k] \in Entry
    BY <2>2 DEF IndInv, TypeOK
  <2>4. entries[r][k].version = entries[s][k].version
    BY <2>1, <2>2, <2>3 DEF MergedEntry, Entry
  <2>5. entries[r][k] \in written /\ entries[s][k] \in written
    BY <2>2 DEF IndInv, SoundMap, Local
  <2> QED
    BY <2>2, <2>4, <2>5 DEF IndInv, TiesAreConcurrent
<1> QED
  BY <1>1, Inductive, PTL

(* A replica replaces an entry only by a newer one.                          *)
THEOREM LastWriterWins == Spec => EntriesOnlyAdvance
<1> DEFINE A == \A r \in Replica, k \in Key : entries[r][k] # NoEntry =>
                  \/ entries'[r][k] = entries[r][k]
                  \/ /\ entries'[r][k] # NoEntry
                     /\ entries'[r][k].version > entries[r][k].version
                  \/ RemovePeer(r, entries[r][k].peer)
<1>1. IndInv /\ [Next]_vars => A
  <2> SUFFICES ASSUME IndInv, [Next]_vars, NEW r \in Replica, NEW k \in Key,
                      entries[r][k] # NoEntry,
                      entries'[r][k] # entries[r][k]
               PROVE  \/ /\ entries'[r][k] # NoEntry
                         /\ entries'[r][k].version > entries[r][k].version
                      \/ RemovePeer(r, entries[r][k].peer)
    OBVIOUS
  <2> USE DEF IndInv, TypeOK
  <2>1. entries[r][k] \in Entry
    OBVIOUS
  <2>2. ASSUME NEW s \in Replica, NEW j \in Key, NEW p \in Peer, Assign(s, j, p)
        PROVE  entries'[r][k] # NoEntry /\ entries'[r][k].version > entries[r][k].version
    <3>1. s = r /\ j = k
      BY <2>2 DEF Assign
    <3>2. entries'[r][k] = [key |-> k, peer |-> p, version |-> clock[r] + 1, origin |-> r]
      BY <2>2, <3>1 DEF Assign
    <3>3. entries'[r][k] \in Entry
      BY <3>2 DEF Entry
    <3>4. entries[r][k].version <= clock[r]
      BY DEF SoundMap, Local
    <3> QED
      BY <2>1, <3>2, <3>3, <3>4, ShardAssumption DEF Entry
  <2>3. ASSUME NEW s \in Replica, NEW p \in Peer, RemovePeer(s, p)
        PROVE  RemovePeer(r, entries[r][k].peer)
    <3>1. s = r /\ entries[r][k].peer = p
      BY <2>3 DEF RemovePeer
    <3> QED
      BY <2>3, <3>1
  <2>4. ASSUME NEW s \in Replica, NEW m \in clones, Merge(s, m)
        PROVE  entries'[r][k] # NoEntry /\ entries'[r][k].version > entries[r][k].version
    <3>1. s = r
      BY <2>4 DEF Merge
    <3>2. entries'[r][k] = MergedEntry(entries[r][k], m.entries[k])
      BY <2>4, <3>1 DEF Merge
    <3>3. m.entries[k] \in Entry \cup {NoEntry}
      BY DEF Map
    <3> QED
      BY <2>1, <3>2, <3>3 DEF MergedEntry, Entry
  <2>5. ASSUME NEW s \in Replica, NEW m \in clones, HandleShardMapUpdate(s, m)
        PROVE  entries'[r][k] # NoEntry /\ entries'[r][k].version > entries[r][k].version
    BY <2>4, <2>5 DEF HandleShardMapUpdate, vars
  <2>6. CASE \/ \E s \in Replica : CloneMap(s)
             \/ \E m \in clones : DropClone(m)
             \/ UNCHANGED vars
    BY <2>6 DEF CloneMap, DropClone, vars
  <2> QED
    BY <2>2, <2>3, <2>4, <2>5, <2>6 DEF Next
<1> QED
  BY <1>1, Inductive, PTL DEF Spec, EntriesOnlyAdvance
=============================================================================
