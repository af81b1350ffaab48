------------------------------ MODULE Averaging ------------------------------
(***************************************************************************)
(* What an all-reduce over a tree of clusters promises, without rings,     *)
(* chunks or messages: every peer returns once, with the mean taken        *)
(* cluster by cluster up the tree, provided that nothing was lost before.  *)
(***************************************************************************)
EXTENDS ClusterTopology

CONSTANTS
  Gradient,   \* Gradient[i]: what peer i brings, a function from elements to integers
  NoTree, NoResult

VARIABLES
  tree,       \* the clusters of the round, NoTree before they are assigned
  result,     \* result[i]: what i has returned
  lost        \* messages lost so far

vars == <<tree, result, lost>>

Members == UNION {tree[0][c] : c \in DOMAIN tree[0]}

Mean(g, S) == [e \in DOMAIN g[Min(S)] |->
                 FoldSet(LAMBDA i, sum : sum + g[i][e], 0, S) \div Cardinality(S)]

(* MeanOfMeans[l][i]: the mean over the l lowest levels that i stands for. *)
MeanOfMeans ==
  LET mean[l \in 0..Cardinality(DOMAIN tree)] ==
        IF l = 0 THEN Gradient
        ELSE [i \in Members |-> IF InLevel(tree, i, l - 1)
                                THEN Mean(mean[l - 1], ClusterOf(tree, i, l - 1))
                                ELSE mean[l - 1][i]]
  IN mean

Root == LET top == Cardinality(DOMAIN tree) - 1 IN Leader(tree[top][0])
Expected == MeanOfMeans[Cardinality(DOMAIN tree)][Root]

Init ==
  /\ tree = NoTree
  /\ result = [i \in DOMAIN Gradient |-> NoResult]
  /\ lost = 0

Assign ==
  /\ tree = NoTree /\ tree' # NoTree
  /\ UNCHANGED <<result, lost>>

Lose ==
  /\ tree # NoTree
  /\ lost' = lost + 1
  /\ UNCHANGED <<tree, result>>

Return(i) ==
  /\ tree # NoTree /\ i \in Members
  /\ result[i] = NoResult /\ result'[i] # NoResult
  /\ \A j \in DOMAIN result \ {i} : result'[j] = result[j]
  /\ lost' >= lost
  /\ lost' = 0 => result'[i] = Expected
  /\ UNCHANGED tree

Next == Assign \/ Lose \/ \E i \in DOMAIN Gradient : Return(i)

(* Every participant returns. *)
Progress ==
  \A i \in DOMAIN Gradient :
    tree # NoTree /\ i \in Members ~> result[i] # NoResult

Spec == Init /\ [][Next]_vars /\ Progress
=============================================================================
