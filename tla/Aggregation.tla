----------------------------- MODULE Aggregation -----------------------------
(***************************************************************************)
(* training/byzantine.py: the aggregation of the gradients of a round, and *)
(* training/reputation.py's test for outliers among them. A gradient is    *)
(* one coordinate, an integer, so that distances are absolute differences; *)
(* a mean is kept as its sum and its count.                                *)
(***************************************************************************)
EXTENDS Lists, FiniteSetsExt

CONSTANT
  RoundedDown  \* the <<n, f>> for which int(n * (f / n)) is f - 1, not f

ASSUME AggregationAssumption == RoundedDown \subseteq Nat \X Nat

AggregationMethod == {"MEAN", "KRUM", "MULTI_KRUM", "TRIMMED_MEAN", "MEDIAN", "BULYAN"}

Distance(a, b) == IF a < b THEN b - a ELSE a - b

Quotient(sum, count) == [sum |-> sum, count |-> count]
SimpleMean(gs) == Quotient(Total(gs), Len(gs))
Between(lo, q, hi) == lo * q.count <= q.sum /\ q.sum <= hi * q.count

(* torch.median takes the lower of two middle values. *)
CoordinateMedian(gs) == Quotient(Sorted(gs)[(Len(gs) + 1) \div 2], 1)

(* Fault: only the smallest values are trimmed. *)
TrimmedMeanLow(gs, trim) ==
  LET n == Len(gs) IN
    IF n - 2 * trim < 1 THEN CoordinateMedian(gs)
    ELSE SimpleMean(SubSeq(Sorted(gs), trim + 1, n))

(* trim is trim_count, at least one. *)
TrimmedMean(gs, trim) ==
  LET n == Len(gs) IN
    IF n - 2 * trim < 1 THEN CoordinateMedian(gs)
    ELSE SimpleMean(SubSeq(Sorted(gs), trim + 1, n - trim))

(* Krum scores: the sum of the distances to the k nearest others. *)
KrumScores(gs, k) ==
  [i \in DOMAIN gs |->
     LET others == [j \in 1..(Len(gs) - 1) |->
                      Distance(gs[i], gs[IF j < i THEN j ELSE j + 1])]
     IN Total(SubSeq(Sorted(others), 1, Min({k, Len(gs) - 1})))]

(* With too few gradients for Krum all of them are taken. *)
KrumSelect(gs, f, m) ==
  LET n == Len(gs)
      score == KrumScores(gs, n - f - 2)
      better(i) == {j \in 1..n : score[j] < score[i] \/ (score[j] = score[i] /\ j < i)}
  IN IF n <= 2 * f + 2 THEN gs
     ELSE [r \in 1..Min({m, n}) |->
             gs[CHOOSE i \in 1..n : Cardinality(better(i)) = r - 1]]

(* max_byzantine = 0 stands for a fifth of the peers, at least one. *)
Tolerated(n, max_byzantine) ==
  IF max_byzantine = 0 THEN Max({1, n \div 5}) ELSE max_byzantine

(* The trim_ratio f / n is a floating-point number: with a fifth of n peers *)
(* tolerated, n = 71 is the least for which the product falls short of f.   *)
Trimmed(n, f) == Max({1, IF <<n, f>> \in RoundedDown THEN f - 1 ELSE f})

RobustAggregate(gs, method, max_byzantine) ==
  LET n == Len(gs)
      f == Tolerated(n, max_byzantine)
      survivors == KrumSelect(gs, f, Max({1, n - 2 * f}))
  IN IF n = 1 THEN Quotient(gs[1], 1)
     ELSE CASE method = "MEAN" -> SimpleMean(gs)
            [] method = "KRUM" -> SimpleMean(KrumSelect(gs, f, 1))
            [] method = "MULTI_KRUM" -> SimpleMean(KrumSelect(gs, f, Max({1, n - f})))
            [] method = "TRIMMED_MEAN" -> TrimmedMean(gs, Trimmed(n, f))
            [] method = "MEDIAN" -> CoordinateMedian(gs)
            [] method = "BULYAN" -> TrimmedMean(survivors, Max({1, Len(survivors) \div 4}))

ScoreGradients(gs, max_byzantine) ==
  LET n == Len(gs) IN KrumScores(gs, Max({1, n - Tolerated(n, max_byzantine) - 2}))

(* Fault: a third of the median is the limit. *)
DetectOutliersLow(scores) ==
  IF Len(scores) < 3 THEN {}
  ELSE LET median == Sorted(scores)[Len(scores) \div 2 + 1]
       IN {i \in DOMAIN scores : 3 * scores[i] > median}

(* Positions whose score exceeds three times the (upper) median. *)
DetectOutliers(scores) ==
  IF Len(scores) < 3 THEN {}
  ELSE LET median == Sorted(scores)[Len(scores) \div 2 + 1]
       IN {i \in DOMAIN scores : scores[i] > 3 * median}
=============================================================================
