---------------------------- MODULE MCOrchestrator ----------------------------
(* Instances of Orchestrator for TLC. *)
EXTENDS Orchestrator

CONSTANTS a, b, c, d
MCCapacities == <<a, b, c, d>>

(* The methods that score by Krum need five gradients: Krum takes one with  *)
(* the least score wherever one of the five lies, Bulyan stays between four *)
(* honest gradients.                                                        *)
ASSUME KrumOverBoundedInputs ==
  \A honest \in [1..4 -> 1..3], other \in 0..6 :
    LET gs == [i \in 1..5 |-> IF i = 5 THEN other ELSE honest[i]]
        scores == ScoreGradients(gs, 1)
        bulyan == RobustAggregate(gs, "BULYAN", 1)
    IN /\ \E i \in 1..5 : /\ RobustAggregate(gs, "KRUM", 1) = Quotient(gs[i], 1)
                         /\ \A j \in 1..5 : scores[i] <= scores[j]
       /\ Between(Min({honest[i] : i \in 1..4}), bulyan, Max({honest[i] : i \in 1..4}))
       /\ RobustAggregate(gs, "MULTI_KRUM", 1).count = 4
       /\ RobustAggregate(gs, "MEAN", 1).count = 5
=============================================================================
