------------------------------- MODULE Genesis -------------------------------
(***************************************************************************)
(* GenesisTracker of genesis.py: the record of a model's life, which       *)
(* detects milestones as rounds and mutations are reported to it. The      *)
(* state of a tracker is a record; the operators are its methods.          *)
(*                                                                         *)
(* A milestone is a kind and a level. A text is what assess_quality finds  *)
(* in it: the set of the quality milestones it would reach. The histories  *)
(* are kept as far as milestones depend on them: the lowest loss, and the  *)
(* qualities seen. Descriptions, times and ages are left out.              *)
(***************************************************************************)
EXTENDS Lists

CONSTANTS
  LossLevels, RoundLevels, TokenLevels, PeerLevels, GenerationLevels,
               \* the thresholds of MilestoneType, ascending sequences of numbers
  Qualities    \* the kinds of quality milestones, in the order they are checked

(* The thresholds ascend, and no quality bears the name of another kind. *)
Ascends(f) == \A i, j \in DOMAIN f : i < j => f[i] < f[j]

ASSUME GenesisAssumption ==
  /\ \A levels \in {LossLevels, RoundLevels, TokenLevels, PeerLevels, GenerationLevels} :
       levels \in Seq(Nat \ {0}) /\ Ascends(levels)
  /\ Qualities \in Seq(STRING) /\ IsInjective(Qualities)
  /\ \A i \in DOMAIN Qualities :
       Qualities[i] \notin {"loss", "rounds", "tokens", "peers", "mutation", "generation"}

NoLoss == Last(LossLevels) + 1   \* a loss above every threshold

Levels(kind, levels) == [i \in DOMAIN levels |-> [kind |-> kind, level |-> levels[i]]]

(* In the order the checks run; losses from the highest threshold down. *)
LossMilestones == Levels("loss", Reverse(LossLevels))
ScaleMilestones == Levels("rounds", RoundLevels) \o Levels("tokens", TokenLevels)
PeerMilestones == Levels("peers", PeerLevels)
QualityMilestones == [i \in DOMAIN Qualities |-> [kind |-> Qualities[i], level |-> 0]]
MutationMilestones ==
  <<[kind |-> "mutation", level |-> 1]>> \o Levels("generation", GenerationLevels)

(* __init__ and record_birth. *)
RecordBirth ==
  [rounds |-> 0, tokens |-> 0, peak |-> 0, generation |-> 0, mutations |-> 0,
   best |-> NoLoss, seen |-> {}, achieved |-> {}, milestones |-> << >>]

(* _add_milestone, for each that is reached for the first time. *)
AddMilestones(g, candidates, reached) ==
  LET new == Selected(candidates, reached \ g.achieved) IN
    [g EXCEPT !.achieved = @ \cup ToSet(new), !.milestones = @ \o new]

CheckLossMilestones(g, loss) ==
  AddMilestones(g, LossMilestones, {m \in ToSet(LossMilestones) : loss < m.level})
CheckScaleMilestones(g) ==
  AddMilestones(g, ScaleMilestones,
    {m \in ToSet(ScaleMilestones) :
       (IF m.kind = "rounds" THEN g.rounds ELSE g.tokens) >= m.level})
CheckPeerMilestones(g, peers) ==
  AddMilestones(g, PeerMilestones, {m \in ToSet(PeerMilestones) : peers >= m.level})
CheckQualityMilestones(g, quality) ==
  AddMilestones(g, QualityMilestones, {m \in ToSet(QualityMilestones) : m.kind \in quality})

(* Fault: the scale is checked before the round is counted. *)
RecordRoundLate(g, loss, quality, tokens, peers) ==
  LET checked == CheckQualityMilestones(CheckPeerMilestones(CheckScaleMilestones(
                   CheckLossMilestones(g, loss)), peers), quality)
  IN [checked EXCEPT !.rounds = @ + 1, !.tokens = @ + tokens,
                     !.best = IF loss < @ THEN loss ELSE @,
                     !.peak = IF peers > @ THEN peers ELSE @, !.seen = @ \cup quality]

RecordRound(g, loss, quality, tokens, peers) ==
  LET counted == [g EXCEPT !.rounds = @ + 1, !.tokens = @ + tokens,
                           !.best = IF loss < @ THEN loss ELSE @,
                           !.peak = IF peers > @ THEN peers ELSE @,
                           !.seen = @ \cup quality]
  IN CheckQualityMilestones(CheckPeerMilestones(CheckScaleMilestones(
       CheckLossMilestones(counted, loss)), peers), quality)

RecordMutation(g, generation) ==
  AddMilestones([g EXCEPT !.mutations = @ + 1, !.generation = generation],
                MutationMilestones,
                {m \in ToSet(MutationMilestones) :
                   m.kind = "mutation" \/ generation >= m.level})

(* What the history of g has earned, by the meaning of each milestone. The *)
(* generation of the last mutation is all that is kept of generations.     *)
Earned(g) ==
  {m \in ToSet(LossMilestones \o ScaleMilestones \o PeerMilestones \o QualityMilestones) :
     CASE m.kind = "loss"   -> g.best < m.level
       [] m.kind = "rounds" -> g.rounds >= m.level
       [] m.kind = "tokens" -> g.tokens >= m.level
       [] m.kind = "peers"  -> g.peak >= m.level
       [] OTHER             -> m.kind \in g.seen}
=============================================================================
