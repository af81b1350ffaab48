------------------------------- MODULE AgentSdk -------------------------------
(***************************************************************************)
(* One agent of the SDK in agent-sdk/sssi: class Agent (agent.py) with its *)
(* RateLimiter (rate_limit.py), its ContributionTracker (contribution.py)  *)
(* and its TrainingParticipant (training.py), called directly, by          *)
(* coroutines, and by the single-threaded HTTP server (server.py).         *)
(*                                                                         *)
(* Time is a number of ticks; what is recorded is kept as a count or an    *)
(* amount per tick, which is all that the sliding windows and the decay    *)
(* look at. NetworkClient swallows every failure, so that a call that      *)
(* reaches nobody is recorded like any other.                              *)
(***************************************************************************)
EXTENDS Integers, FiniteSets

CONSTANTS
  Call,                 \* coroutines that may run infer_async
  Tokens, MaxTokens,    \* values of max_tokens, and the largest of them
  DefaultTokens,        \* the server's, for requests that name none
  Minute, Hour, Day,    \* the windows, in ticks
  RequestsPerMinute, TokensPerHour, RoundsPerDay, ProposalsPerDay,
  Weight, Unit,         \* decay: a credit of age a weighs Weight[a] / Unit
  Threshold,            \* CONTRIBUTOR_THRESHOLD
  TrainingCredits, VoteCredits,
  MaxTime, MaxCalls     \* bounds of the model on time and on calls begun

Time == 0..MaxTime

ASSUME AgentAssumption ==
  /\ IsFiniteSet(Call)
  /\ Tokens \subseteq 1..MaxTokens /\ {DefaultTokens, MaxTokens} \subseteq Tokens
  /\ {Minute, Hour, Day, MaxTokens, MaxTime, MaxCalls} \subseteq Nat
  /\ 0 < Minute /\ Minute <= Hour /\ Hour <= Day
  /\ {RequestsPerMinute, TokensPerHour, RoundsPerDay, ProposalsPerDay} \subseteq Nat \ {0}
  /\ {Unit, Threshold, TrainingCredits, VoteCredits} \subseteq Nat
  /\ Weight \in [Time -> Nat] /\ Weight[0] = Unit
  /\ \A a \in Time : a + Day \in Time => 2 * Weight[a + Day] = Weight[a]
  /\ \A a \in Time : a <= Day => 2 * Weight[a] >= Unit
  /\ TrainingCredits >= 2 * Threshold

VARIABLES
  now, calls,
  contributing,       \* _contributing
  inferences, tokens, trainings, proposals,   \* the buckets: recorded per tick
  credits,            \* credits recorded per tick
  pending,            \* pending[c]: the request coroutine c awaits
  active_round,       \* rounds proposed; the last of them is _active_round
  free                \* auxiliary: what was recorded for calls admitted as free

limiter == <<inferences, tokens, trainings, proposals>>
vars == <<now, calls, contributing, limiter, credits, pending, active_round, free>>

NotWaiting == [waits |-> FALSE, tokens |-> 0, free |-> FALSE]
Never == [t \in Time |-> 0]

Init ==
  /\ now = 0 /\ calls = 0
  /\ contributing = FALSE
  /\ inferences = Never /\ tokens = Never /\ trainings = Never /\ proposals = Never
  /\ credits = Never
  /\ pending = [c \in Call |-> NotWaiting]
  /\ active_round = 0
  /\ free = [requests |-> Never, tokens |-> Never]

-----------------------------------------------------------------------------
(* The sum of amounts over times, as the size of a set of single units.    *)
Units(amounts, times) == UNION {{t} \X (1..amounts[t]) : t \in times}
Total(amounts, times) == Cardinality(Units(amounts, times))

(* count_in_window: events later than now - window. *)
InWindow(events, window) == Total(events, {t \in Time : t > now - window /\ t <= now})

EffectiveCredits == Total([t \in 0..now |-> credits[t] * Weight[now - t]], 0..now)

(* Agent.tier. *)
Contributor == contributing \/ EffectiveCredits >= Threshold * Unit

(* Fault: tokens are not looked at. *)
CheckTokensNever == TRUE

CheckInference == Contributor \/ InWindow(inferences, Minute) < RequestsPerMinute
CheckTokens == Contributor \/ InWindow(tokens, Hour) < TokensPerHour
CheckTraining == Contributor \/ InWindow(trainings, Day) < RoundsPerDay
CheckEvolve == Contributor \/ InWindow(proposals, Day) < ProposalsPerDay

Add(events, amount) == [events EXCEPT ![now] = @ + amount]

(* record_inference, and the auxiliary account of what was free. *)
RecordInference(n, wasFree) ==
  /\ inferences' = Add(inferences, 1)
  /\ tokens' = Add(tokens, n)
  /\ free' = IF wasFree
             THEN [requests |-> Add(free.requests, 1), tokens |-> Add(free.tokens, n)]
             ELSE free

Begins == calls < MaxCalls /\ calls' = calls + 1

-----------------------------------------------------------------------------
Contribute ==
  /\ ~contributing
  /\ contributing' = TRUE
  /\ UNCHANGED <<now, calls, limiter, credits, pending, active_round, free>>

Leave ==
  /\ contributing
  /\ contributing' = FALSE
  /\ UNCHANGED <<now, calls, limiter, credits, pending, active_round, free>>

(* infer: nothing else runs between the checks and the record. *)
Infer(n) ==
  /\ Begins
  /\ CheckInference /\ CheckTokens
  /\ RecordInference(n, ~Contributor)
  /\ UNCHANGED <<now, contributing, trainings, proposals, credits, pending, active_round>>

(* The completion handlers of the server, which answer 429 when the limiter *)
(* raises. A request may name 0 tokens: the chat endpoint then takes its     *)
(* default, the other one serves it and charges nothing to the budget.      *)
HandleChatCompletions(n) == Infer(IF n = 0 THEN DefaultTokens ELSE n)
HandleCompletions(n) == Infer(n)

(* infer_async: the limits are checked before the inference is awaited ... *)
InferAsync(c, n) ==
  /\ ~pending[c].waits
  /\ Begins
  /\ CheckInference /\ CheckTokens
  /\ pending' = [pending EXCEPT ![c] = [waits |-> TRUE, tokens |-> n, free |-> ~Contributor]]
  /\ UNCHANGED <<now, contributing, limiter, credits, active_round, free>>

(* ... and the request is recorded when it is over. *)
InferAsyncReturns(c) ==
  /\ pending[c].waits
  /\ RecordInference(pending[c].tokens, pending[c].free)
  /\ pending' = [pending EXCEPT ![c] = NotWaiting]
  /\ UNCHANGED <<now, calls, contributing, trainings, proposals, credits, active_round>>

(* A coroutine cancelled at its await records nothing, although the request *)
(* it has handed to the executor is sent all the same.                      *)
InferAsyncCancelled(c) ==
  /\ pending[c].waits
  /\ pending' = [pending EXCEPT ![c] = NotWaiting]
  /\ UNCHANGED <<now, calls, contributing, limiter, credits, active_round, free>>

(* Fault: a round earns what a vote earns. *)
TrainAsVote(rounds) ==
  /\ Begins
  /\ CheckTraining
  /\ active_round' = active_round + rounds
  /\ trainings' = Add(trainings, rounds)
  /\ credits' = Add(credits, VoteCredits * rounds)
  /\ UNCHANGED <<now, contributing, inferences, tokens, proposals, pending, free>>

(* train: checked once, whatever the number of rounds; join_training        *)
(* proposes them one after the other, and each is recorded and credited.    *)
Train(rounds) ==
  /\ Begins
  /\ CheckTraining
  /\ active_round' = active_round + rounds
  /\ trainings' = Add(trainings, rounds)
  /\ credits' = Add(credits, TrainingCredits * rounds)
  /\ UNCHANGED <<now, contributing, inferences, tokens, proposals, pending, free>>

Evolve ==
  /\ Begins
  /\ CheckEvolve
  /\ proposals' = Add(proposals, 1)
  /\ UNCHANGED <<now, contributing, inferences, tokens, trainings, credits, pending,
                 active_round, free>>

VoteArchitecture ==
  /\ Begins
  /\ credits' = Add(credits, VoteCredits)
  /\ UNCHANGED <<now, contributing, limiter, pending, active_round, free>>

Tick ==
  /\ now < MaxTime
  /\ now' = now + 1
  /\ UNCHANGED <<calls, contributing, limiter, credits, pending, active_round, free>>

Next ==
  \/ Contribute \/ Leave
  \/ \E n \in Tokens : Infer(n) \/ \E c \in Call : InferAsync(c, n)
  \/ \E n \in Tokens \cup {0} : HandleChatCompletions(n) \/ HandleCompletions(n)
  \/ \E c \in Call : InferAsyncReturns(c) \/ InferAsyncCancelled(c)
  \/ \E rounds \in 1..2 : Train(rounds)
  \/ Evolve \/ VoteArchitecture \/ Tick

Spec == Init /\ [][Next]_vars

-----------------------------------------------------------------------------
(* "Free-tier agents are limited to 10 requests/minute": coroutines that    *)
(* pass the check before others have recorded exceed that, but by no more   *)
(* than one request each, however calls, tiers and minutes overlap.         *)
FreeRequestsBounded ==
  InWindow(free.requests, Minute) <= RequestsPerMinute + Cardinality(Call)

(* "... and 5000 tokens/hour": the budget is tested for being exhausted, not *)
(* for the request at hand, so the last request and every one in flight may  *)
(* overdraw it by the largest max_tokens each.                               *)
FreeTokensBounded ==
  InWindow(free.tokens, Hour) <= TokensPerHour - 1 + (Cardinality(Call) + 1) * MaxTokens

(* Both limits of check_inference, for any overlap of as many coroutines as  *)
(* Call has, direct calls and requests to the server: of what is recorded,   *)
(* which the request of a cancelled coroutine is not.                        *)
FreeTierBounded == FreeRequestsBounded /\ FreeTokensBounded

(* "Free-tier agents can join up to 2 rounds/day" never refuses anybody: a   *)
(* round earns twice the threshold, and half of it is left when the round    *)
(* leaves the window, so whoever has a round in the window is a contributor. *)
TrainingNeverRefused == InWindow(trainings, Day) > 0 => Contributor
=============================================================================
