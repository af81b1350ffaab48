------------------------------ MODULE Credits ------------------------------
(***************************************************************************)
(* The credit ledger and the inference gate of credits.py: peers earn      *)
(* credits for contributions and spend them on inference, balances decay   *)
(* when they are looked at, and a peer without credits gets a limited      *)
(* number of free requests per hour.                                       *)
(*                                                                         *)
(* Amounts and times are small integers. What is left of a balance after   *)
(* decay, balance * 0.5 ^ (elapsed / half_life), is any smaller amount.    *)
(* The transaction history, kept for display, is left out. grants is       *)
(* auxiliary: the times of the free requests this ledger has granted. The  *)
(* operations are put together by module Network, whose process owns the   *)
(* ledger.                                                                 *)
(***************************************************************************)
EXTENDS Integers, Sequences, SequencesExt, FiniteSets, FiniteSetsExt, Functions

CONSTANTS
  Peer,
  WelcomeBonus,       \* welcome_bonus
  RoundPay,           \* what a round can earn, reputation multiplier included
  DataPay, VotePay,   \* what a data contribution and a vote earn
  CostStandard, CostPriority, CostLong,
  FreePerHour,        \* free_tier_requests_per_hour
  Hour, Minute,       \* 3600 and 60 seconds in ticks
  StreakTime,         \* uptime_streak_hours in ticks
  MaxTime, MaxMinted, MaxRequests   \* bounds of the model

ASSUME CreditsAssumption ==
  /\ IsFiniteSet(Peer)
  /\ RoundPay \cup DataPay \cup {WelcomeBonus, VotePay, CostStandard, CostPriority,
       CostLong, FreePerHour, MaxTime, MaxMinted, MaxRequests} \subseteq Nat
  /\ {Hour, Minute, StreakTime} \subseteq Nat \ {0}

VARIABLES
  accounts,    \* _accounts; the balance is raw_balance
  totals,      \* _total_credits_minted, _spent, _decayed
  gate,        \* the counters of InferenceGate
  now,
  grants

vars == <<accounts, totals, gate, now, grants>>

NoAccount == [open |-> FALSE, balance |-> 0, decayedAt |-> 0, earned |-> 0,
              spent |-> 0, decayed |-> 0, connectedSince |-> 0, streak |-> 0,
              free |-> 0, hourStart |-> 0]

Init ==
  /\ accounts = [p \in Peer |-> NoAccount]
  /\ totals = [minted |-> 0, spent |-> 0, decayed |-> 0]
  /\ gate = [rejected |-> 0, free |-> 0, paid |-> 0]
  /\ now = 1
  /\ grants = [p \in Peer |-> << >>]

-----------------------------------------------------------------------------
(* _get_or_create. *)
Account(p) ==
  IF accounts[p].open THEN accounts[p]
  ELSE [NoAccount EXCEPT !.open = TRUE, !.balance = WelcomeBonus, !.decayedAt = now,
                         !.earned = WelcomeBonus, !.connectedSince = now,
                         !.hourStart = now]

(* _apply_decay: what a balance may lose, and the account afterwards. None *)
(* decays within a minute of the last time.                                *)
Decays(a) == IF now - a.decayedAt < Minute THEN {0} ELSE 0..a.balance

Aged(a, d) ==
  IF now - a.decayedAt < Minute THEN a
  ELSE [a EXCEPT !.balance = @ - d, !.decayed = @ + d, !.decayedAt = now]

(* Fault: the welcome bonus is not counted as minted. *)
BookWithoutBonus(p, a, minted, spent, decayed) ==
  /\ accounts' = [accounts EXCEPT ![p] = a]
  /\ totals' = [minted |-> totals.minted + minted, spent |-> totals.spent + spent,
                decayed |-> totals.decayed + decayed]

(* Account p becomes a; the totals grow by what the operation minted, took *)
(* and let decay, and by the welcome bonus of a new account.               *)
Book(p, a, minted, spent, decayed) ==
  /\ accounts' = [accounts EXCEPT ![p] = a]
  /\ totals' =
       [minted |-> totals.minted + minted + (IF accounts[p].open THEN 0 ELSE WelcomeBonus),
        spent |-> totals.spent + spent,
        decayed |-> totals.decayed + decayed]

(* get_balance, get_account, and one step of top_contributors. *)
GetBalance(p) ==
  /\ \E d \in Decays(Account(p)) : Book(p, Aged(Account(p), d), 0, 0, d)
  /\ UNCHANGED <<gate, now, grants>>

Earn(p, pay(_)) ==
  /\ totals.minted < MaxMinted   \* bound of the model
  /\ \E d \in Decays(Account(p)) : LET a == Aged(Account(p), d) IN
       Book(p, [a EXCEPT !.balance = @ + pay(a), !.earned = @ + pay(a)], pay(a), 0, d)
  /\ UNCHANGED <<gate, now, grants>>

(* _uptime_multiplier, the multiplier being 1.5. *)
WithStreak(a, pay) ==
  IF a.connectedSince > 0 /\ now - a.connectedSince + a.streak >= StreakTime
  THEN (pay * 3) \div 2 ELSE pay

EarnTrainingRound(p, pay) == Earn(p, LAMBDA a : WithStreak(a, pay))
EarnData(p, pay) == Earn(p, LAMBDA a : pay)
EarnVote(p) == Earn(p, LAMBDA a : VotePay)

-----------------------------------------------------------------------------
Cost(priority, long) ==
  (IF priority THEN CostPriority ELSE CostStandard) + (IF long THEN CostLong ELSE 0)

(* Fault: the count starts again but the hour does not. *)
FreeHourForever(a) ==
  IF now - a.hourStart >= Hour THEN [a EXCEPT !.free = 0] ELSE a

(* The hour starts again when a request finds it over. *)
FreeHour(a) ==
  IF now - a.hourStart >= Hour THEN [a EXCEPT !.free = 0, !.hourStart = now] ELSE a

(* check_inference: what it decides of account a, and a afterwards. *)
Checked(a, priority, long) ==
  LET cost == Cost(priority, long)  h == FreeHour(a) IN
    IF a.balance >= cost THEN [tier |-> "paid", account |-> a, cost |-> cost]
    ELSE IF priority THEN [tier |-> "rejected", account |-> a, cost |-> 0]
    ELSE [tier |-> IF h.free < FreePerHour THEN "free" ELSE "rejected",
          account |-> h, cost |-> 0]

CheckInference(p, priority, long) ==
  /\ \E d \in Decays(Account(p)) :
       Book(p, Checked(Aged(Account(p), d), priority, long).account, 0, 0, d)
  /\ UNCHANGED <<gate, now, grants>>

(* Fault: every request that is allowed counts as paid. *)
CountedPaid(tier) ==
  [gate EXCEPT ![IF tier = "free" THEN "paid" ELSE tier] = @ + 1]

(* spend_inference. *)
Spent(a, priority, long) ==
  LET c == Checked(a, priority, long) IN
    [c EXCEPT !.account = [c.account EXCEPT !.balance = @ - c.cost, !.spent = @ + c.cost,
                             !.free = IF c.tier = "free" THEN @ + 1 ELSE @]]

Counted(tier) == [gate EXCEPT ![tier] = @ + 1]

Authorize(p, priority, long) ==
  /\ gate.rejected + gate.free + gate.paid < MaxRequests
  /\ \E d \in Decays(Account(p)) :
     LET s == Spent(Aged(Account(p), d), priority, long) IN
       /\ Book(p, s.account, 0, s.cost, d)
       /\ gate' = Counted(s.tier)
       /\ grants' = IF s.tier = "free" THEN [grants EXCEPT ![p] = Append(@, now)]
                                       ELSE grants
  /\ UNCHANGED now

(* A peer that connects again without having disconnected loses the time   *)
(* since; the streak is never reset.                                       *)
RecordConnect(p) ==
  /\ Book(p, [Account(p) EXCEPT !.connectedSince = now], 0, 0, 0)
  /\ UNCHANGED <<gate, now, grants>>

RecordDisconnect(p) ==
  /\ LET a == Account(p) IN
       Book(p, [a EXCEPT !.connectedSince = 0,
                         !.streak = IF a.connectedSince > 0
                                    THEN @ + now - a.connectedSince ELSE @], 0, 0, 0)
  /\ UNCHANGED <<gate, now, grants>>

Tick ==
  /\ now < MaxTime
  /\ now' = now + 1
  /\ UNCHANGED <<accounts, totals, gate, grants>>

(* What callers of the ledger and of the gate do besides training. Nobody  *)
(* but the process itself is ever connected: see module Network.           *)
UseLedger ==
  \E p \in Peer :
    \/ GetBalance(p)
    \/ \E pay \in DataPay : EarnData(p, pay)
    \/ EarnVote(p)
    \/ \E priority, long \in BOOLEAN :
         CheckInference(p, priority, long) \/ Authorize(p, priority, long)
    \/ RecordDisconnect(p)

-----------------------------------------------------------------------------
(* Every credit in an account, by a number of its own: there are as many   *)
(* as the balances, which are natural numbers, add up to.                  *)
Holdings == UNION {{p} \X (1..accounts[p].balance) : p \in Peer}

(* Credits are conserved and never overdrawn: each account holds what it   *)
(* earned less what it spent and what has decayed, and so do the totals    *)
(* for all accounts.                                                       *)
Conservation ==
  /\ \A p \in Peer : LET a == accounts[p] IN
       a.balance \in Nat /\ a.balance = a.earned - a.spent - a.decayed
  /\ Cardinality(Holdings) = totals.minted - totals.spent - totals.decayed

(* The gate serves nothing unaccounted: the ledger has granted what it     *)
(* counts as free and been paid the cheapest price for the rest.           *)
GateMatchesLedger ==
  /\ gate.free = Cardinality(UNION {{p} \X DOMAIN grants[p] : p \in Peer})
  /\ totals.spent >= Min({CostStandard, CostPriority}) * gate.paid
=============================================================================
