---------------------------- MODULE NetworkProofs ----------------------------
(***************************************************************************)
(* What the credit ledger, the inference gate, the checkpoints and the     *)
(* milestones of Network promise for any peers, prices, limits, thresholds *)
(* and intervals, however often the process is killed and started again.   *)
(*                                                                         *)
(* LedgerInv is inductive for the ledger: beside conservation and the gate *)
(* it says what was granted in the hour an account is in and in the span   *)
(* before it. RestartInv adds what the processes before granted and what   *)
(* the first hour of this one may grant. ProgressInv is inductive for the  *)
(* checkpoints: a multiple of the interval is safe, and less than an       *)
(* interval has come since.                                                *)
(* MilestonesInv says of the tracker what MilestonesAsEarned says, typed.  *)
(***************************************************************************)
EXTENDS Network, ListProofs

AccountRecord ==
  [open : BOOLEAN, balance : Nat, decayedAt : Nat, earned : Nat, spent : Nat, decayed : Nat,
   connectedSince : Nat, streak : Int, free : Nat, hourStart : Nat]

LedgerTypeOK ==
  /\ accounts \in [Peer -> AccountRecord]
  /\ totals \in [minted : Nat, spent : Nat, decayed : Nat]
  /\ gate \in [rejected : Nat, free : Nat, paid : Nat]
  /\ now \in Nat \ {0}
  /\ grants \in [Peer -> Seq(Nat)]

(* Nothing is known of a peer without an account. *)
UnknownAreNew ==
  \A p \in Peer : ~accounts[p].open => accounts[p] = NoAccount /\ grants[p] = << >>

(* How many grants in list g were made at the times of T. *)
Held(g, T) == Cardinality({i \in DOMAIN g : g[i] \in T})

(* The hour of an account, with list g of the free requests granted to it: *)
(* those of this hour are counted, and of the hours before this one no     *)
(* span that reaches into it saw more than one hour's limit.               *)
HourKept(a, g, time) ==
  /\ a.hourStart <= time /\ a.free <= FreePerHour
  /\ \A i \in DOMAIN g : g[i] <= time /\ g[i] < a.hourStart + Hour
  /\ Held(g, {x \in Nat : x >= a.hourStart}) = a.free
  /\ \A t \in Nat : t + Hour > a.hourStart =>
       Held(g, {x \in Nat : t <= x /\ x < a.hourStart}) <= FreePerHour
  /\ \A t \in Nat : Held(g, {x \in Nat : t <= x /\ x < t + Hour}) <= 2 * FreePerHour

HoursKept == \A p \in Peer : accounts[p].open => HourKept(accounts[p], grants[p], now)

LedgerInv ==
  /\ LedgerTypeOK /\ UnknownAreNew /\ Conservation /\ HoursKept /\ GateMatchesLedger

-----------------------------------------------------------------------------
(* The grants at some times, and what another one adds to them.            *)
LEMMA HeldFinite ==
  ASSUME NEW g \in Seq(Nat), NEW T
  PROVE  /\ IsFiniteSet({i \in DOMAIN g : g[i] \in T})
         /\ Held(g, T) \in Nat
<1> DEFINE at == {i \in DOMAIN g : g[i] \in T}
<1>1. IsFiniteSet(1..Len(g)) /\ at \subseteq 1..Len(g)
  BY FS_Interval
<1> HIDE DEF at
<1>2. IsFiniteSet(at) /\ Cardinality(at) \in Nat
  BY <1>1, FS_Subset, FS_CardinalityType
<1> QED
  BY <1>2 DEF Held, at

LEMMA HeldAppend ==
  ASSUME NEW g \in Seq(Nat), NEW x \in Nat, NEW T
  PROVE  Held(Append(g, x), T) = IF x \in T THEN Held(g, T) + 1 ELSE Held(g, T)
<1> DEFINE at == {i \in DOMAIN g : g[i] \in T}
           new == {i \in DOMAIN Append(g, x) : Append(g, x)[i] \in T}
<1>1. /\ Len(g) \in Nat /\ DOMAIN g = 1..Len(g)
      /\ DOMAIN Append(g, x) = 1..(Len(g) + 1)
      /\ Append(g, x)[Len(g) + 1] = x
      /\ \A i \in 1..Len(g) : Append(g, x)[i] = g[i]
  OBVIOUS
<1>2. new = IF x \in T THEN at \cup {Len(g) + 1} ELSE at
  BY <1>1
<1>3. Len(g) + 1 \notin at
  BY <1>1
<1>4. IsFiniteSet(at)
  BY HeldFinite
<1> HIDE DEF at, new
<1>5. Cardinality(new) = IF x \in T THEN Cardinality(at) + 1 ELSE Cardinality(at)
  BY <1>2, <1>3, <1>4, FS_AddElement
<1> QED
  BY <1>5 DEF at, new, Held

LEMMA HeldMore ==
  ASSUME NEW g \in Seq(Nat), NEW S, NEW T, \A i \in DOMAIN g : g[i] \in S => g[i] \in T
  PROVE  Held(g, S) <= Held(g, T)
<1> DEFINE s == {i \in DOMAIN g : g[i] \in S}  t == {i \in DOMAIN g : g[i] \in T}
<1>1. s \in SUBSET t
  OBVIOUS
<1>2. IsFiniteSet(t)
  BY HeldFinite
<1> HIDE DEF s, t
<1>3. Cardinality(s) <= Cardinality(t)
  BY <1>1, <1>2, FS_Subset
<1> QED
  BY <1>3 DEF s, t, Held

LEMMA HeldSplit ==
  ASSUME NEW g \in Seq(Nat), NEW R, NEW S, NEW T,
         \A i \in DOMAIN g : g[i] \in R => g[i] \in S \/ g[i] \in T
  PROVE  Held(g, R) <= Held(g, S) + Held(g, T)
<1> DEFINE r == {i \in DOMAIN g : g[i] \in R}
           s == {i \in DOMAIN g : g[i] \in S}  t == {i \in DOMAIN g : g[i] \in T}
<1>1. r \in SUBSET (s \cup t)
  OBVIOUS
<1>2. IsFiniteSet(s) /\ IsFiniteSet(t)
  BY HeldFinite
<1> HIDE DEF r, s, t
<1>3. /\ IsFiniteSet(s \cup t) /\ IsFiniteSet(s \cap t)
      /\ Cardinality(s \cup t) = Cardinality(s) + Cardinality(t) - Cardinality(s \cap t)
  BY <1>2, FS_Union, FS_Intersection
<1>4. Cardinality(r) <= Cardinality(s \cup t) /\ IsFiniteSet(r)
  BY <1>1, <1>3, FS_Subset
<1>5. /\ Cardinality(r) \in Nat /\ Cardinality(s) \in Nat /\ Cardinality(t) \in Nat
      /\ Cardinality(s \cap t) \in Nat /\ Cardinality(s \cup t) \in Nat
  BY <1>2, <1>3, <1>4, FS_CardinalityType
<1>6. Cardinality(r) <= Cardinality(s) + Cardinality(t)
  BY <1>3, <1>4, <1>5
<1> QED
  BY <1>6 DEF r, s, t, Held

LEMMA HeldNone ==
  ASSUME NEW T  PROVE Held(<< >>, T) = 0
BY FS_EmptySet DEF Held

-----------------------------------------------------------------------------
(* An hour that is over gives way to a new one, and a grant within the     *)
(* limit is counted in its hour.                                           *)
LEMMA HourPasses ==
  ASSUME NEW a \in AccountRecord, NEW g \in Seq(Nat), NEW time \in Nat, NEW later \in Nat,
         time <= later, HourKept(a, g, time)
  PROVE  HourKept(a, g, later)
<1>1. a.hourStart \in Nat
  BY DEF AccountRecord
<1>2. a.hourStart <= later /\ \A i \in DOMAIN g : g[i] <= later /\ g[i] < a.hourStart + Hour
  BY <1>1 DEF HourKept
<1> QED
  BY <1>2 DEF HourKept

LEMMA NaturalConstants ==
  /\ Hour \in Nat \ {0} /\ Minute \in Nat \ {0} /\ FreePerHour \in Nat /\ WelcomeBonus \in Nat
  /\ VotePay \in Nat /\ CostStandard \in Nat /\ CostPriority \in Nat /\ CostLong \in Nat
  /\ RoundPay \subseteq Nat /\ DataPay \subseteq Nat
BY CreditsAssumption

LEMMA HourStartsAgain ==
  ASSUME NEW a \in AccountRecord, NEW b \in AccountRecord, NEW g \in Seq(Nat), NEW time \in Nat,
         HourKept(a, g, time), time - a.hourStart >= Hour, b.hourStart = time, b.free = 0
  PROVE  HourKept(b, g, time)
<1>0. Hour \in Nat \ {0} /\ FreePerHour \in Nat /\ a.hourStart \in Nat /\ a.free \in Nat
  BY NaturalConstants DEF AccountRecord
<1>1. \A i \in DOMAIN g : g[i] \in Nat /\ g[i] < time
  <2> SUFFICES ASSUME NEW i \in DOMAIN g  PROVE g[i] \in Nat /\ g[i] < time
    OBVIOUS
  <2>1. g[i] \in Nat
    OBVIOUS
  <2>2. g[i] < a.hourStart + Hour
    BY DEF HourKept
  <2> QED
    BY <1>0, <2>1, <2>2
<1>2. Held(g, {x \in Nat : x >= time}) = 0
  <2>1. {i \in DOMAIN g : g[i] \in {x \in Nat : x >= time}} = {}
    BY <1>1
  <2> QED
    BY <2>1, FS_EmptySet DEF Held
<1>3. ASSUME NEW t \in Nat, t + Hour > time
      PROVE  Held(g, {x \in Nat : t <= x /\ x < time}) <= FreePerHour
  <2>1. Held(g, {x \in Nat : t <= x /\ x < time}) <= Held(g, {x \in Nat : x >= a.hourStart})
    <3>1. t >= a.hourStart
      BY <1>0, <1>3
    <3>2. \A i \in DOMAIN g : g[i] \in {x \in Nat : t <= x /\ x < time}
                                => g[i] \in {x \in Nat : x >= a.hourStart}
      BY <1>0, <3>1
    <3> QED
      BY <3>2, HeldMore
  <2>2. Held(g, {x \in Nat : t <= x /\ x < time}) \in Nat
    BY HeldFinite
  <2> QED
    BY <1>0, <2>1, <2>2 DEF HourKept
<1>4. \A t \in Nat : Held(g, {x \in Nat : t <= x /\ x < t + Hour}) <= 2 * FreePerHour
  BY DEF HourKept
<1>5. \A i \in DOMAIN g : g[i] <= time /\ g[i] < b.hourStart + Hour
  BY <1>0, <1>1
<1>6. /\ b.hourStart <= time /\ b.free <= FreePerHour
      /\ Held(g, {x \in Nat : x >= b.hourStart}) = b.free
      /\ \A t \in Nat : t + Hour > b.hourStart =>
           Held(g, {x \in Nat : t <= x /\ x < b.hourStart}) <= FreePerHour
  BY <1>0, <1>2, <1>3
<1> QED
  BY <1>4, <1>5, <1>6 DEF HourKept

LEMMA HourGrants ==
  ASSUME NEW a \in AccountRecord, NEW b \in AccountRecord, NEW g \in Seq(Nat), NEW time \in Nat,
         HourKept(a, g, time), time - a.hourStart < Hour, a.free < FreePerHour,
         b.hourStart = a.hourStart, b.free = a.free + 1
  PROVE  HourKept(b, Append(g, time), time)
<1> DEFINE g1 == Append(g, time)
           since == {x \in Nat : x >= a.hourStart}
<1>0. /\ Hour \in Nat \ {0} /\ FreePerHour \in Nat /\ a.hourStart \in Nat /\ a.free \in Nat
      /\ a.hourStart <= time /\ g1 \in Seq(Nat)
  <2>1. g1 \in Seq(Nat)
    OBVIOUS
  <2>2. a.hourStart <= time
    BY DEF HourKept
  <2> QED
    BY <2>1, <2>2, NaturalConstants DEF AccountRecord
<1>1. \A i \in DOMAIN g1 : g1[i] <= time /\ g1[i] < b.hourStart + Hour
  <2> SUFFICES ASSUME NEW i \in DOMAIN g1
               PROVE  g1[i] <= time /\ g1[i] < a.hourStart + Hour
    OBVIOUS
  <2>1. CASE i \in DOMAIN g
    <3>1. g1[i] = g[i] /\ g[i] <= time /\ g[i] < a.hourStart + Hour
      BY <2>1 DEF HourKept
    <3> QED  BY <3>1
  <2>2. CASE i \notin DOMAIN g
    <3>1. g1[i] = time
      BY <2>2
    <3> QED  BY <3>1, <1>0
  <2> QED
    BY <2>1, <2>2
<1>2. Held(g1, since) = b.free
  <2>1. time \in since
    BY <1>0
  <2>2. Held(g1, since) = Held(g, since) + 1
    <3> HIDE DEF since
    <3> QED  BY <2>1, HeldAppend
  <2> QED
    BY <2>2 DEF HourKept
<1>3. ASSUME NEW t \in Nat, t + Hour > a.hourStart
      PROVE  Held(g1, {x \in Nat : t <= x /\ x < a.hourStart}) <= FreePerHour
  <2>1. time \notin {x \in Nat : t <= x /\ x < a.hourStart}
    BY <1>0
  <2>2. Held(g1, {x \in Nat : t <= x /\ x < a.hourStart})
          = Held(g, {x \in Nat : t <= x /\ x < a.hourStart})
    BY <2>1, HeldAppend
  <2> QED
    BY <1>3, <2>2 DEF HourKept
<1>4. ASSUME NEW t \in Nat
      PROVE  Held(g1, {x \in Nat : t <= x /\ x < t + Hour}) <= 2 * FreePerHour
  <2> DEFINE span == {x \in Nat : t <= x /\ x < t + Hour}
             before == {x \in Nat : t <= x /\ x < a.hourStart}
  <2>1. Held(g1, span) = IF time \in span THEN Held(g, span) + 1 ELSE Held(g, span)
    <3> HIDE DEF span
    <3> QED  BY HeldAppend
  <2>2. Held(g, span) <= 2 * FreePerHour /\ Held(g, span) \in Nat
    BY HeldFinite DEF HourKept
  <2>3. ASSUME time \in span  PROVE Held(g, span) + 1 <= 2 * FreePerHour
    <3>1. t + Hour > a.hourStart
      BY <1>0, <2>3
    <3>2. Held(g, before) <= FreePerHour
      BY <3>1 DEF HourKept
    <3>3. Held(g, since) = a.free
      BY DEF HourKept
    <3>4. \A i \in DOMAIN g : g[i] \in span => g[i] \in before \/ g[i] \in since
      BY <1>0
    <3>5. Held(g, span) <= Held(g, before) + Held(g, since)
      <4> HIDE DEF span, before, since
      <4> QED  BY <3>4, HeldSplit
    <3>6. Held(g, before) \in Nat /\ Held(g, since) \in Nat
      BY HeldFinite
    <3> HIDE DEF span, before, since
    <3> QED
      BY <1>0, <2>2, <3>2, <3>3, <3>5, <3>6
  <2> HIDE DEF span
  <2>4. Held(g1, span) <= 2 * FreePerHour
    BY <2>1, <2>2, <2>3
  <2> QED
    BY <2>4 DEF span
<1> HIDE DEF g1, since
<1>5. /\ b.hourStart <= time /\ b.free <= FreePerHour
      /\ Held(g1, {x \in Nat : x >= b.hourStart}) = b.free
  BY <1>0, <1>2 DEF since
<1> QED
  BY <1>1, <1>3, <1>4, <1>5 DEF HourKept, g1

-----------------------------------------------------------------------------
(* What an operation of the ledger does: it may open the account of p,     *)
(* mints m, spends s and lets d decay in it, keeps or restarts its hour,   *)
(* and counts at most one request at the gate.                             *)
Moves(p, a, m, s, d) ==
  /\ Book(p, a, m, s, d)
  /\ a.open /\ a.balance = Account(p).balance + m - s - d
  /\ a.earned = Account(p).earned + m
  /\ a.spent = Account(p).spent + s
  /\ a.decayed = Account(p).decayed + d

(* The hour an account is in when it is looked at. *)
HourOf(p, a, free) ==
  \/ a.free = Account(p).free + free /\ a.hourStart = Account(p).hourStart
  \/ /\ now - Account(p).hourStart >= Hour
     /\ a.free = free /\ a.hourStart = now

Unserved(p, a, s) ==
  /\ HourOf(p, a, 0) /\ grants' = grants
  /\ \/ gate' = gate \/ gate' = Counted("rejected")
     \/ s >= Min({CostStandard, CostPriority}) /\ gate' = Counted("paid")

ServedFree(p, a) ==
  /\ \/ /\ now - Account(p).hourStart < Hour /\ Account(p).free < FreePerHour
        /\ a.free = Account(p).free + 1 /\ a.hourStart = Account(p).hourStart
     \/ /\ now - Account(p).hourStart >= Hour /\ 0 < FreePerHour
        /\ a.free = 1 /\ a.hourStart = now
  /\ grants' = [grants EXCEPT ![p] = Append(@, now)]
  /\ gate' = Counted("free")

Operates(p, a, m, s, d) ==
  /\ Moves(p, a, m, s, d) /\ now' = now
  /\ Unserved(p, a, s) \/ ServedFree(p, a)

LedgerStep ==
  \E p \in Peer, a \in AccountRecord, m \in Nat, s \in Nat, d \in Nat : Operates(p, a, m, s, d)

LEMMA AccountType ==
  ASSUME LedgerTypeOK, NEW p \in Peer
  PROVE  Account(p) \in AccountRecord /\ Account(p).open
<1>1. CASE accounts[p].open
  BY <1>1 DEF LedgerTypeOK, Account
<1>2. CASE ~accounts[p].open
  <2>1. Account(p) = [open |-> TRUE, balance |-> WelcomeBonus, decayedAt |-> now,
                      earned |-> WelcomeBonus, spent |-> 0, decayed |-> 0,
                      connectedSince |-> now, streak |-> 0, free |-> 0, hourStart |-> now]
    BY <1>2 DEF Account, NoAccount
  <2>2. now \in Nat /\ WelcomeBonus \in Nat
    BY NaturalConstants DEF LedgerTypeOK
  <2> QED
    BY <2>1, <2>2 DEF AccountRecord
<1> QED
  BY <1>1, <1>2

LEMMA AgedAccount ==
  ASSUME LedgerTypeOK, NEW a \in AccountRecord, NEW d \in Decays(a)
  PROVE  /\ Aged(a, d) \in AccountRecord /\ d \in Nat
         /\ Aged(a, d).open = a.open /\ Aged(a, d).balance = a.balance - d
         /\ Aged(a, d).earned = a.earned /\ Aged(a, d).spent = a.spent
         /\ Aged(a, d).decayed = a.decayed + d
         /\ Aged(a, d).free = a.free /\ Aged(a, d).hourStart = a.hourStart
<1>1. now \in Nat
  BY DEF LedgerTypeOK
<1>2. CASE now - a.decayedAt < Minute
  BY <1>2 DEF Aged, Decays, AccountRecord
<1>3. CASE ~ (now - a.decayedAt < Minute)
  <2>1. d \in 0..a.balance
    BY <1>3 DEF Decays
  <2>2. d \in Nat /\ a.balance - d \in Nat
    BY <2>1 DEF AccountRecord
  <2> DEFINE a1 == [a EXCEPT !.balance = a.balance - d]
             a2 == [a1 EXCEPT !.decayed = a.decayed + d]
  <2>3. Aged(a, d) = [a2 EXCEPT !.decayedAt = now]
    BY <1>3, Zenon DEF Aged
  <2>4. /\ a1 \in AccountRecord /\ a1.open = a.open /\ a1.balance = a.balance - d
        /\ a1.earned = a.earned /\ a1.spent = a.spent /\ a1.decayed = a.decayed
        /\ a1.free = a.free /\ a1.hourStart = a.hourStart
    BY <2>2 DEF AccountRecord
  <2> HIDE DEF a1
  <2>5. a.decayed + d \in Nat
    BY <2>2 DEF AccountRecord
  <2>6. /\ a2 \in AccountRecord /\ a2.open = a.open /\ a2.balance = a.balance - d
        /\ a2.earned = a.earned /\ a2.spent = a.spent /\ a2.decayed = a.decayed + d
        /\ a2.free = a.free /\ a2.hourStart = a.hourStart
    BY <2>4, <2>5 DEF AccountRecord
  <2> HIDE DEF a2
  <2> QED
    BY <1>1, <2>2, <2>3, <2>6 DEF AccountRecord
<1> QED
  BY <1>2, <1>3

LEMMA PaidAccount ==
  ASSUME NEW a \in AccountRecord, NEW pay \in Nat
  PROVE  LET b == [a EXCEPT !.balance = @ + pay, !.earned = @ + pay] IN
         /\ b \in AccountRecord /\ b.open = a.open
         /\ b.balance = a.balance + pay /\ b.earned = a.earned + pay
         /\ b.spent = a.spent /\ b.decayed = a.decayed
         /\ b.free = a.free /\ b.hourStart = a.hourStart
<1> DEFINE a1 == [a EXCEPT !.balance = a.balance + pay]
           b == [a EXCEPT !.balance = @ + pay, !.earned = @ + pay]
<1>1. b = [a1 EXCEPT !.earned = a.earned + pay]
  BY Zenon
<1>2. /\ a1 \in AccountRecord /\ a1.open = a.open /\ a1.balance = a.balance + pay
      /\ a1.earned = a.earned /\ a1.spent = a.spent /\ a1.decayed = a.decayed
      /\ a1.free = a.free /\ a1.hourStart = a.hourStart
  BY DEF AccountRecord
<1>3. a.earned + pay \in Nat
  BY DEF AccountRecord
<1> HIDE DEF a1, b
<1>4. /\ b \in AccountRecord /\ b.open = a.open
      /\ b.balance = a.balance + pay /\ b.earned = a.earned + pay
      /\ b.spent = a.spent /\ b.decayed = a.decayed
      /\ b.free = a.free /\ b.hourStart = a.hourStart
  BY <1>1, <1>2, <1>3 DEF AccountRecord
<1> QED
  BY <1>4 DEF b

LEMMA HourAccount ==
  ASSUME LedgerTypeOK, NEW a \in AccountRecord
  PROVE  LET h == FreeHour(a) IN
         /\ h \in AccountRecord /\ h.open = a.open /\ h.balance = a.balance
         /\ h.earned = a.earned /\ h.spent = a.spent /\ h.decayed = a.decayed
         /\ IF now - a.hourStart >= Hour THEN h.free = 0 /\ h.hourStart = now ELSE h = a
<1>1. now \in Nat
  BY DEF LedgerTypeOK
<1>2. CASE now - a.hourStart >= Hour
  <2> DEFINE a1 == [a EXCEPT !.free = 0]
  <2>1. FreeHour(a) = [a1 EXCEPT !.hourStart = now]
    BY <1>2, Zenon DEF FreeHour
  <2>2. /\ a1 \in AccountRecord /\ a1.open = a.open /\ a1.balance = a.balance
        /\ a1.earned = a.earned /\ a1.spent = a.spent /\ a1.decayed = a.decayed /\ a1.free = 0
    BY DEF AccountRecord
  <2> HIDE DEF a1
  <2> QED
    BY <1>1, <1>2, <2>1, <2>2 DEF AccountRecord
<1>3. CASE ~ (now - a.hourStart >= Hour)
  BY <1>3 DEF FreeHour
<1> QED
  BY <1>2, <1>3

(* The operations, one after the other.                                    *)
LEMMA EarnIsStep ==
  ASSUME LedgerTypeOK, NEW p \in Peer, NEW d \in Decays(Account(p)), NEW m \in Nat,
         Book(p, [Aged(Account(p), d) EXCEPT !.balance = @ + m, !.earned = @ + m], m, 0, d),
         UNCHANGED <<gate, now, grants>>
  PROVE  LedgerStep
<1> DEFINE a == Account(p)  b == Aged(a, d)
           c == [b EXCEPT !.balance = @ + m, !.earned = @ + m]
<1>1. a \in AccountRecord /\ a.open
  BY AccountType
<1>2. /\ b \in AccountRecord /\ d \in Nat /\ b.open = a.open /\ b.balance = a.balance - d
      /\ b.earned = a.earned /\ b.spent = a.spent /\ b.decayed = a.decayed + d
      /\ b.free = a.free /\ b.hourStart = a.hourStart
  BY <1>1, AgedAccount
<1>3. /\ c \in AccountRecord /\ c.open = b.open
      /\ c.balance = b.balance + m /\ c.earned = b.earned + m
      /\ c.spent = b.spent /\ c.decayed = b.decayed
      /\ c.free = b.free /\ c.hourStart = b.hourStart
  <2> HIDE DEF b
  <2> QED  BY <1>2, PaidAccount
<1>4. Book(p, c, m, 0, d)
  OBVIOUS
<1> HIDE DEF b, c
<1>5. Moves(p, c, m, 0, d)
  BY <1>1, <1>2, <1>3, <1>4 DEF Moves, AccountRecord
<1>6. Unserved(p, c, 0)
  BY <1>1, <1>2, <1>3 DEF Unserved, HourOf, AccountRecord
<1>7. Operates(p, c, m, 0, d)
  BY <1>5, <1>6 DEF Operates
<1> QED
  BY <1>2, <1>3, <1>7 DEF LedgerStep

LEMMA EarningIsStep ==
  ASSUME LedgerTypeOK, NEW p \in Peer,
         (\E pay \in RoundPay : EarnTrainingRound(p, pay)) \/ (\E pay \in DataPay : EarnData(p, pay))
           \/ EarnVote(p)
  PROVE  LedgerStep
<1>1. ASSUME NEW pay \in RoundPay, EarnTrainingRound(p, pay)  PROVE LedgerStep
  <2>1. PICK d \in Decays(Account(p)) :
           LET a == Aged(Account(p), d)  m == WithStreak(a, pay) IN
           Book(p, [a EXCEPT !.balance = @ + m, !.earned = @ + m], m, 0, d)
    BY <1>1 DEF EarnTrainingRound, Earn
  <2>2. WithStreak(Aged(Account(p), d), pay) \in Nat
    BY NaturalConstants DEF WithStreak
  <2> QED
    BY <1>1, <2>1, <2>2, EarnIsStep DEF EarnTrainingRound, Earn
<1>2. ASSUME NEW pay \in DataPay, EarnData(p, pay)  PROVE LedgerStep
  BY <1>2, NaturalConstants, EarnIsStep DEF EarnData, Earn
<1>3. CASE EarnVote(p)
  BY <1>3, NaturalConstants, EarnIsStep DEF EarnVote, Earn
<1> QED
  BY <1>1, <1>2, <1>3

LEMMA LookingIsStep ==
  ASSUME LedgerTypeOK, NEW p \in Peer,
         GetBalance(p) \/ (\E priority, long \in BOOLEAN : CheckInference(p, priority, long))
  PROVE  LedgerStep
<1> DEFINE a == Account(p)
<1>1. a \in AccountRecord /\ a.open
  BY AccountType
<1>2. PICK d \in Decays(a) :
       \E b \in {Aged(a, d), FreeHour(Aged(a, d))} : Book(p, b, 0, 0, d)
  BY DEF GetBalance, CheckInference, Checked
<1> DEFINE c == Aged(a, d)
<1>3. PICK b \in {c, FreeHour(c)} : Book(p, b, 0, 0, d)
  BY <1>2
<1>4. /\ c \in AccountRecord /\ d \in Nat /\ c.open = a.open /\ c.balance = a.balance - d
      /\ c.earned = a.earned /\ c.spent = a.spent /\ c.decayed = a.decayed + d
      /\ c.free = a.free /\ c.hourStart = a.hourStart
  BY <1>1, AgedAccount
<1> HIDE DEF c
<1>5. /\ b \in AccountRecord /\ b.open = c.open /\ b.balance = c.balance
      /\ b.earned = c.earned /\ b.spent = c.spent /\ b.decayed = c.decayed
      /\ \/ b.free = c.free /\ b.hourStart = c.hourStart
         \/ now - c.hourStart >= Hour /\ b.free = 0 /\ b.hourStart = now
  <2>1. b = c \/ b = FreeHour(c)
    BY <1>3
  <2>2. CASE b = c
    BY <1>4, <2>2
  <2>3. CASE b = FreeHour(c)
    BY <1>4, <2>3, HourAccount
  <2> QED
    BY <2>1, <2>2, <2>3
<1>6. UNCHANGED <<gate, now, grants>>
  BY DEF GetBalance, CheckInference
<1>7. Moves(p, b, 0, 0, d)
  BY <1>1, <1>3, <1>4, <1>5 DEF Moves, AccountRecord
<1>8. Unserved(p, b, 0)
  BY <1>1, <1>4, <1>5, <1>6 DEF Unserved, HourOf, AccountRecord
<1>9. Operates(p, b, 0, 0, d)
  BY <1>6, <1>7, <1>8 DEF Operates
<1> QED
  BY <1>4, <1>5, <1>9 DEF LedgerStep

LEMMA ConnectingIsStep ==
  ASSUME LedgerTypeOK, NEW p \in Peer, RecordConnect(p) \/ RecordDisconnect(p)
  PROVE  LedgerStep
<1> DEFINE a == Account(p)
<1>1. a \in AccountRecord /\ a.open /\ now \in Nat
  BY AccountType DEF LedgerTypeOK
<1>2. PICK b : /\ b \in AccountRecord /\ Book(p, b, 0, 0, 0)
               /\ b.open = a.open /\ b.balance = a.balance
               /\ b.earned = a.earned /\ b.spent = a.spent /\ b.decayed = a.decayed
               /\ b.free = a.free /\ b.hourStart = a.hourStart
  <2>1. CASE RecordConnect(p)
    <3> DEFINE b == [a EXCEPT !.connectedSince = now]
    <3>1. /\ b \in AccountRecord /\ b.open = a.open /\ b.balance = a.balance
          /\ b.earned = a.earned /\ b.spent = a.spent /\ b.decayed = a.decayed
          /\ b.free = a.free /\ b.hourStart = a.hourStart
      <4> HIDE DEF a
      <4> QED  BY <1>1 DEF AccountRecord
    <3>2. Book(p, b, 0, 0, 0)
      BY <2>1 DEF RecordConnect
    <3> QED
      BY <3>1, <3>2
  <2>2. CASE RecordDisconnect(p)
    <3> DEFINE streak == IF a.connectedSince > 0 THEN a.streak + now - a.connectedSince ELSE a.streak
               a1 == [a EXCEPT !.connectedSince = 0]
               b == [a EXCEPT !.connectedSince = 0,
                              !.streak = IF a.connectedSince > 0
                                         THEN @ + now - a.connectedSince ELSE @]
    <3>1. b = [a1 EXCEPT !.streak = streak]
      BY Zenon
    <3>2. a1 \in AccountRecord /\ a1.open = a.open /\ a1.balance = a.balance
          /\ a1.earned = a.earned /\ a1.spent = a.spent /\ a1.decayed = a.decayed
          /\ a1.free = a.free /\ a1.hourStart = a.hourStart
      <4> HIDE DEF a
      <4> QED  BY <1>1 DEF AccountRecord
    <3>3. streak \in Int
      BY <1>1 DEF AccountRecord
    <3>4. Book(p, b, 0, 0, 0)
      BY <2>2 DEF RecordDisconnect
    <3> HIDE DEF a1, b, streak, a
    <3>5. /\ b \in AccountRecord /\ b.open = a.open /\ b.balance = a.balance
          /\ b.earned = a.earned /\ b.spent = a.spent /\ b.decayed = a.decayed
          /\ b.free = a.free /\ b.hourStart = a.hourStart
      BY <3>1, <3>2, <3>3 DEF AccountRecord
    <3> QED
      BY <3>4, <3>5
  <2> QED
    BY <2>1, <2>2
<1>3. UNCHANGED <<gate, now, grants>>
  BY DEF RecordConnect, RecordDisconnect
<1>4. Moves(p, b, 0, 0, 0)
  BY <1>1, <1>2 DEF Moves, AccountRecord
<1>5. Unserved(p, b, 0)
  BY <1>1, <1>2, <1>3 DEF Unserved, HourOf, AccountRecord
<1>6. Operates(p, b, 0, 0, 0)
  BY <1>3, <1>4, <1>5 DEF Operates
<1> QED
  BY <1>2, <1>6 DEF LedgerStep

LEMMA ServingIsStep ==
  ASSUME LedgerTypeOK, NEW p \in Peer, NEW priority \in BOOLEAN, NEW long \in BOOLEAN,
         Authorize(p, priority, long)
  PROVE  LedgerStep
<1> DEFINE a == Account(p)  cost == Cost(priority, long)
<1>1. a \in AccountRecord /\ a.open /\ now \in Nat
  BY AccountType DEF LedgerTypeOK
<1>2. PICK d \in Decays(a) :
       LET s == Spent(Aged(a, d), priority, long) IN
         /\ Book(p, s.account, 0, s.cost, d)
         /\ gate' = Counted(s.tier)
         /\ grants' = IF s.tier = "free" THEN [grants EXCEPT ![p] = Append(@, now)] ELSE grants
  BY DEF Authorize
<1> DEFINE c == Aged(a, d)  h == FreeHour(c)
           k == Checked(c, priority, long)
           s == Spent(c, priority, long)
           b == s.account
<1>3. /\ c \in AccountRecord /\ d \in Nat /\ c.open = a.open /\ c.balance = a.balance - d
      /\ c.earned = a.earned /\ c.spent = a.spent /\ c.decayed = a.decayed + d
      /\ c.free = a.free /\ c.hourStart = a.hourStart
  BY <1>1, AgedAccount
<1>4. /\ h \in AccountRecord /\ h.open = c.open /\ h.balance = c.balance
      /\ h.earned = c.earned /\ h.spent = c.spent /\ h.decayed = c.decayed
      /\ IF now - c.hourStart >= Hour THEN h.free = 0 /\ h.hourStart = now ELSE h = c
  <2> HIDE DEF c
  <2> QED  BY <1>3, HourAccount
<1>5. cost \in Nat /\ cost >= Min({CostStandard, CostPriority})
  <2>1. \E x \in {CostStandard, CostPriority} : \A y \in {CostStandard, CostPriority} : x =< y
    BY NaturalConstants
  <2>2. /\ Min({CostStandard, CostPriority}) \in Nat
        /\ Min({CostStandard, CostPriority}) <= CostStandard
        /\ Min({CostStandard, CostPriority}) <= CostPriority
    BY <2>1, NaturalConstants DEF Min
  <2> QED
    BY <2>2, NaturalConstants DEF Cost
<1>6. \/ k = [tier |-> "paid", account |-> c, cost |-> cost] /\ c.balance >= cost
      \/ k = [tier |-> "rejected", account |-> c, cost |-> 0]
      \/ k = [tier |-> "rejected", account |-> h, cost |-> 0]
      \/ k = [tier |-> "free", account |-> h, cost |-> 0] /\ h.free < FreePerHour
  BY DEF Checked
<1>7. PICK e \in {c, h} :
        /\ k = [tier |-> k.tier, account |-> e, cost |-> k.cost]
        /\ k.cost \in Nat /\ k.cost <= e.balance
        /\ \/ k.tier = "paid" /\ k.cost >= Min({CostStandard, CostPriority}) /\ e = c
           \/ k.tier = "rejected" /\ k.cost = 0
           \/ k.tier = "free" /\ k.cost = 0 /\ e = h /\ h.free < FreePerHour
  <2>1. c.balance \in Nat /\ h.balance \in Nat
    BY <1>3, <1>4 DEF AccountRecord
  <2> HIDE DEF c, h, k, cost
  <2>2. CASE k = [tier |-> "paid", account |-> c, cost |-> cost] /\ c.balance >= cost
    BY <1>5, <2>2
  <2>3. CASE k = [tier |-> "rejected", account |-> c, cost |-> 0]
    BY <2>1, <2>3
  <2>4. CASE k = [tier |-> "rejected", account |-> h, cost |-> 0]
    BY <2>1, <2>4
  <2>5. CASE k = [tier |-> "free", account |-> h, cost |-> 0] /\ h.free < FreePerHour
    BY <2>1, <2>5
  <2> QED
    BY <1>6, <2>2, <2>3, <2>4, <2>5
<1>8. e \in AccountRecord
  <2> HIDE DEF c, h
  <2> QED  BY <1>3, <1>4, <1>7
<1> DEFINE more == IF k.tier = "free" THEN 1 ELSE 0
<1>9. s = [k EXCEPT !.account = [k.account EXCEPT !.balance = @ - k.cost, !.spent = @ + k.cost,
                                   !.free = IF k.tier = "free" THEN @ + 1 ELSE @]]
  BY DEF Spent
<1>10. /\ s.tier = k.tier /\ s.cost = k.cost
      /\ b = [e EXCEPT !.balance = e.balance - k.cost, !.spent = e.spent + k.cost,
                       !.free = IF k.tier = "free" THEN e.free + 1 ELSE e.free]
  <2> DEFINE x == [k.account EXCEPT !.balance = @ - k.cost, !.spent = @ + k.cost,
                                   !.free = IF k.tier = "free" THEN @ + 1 ELSE @]
  <2>1. s = [k EXCEPT !.account = x]
    BY <1>9
  <2>2. k.account = e
    <3> HIDE DEF k
    <3> QED  BY <1>7
  <2>3. x = [e EXCEPT !.balance = e.balance - k.cost, !.spent = e.spent + k.cost,
                       !.free = IF k.tier = "free" THEN e.free + 1 ELSE e.free]
    <3> HIDE DEF k
    <3> QED  BY <2>2, Zenon
  <2> HIDE DEF k, s, x
  <2>4. s.tier = k.tier /\ s.cost = k.cost /\ s.account = x
    BY <1>7, <2>1
  <2> QED
    BY <2>3, <2>4
<1>11. /\ b \in AccountRecord /\ b.open = e.open /\ b.balance = e.balance - k.cost
       /\ b.earned = e.earned /\ b.spent = e.spent + k.cost /\ b.decayed = e.decayed
       /\ b.free = e.free + more /\ b.hourStart = e.hourStart
  <2> DEFINE free == IF k.tier = "free" THEN e.free + 1 ELSE e.free
             a1 == [e EXCEPT !.balance = e.balance - k.cost]
             a2 == [a1 EXCEPT !.spent = e.spent + k.cost]
             a3 == [a2 EXCEPT !.free = free]
  <2>1. e.balance - k.cost \in Nat /\ e.spent + k.cost \in Nat /\ free \in Nat
        /\ free = e.free + more
    <3> HIDE DEF k
    <3> QED  BY <1>7, <1>8 DEF AccountRecord
  <2>2. b = a3
    <3> HIDE DEF k, b
    <3> QED  BY <1>10, Zenon
  <2> HIDE DEF k, s, free, b, more
  <2>3. /\ a1 \in AccountRecord /\ a1.open = e.open /\ a1.balance = e.balance - k.cost
        /\ a1.earned = e.earned /\ a1.spent = e.spent /\ a1.decayed = e.decayed
        /\ a1.hourStart = e.hourStart
    BY <1>8, <2>1 DEF AccountRecord
  <2> HIDE DEF a1
  <2>4. /\ a2 \in AccountRecord /\ a2.open = e.open /\ a2.balance = e.balance - k.cost
        /\ a2.earned = e.earned /\ a2.spent = e.spent + k.cost /\ a2.decayed = e.decayed
        /\ a2.hourStart = e.hourStart
    BY <2>1, <2>3 DEF AccountRecord
  <2> HIDE DEF a2
  <2>5. /\ a3 \in AccountRecord /\ a3.open = e.open /\ a3.balance = e.balance - k.cost
        /\ a3.earned = e.earned /\ a3.spent = e.spent + k.cost /\ a3.decayed = e.decayed
        /\ a3.free = free /\ a3.hourStart = e.hourStart
    BY <2>1, <2>4 DEF AccountRecord
  <2> HIDE DEF a3
  <2> QED
    BY <2>1, <2>2, <2>5
<1>12. /\ Book(p, b, 0, k.cost, d) /\ gate' = Counted(k.tier)
       /\ grants' = IF k.tier = "free" THEN [grants EXCEPT ![p] = Append(@, now)] ELSE grants
  <2>1. /\ Book(p, s.account, 0, s.cost, d) /\ gate' = Counted(s.tier)
        /\ grants' = IF s.tier = "free" THEN [grants EXCEPT ![p] = Append(@, now)] ELSE grants
    BY <1>2
  <2> HIDE DEF k, s
  <2> QED
    BY <1>10, <2>1
<1> HIDE DEF b, s, k, c, h, cost
<1>13. /\ a.balance \in Nat /\ a.earned \in Nat /\ a.spent \in Nat /\ a.decayed \in Nat
       /\ a.free \in Nat /\ a.hourStart \in Nat
  BY <1>1 DEF AccountRecord
<1> HIDE DEF a
<1>14. /\ e.open = a.open /\ e.balance = a.balance - d /\ e.earned = a.earned
       /\ e.spent = a.spent /\ e.decayed = a.decayed + d
       /\ \/ e.free = a.free /\ e.hourStart = a.hourStart
                /\ (e = h => now - a.hourStart < Hour)
          \/ e = h /\ now - a.hourStart >= Hour /\ e.free = 0 /\ e.hourStart = now
  <2>1. CASE now - c.hourStart >= Hour
    <3>1. h.hourStart # c.hourStart
      BY <1>1, <1>3, <1>4, <1>13, <2>1, NaturalConstants
    <3> QED
      BY <1>3, <1>4, <1>7, <2>1, <3>1
  <2>2. CASE ~ (now - c.hourStart >= Hour)
    <3>1. h = c
      BY <1>4, <2>2
    <3>2. e = c /\ now - a.hourStart < Hour
      BY <1>1, <1>3, <1>7, <1>13, <2>2, <3>1, NaturalConstants
    <3> QED
      BY <1>3, <3>1, <3>2
  <2> QED
    BY <2>1, <2>2
<1>15. /\ b.open /\ b.balance = a.balance + 0 - k.cost - d /\ b.earned = a.earned + 0
       /\ b.spent = a.spent + k.cost /\ b.decayed = a.decayed + d
  BY <1>1, <1>3, <1>7, <1>11, <1>14, <1>13
<1>16. Moves(p, b, 0, k.cost, d)
  BY <1>12, <1>15 DEF Moves, a
<1>17. ASSUME k.tier # "free"  PROVE Unserved(p, b, k.cost)
  <2>1. more = 0
    BY <1>17
  <2>2. \/ b.free = a.free + 0 /\ b.hourStart = a.hourStart
        \/ now - a.hourStart >= Hour /\ b.free = 0 /\ b.hourStart = now
    BY <1>11, <1>14, <1>13, <2>1
  <2>3. HourOf(p, b, 0)
    BY <2>2 DEF HourOf, a
  <2>4. grants' = grants
    BY <1>12, <1>17
  <2>5. \/ gate' = Counted("rejected")
        \/ k.cost >= Min({CostStandard, CostPriority}) /\ gate' = Counted("paid")
    <3>1. gate' = Counted(k.tier)
      BY <1>12
    <3>2. \/ k.tier = "rejected"
          \/ k.cost >= Min({CostStandard, CostPriority}) /\ k.tier = "paid"
      BY <1>7, <1>17
    <3> QED
      BY <3>1, <3>2, Zenon
  <2> QED
    BY <2>3, <2>4, <2>5, Zenon DEF Unserved
<1>18. ASSUME k.tier = "free"  PROVE ServedFree(p, b)
  <2>1. more = 1 /\ e = h /\ h.free < FreePerHour
    BY <1>7, <1>18
  <2>2. \/ /\ now - a.hourStart < Hour /\ a.free < FreePerHour
           /\ b.free = a.free + 1 /\ b.hourStart = a.hourStart
        \/ /\ now - a.hourStart >= Hour /\ 0 < FreePerHour
           /\ b.free = 1 /\ b.hourStart = now
    BY <1>11, <1>14, <1>13, <2>1
  <2>3. gate' = Counted("free") /\ grants' = [grants EXCEPT ![p] = Append(@, now)]
    <3>1. /\ gate' = Counted(k.tier)
          /\ grants' = IF k.tier = "free" THEN [grants EXCEPT ![p] = Append(@, now)] ELSE grants
      BY <1>12
    <3> QED
      BY <1>18, <3>1, Zenon
  <2> QED
    BY <2>2, <2>3 DEF ServedFree, a
<1>19. now' = now
  BY DEF Authorize
<1>20. Operates(p, b, 0, k.cost, d)
  BY <1>16, <1>17, <1>18, <1>19, Zenon DEF Operates
<1> QED
  BY <1>3, <1>7, <1>11, <1>20 DEF LedgerStep

LEMMA UsingIsStep ==
  ASSUME LedgerTypeOK, UseLedger
  PROVE  LedgerStep
BY EarningIsStep, LookingIsStep, ConnectingIsStep, ServingIsStep DEF UseLedger

-----------------------------------------------------------------------------
(* Peers and numbers up to f of each: as many as the numbers f add up to,  *)
(* so that a change of f for one peer changes their number by as much.     *)
Stacks(f) == UNION {{p} \X (1..f[p]) : p \in Peer}

LEMMA StacksFinite ==
  ASSUME NEW f \in [Peer -> Nat]
  PROVE  IsFiniteSet(Stacks(f)) /\ Cardinality(Stacks(f)) \in Nat
<1> DEFINE stack == [p \in Peer |-> {p} \X (1..f[p])]
           all == {{p} \X (1..f[p]) : p \in Peer}
<1>1. stack \in Surjection(Peer, all)
  BY DEF Surjection
<1>2. IsFiniteSet(all)
  <2> HIDE DEF stack, all
  <2> QED  BY <1>1, FS_Surjection, CreditsAssumption
<1>3. ASSUME NEW T \in all  PROVE IsFiniteSet(T)
  <2>1. PICK p \in Peer : T = {p} \X (1..f[p])
    OBVIOUS
  <2>2. f[p] \in Int
    OBVIOUS
  <2>3. IsFiniteSet(1..f[p])
    BY <2>2, FS_Interval
  <2>4. IsFiniteSet({p})
    BY FS_Singleton
  <2> QED
    BY <2>1, <2>3, <2>4, FS_Product
<1>4. Stacks(f) = UNION all
  BY DEF Stacks
<1> HIDE DEF all
<1> QED
  BY <1>2, <1>3, <1>4, FS_UNION, FS_CardinalityType

LEMMA StackCounts ==
  ASSUME NEW f \in [Peer -> Nat], NEW p \in Peer
  PROVE  LET rest == {x \in Stacks(f) : x[1] # p} IN
         /\ IsFiniteSet(rest)
         /\ Cardinality(Stacks(f)) = Cardinality(rest) + f[p]
<1> DEFINE rest == {x \in Stacks(f) : x[1] # p}
           mine == {p} \X (1..f[p])
<1>1. Stacks(f) = rest \cup mine /\ rest \cap mine = {} /\ rest \subseteq Stacks(f)
  BY DEF Stacks
<1>2. IsFiniteSet(mine) /\ Cardinality(mine) = f[p]
  <2>1. IsFiniteSet({p}) /\ Cardinality({p}) = 1
    BY FS_Singleton
  <2>2. f[p] \in Nat
    OBVIOUS
  <2>3. IsFiniteSet(1..f[p]) /\ Cardinality(1..f[p]) = f[p]
    BY <2>2, FS_Interval
  <2>4. IsFiniteSet(mine) /\ Cardinality(mine) = 1 * f[p]
    BY <2>1, <2>3, FS_Product
  <2> QED
    BY <2>2, <2>4
<1> HIDE DEF rest, mine
<1>3. IsFiniteSet(rest)
  BY <1>1, StacksFinite, FS_Subset
<1>4. Cardinality(rest \cup mine) = Cardinality(rest) + Cardinality(mine) - Cardinality({})
  BY <1>1, <1>2, <1>3, FS_Union
<1>5. Cardinality(rest) \in Nat /\ Cardinality({}) = 0 /\ f[p] \in Nat
  BY <1>3, FS_CardinalityType, FS_EmptySet
<1>6. Cardinality(Stacks(f)) = Cardinality(rest) + f[p]
  BY <1>1, <1>2, <1>4, <1>5
<1> QED
  BY <1>3, <1>6 DEF rest

LEMMA StackChanges ==
  ASSUME NEW f \in [Peer -> Nat], NEW p \in Peer, NEW n \in Nat
  PROVE  Cardinality(Stacks([f EXCEPT ![p] = n])) = Cardinality(Stacks(f)) - f[p] + n
<1> DEFINE g == [f EXCEPT ![p] = n]
           r == {x \in Stacks(f) : x[1] # p}  s == {x \in Stacks(g) : x[1] # p}
<1>1. g \in [Peer -> Nat] /\ g[p] = n /\ \A q \in Peer : q # p => g[q] = f[q]
  OBVIOUS
<1> HIDE DEF g
<1>2. r = s
  BY <1>1 DEF Stacks
<1>3. /\ IsFiniteSet(r) /\ Cardinality(Stacks(f)) = Cardinality(r) + f[p]
      /\ Cardinality(Stacks(g)) = Cardinality(s) + n
  BY <1>1, StackCounts
<1> HIDE DEF r, s
<1>4. Cardinality(r) \in Nat /\ f[p] \in Nat
  BY <1>3, FS_CardinalityType
<1>5. Cardinality(Stacks(g)) = Cardinality(Stacks(f)) - f[p] + n
  BY <1>2, <1>3, <1>4
<1> QED
  BY <1>5 DEF g

Balances == [p \in Peer |-> accounts[p].balance]
Grants == [p \in Peer |-> Len(grants[p])]

LEMMA Counting ==
  ASSUME LedgerTypeOK
  PROVE  /\ Balances \in [Peer -> Nat] /\ Grants \in [Peer -> Nat]
         /\ Holdings = Stacks(Balances)
         /\ UNION {{p} \X DOMAIN grants[p] : p \in Peer} = Stacks(Grants)
<1>1. \A p \in Peer : accounts[p].balance \in Nat
  BY DEF LedgerTypeOK, AccountRecord
<1>2. \A p \in Peer : Len(grants[p]) \in Nat /\ DOMAIN grants[p] = 1..Len(grants[p])
  BY DEF LedgerTypeOK
<1>3. Balances \in [Peer -> Nat] /\ Grants \in [Peer -> Nat]
  BY <1>1, <1>2 DEF Balances, Grants
<1>4. Holdings = Stacks(Balances)
  BY DEF Holdings, Stacks, Balances
<1>5. UNION {{p} \X DOMAIN grants[p] : p \in Peer} = Stacks(Grants)
  BY <1>2 DEF Stacks, Grants
<1> QED
  BY <1>3, <1>4, <1>5

-----------------------------------------------------------------------------
(* The account an operation finds, opened if it has to be, and then each   *)
(* part of the invariant after the operation.                              *)
Bonus(p) == IF accounts[p].open THEN 0 ELSE WelcomeBonus

LEMMA FoundAccount ==
  ASSUME LedgerInv, NEW p \in Peer
  PROVE  LET a == Account(p) IN
         /\ a \in AccountRecord /\ a.open /\ a.balance = a.earned - a.spent - a.decayed
         /\ a.balance = accounts[p].balance + Bonus(p)
         /\ HourKept(a, grants[p], now)
<1> DEFINE a == Account(p)
<1>1. a \in AccountRecord /\ a.open
  BY AccountType DEF LedgerInv
<1>2. CASE accounts[p].open
  <2>1. a = accounts[p] /\ Bonus(p) = 0
    BY <1>2 DEF Account, Bonus
  <2>2. accounts[p].balance = accounts[p].earned - accounts[p].spent - accounts[p].decayed
    BY DEF LedgerInv, Conservation
  <2>3. HourKept(accounts[p], grants[p], now)
    BY <1>2 DEF LedgerInv, HoursKept
  <2> HIDE DEF a
  <2>4. a.balance \in Nat
    BY <1>1 DEF AccountRecord
  <2>5. a.balance = accounts[p].balance + Bonus(p)
    BY <2>1, <2>4
  <2> QED
    BY <1>1, <2>1, <2>2, <2>3, <2>5 DEF a
<1>3. CASE ~accounts[p].open
  <2>1. a = [open |-> TRUE, balance |-> WelcomeBonus, decayedAt |-> now,
             earned |-> WelcomeBonus, spent |-> 0, decayed |-> 0,
             connectedSince |-> now, streak |-> 0, free |-> 0, hourStart |-> now]
    BY <1>3 DEF Account, NoAccount
  <2>2. accounts[p].balance = 0 /\ grants[p] = << >>
    BY <1>3 DEF LedgerInv, UnknownAreNew, NoAccount
  <2>3. now \in Nat /\ WelcomeBonus \in Nat /\ FreePerHour \in Nat /\ Bonus(p) = WelcomeBonus
    BY <1>3, NaturalConstants DEF LedgerInv, LedgerTypeOK, Bonus
  <2> HIDE DEF a
  <2>4. HourKept(a, << >>, now)
    <3>1. a.hourStart = now /\ a.free = 0
      BY <2>1
    <3>2. \A i \in DOMAIN << >> : << >>[i] <= now /\ << >>[i] < a.hourStart + Hour
      OBVIOUS
    <3>3. \A T : Held(<< >>, T) = 0
      BY HeldNone
    <3> QED
      BY <2>3, <3>1, <3>2, <3>3 DEF HourKept
  <2>5. a.balance = a.earned - a.spent - a.decayed /\ a.balance = accounts[p].balance + Bonus(p)
    BY <2>1, <2>2, <2>3
  <2> QED
    BY <1>1, <2>2, <2>4, <2>5 DEF a
<1> QED
  BY <1>2, <1>3

LEMMA StepTypes ==
  ASSUME LedgerInv, NEW p \in Peer, NEW a \in AccountRecord, NEW m \in Nat, NEW s \in Nat,
         NEW d \in Nat, Operates(p, a, m, s, d)
  PROVE  LedgerTypeOK' /\ UnknownAreNew'
<1>1. accounts' = [accounts EXCEPT ![p] = a] /\ a.open
  BY DEF Operates, Moves, Book
<1>2. accounts' \in [Peer -> AccountRecord]
  BY <1>1 DEF LedgerInv, LedgerTypeOK
<1>3. totals' \in [minted : Nat, spent : Nat, decayed : Nat]
  <2>1. totals.minted \in Nat /\ totals.spent \in Nat /\ totals.decayed \in Nat
        /\ WelcomeBonus \in Nat
    BY NaturalConstants DEF LedgerInv, LedgerTypeOK
  <2> QED
    BY <2>1 DEF Operates, Moves, Book
<1>4. gate' \in [rejected : Nat, free : Nat, paid : Nat]
  <2>1. \A tier \in {"rejected", "free", "paid"} :
          Counted(tier) \in [rejected : Nat, free : Nat, paid : Nat]
    BY DEF Counted, LedgerInv, LedgerTypeOK
  <2>2. gate' = gate \/ \E tier \in {"rejected", "free", "paid"} : gate' = Counted(tier)
    BY DEF Operates, Unserved, ServedFree
  <2> QED
    BY <2>1, <2>2 DEF LedgerInv, LedgerTypeOK
<1>5. grants' \in [Peer -> Seq(Nat)] /\ \A q \in Peer : q # p => grants'[q] = grants[q]
  <2>1. grants' = grants \/ grants' = [grants EXCEPT ![p] = Append(@, now)]
    BY DEF Operates, Unserved, ServedFree
  <2>2. grants \in [Peer -> Seq(Nat)] /\ Append(grants[p], now) \in Seq(Nat)
    <3>1. grants \in [Peer -> Seq(Nat)] /\ now \in Nat
      BY DEF LedgerInv, LedgerTypeOK
    <3>2. grants[p] \in Seq(Nat)
      BY <3>1
    <3> QED
      BY <3>1, <3>2
  <2> QED
    BY <2>1, <2>2
<1>6. now' = now
  BY DEF Operates
<1>7. LedgerTypeOK'
  BY <1>2, <1>3, <1>4, <1>5, <1>6 DEF LedgerInv, LedgerTypeOK
<1>8. ASSUME NEW q \in Peer, ~accounts'[q].open
      PROVE  accounts'[q] = NoAccount /\ grants'[q] = << >>
  <2>1. q # p /\ accounts'[q] = accounts[q]
    BY <1>1, <1>8 DEF LedgerInv, LedgerTypeOK
  <2> QED
    BY <1>5, <1>8, <2>1 DEF LedgerInv, UnknownAreNew
<1> QED
  BY <1>7, <1>8 DEF UnknownAreNew

LEMMA StepConserves ==
  ASSUME LedgerInv, NEW p \in Peer, NEW a \in AccountRecord, NEW m \in Nat, NEW s \in Nat,
         NEW d \in Nat, Operates(p, a, m, s, d)
  PROVE  Conservation'
<1> DEFINE old == Account(p)
<1>1. /\ old \in AccountRecord /\ old.balance = old.earned - old.spent - old.decayed
      /\ old.balance = accounts[p].balance + Bonus(p)
  BY FoundAccount
<1>2. /\ accounts' = [accounts EXCEPT ![p] = a]
      /\ totals' = [minted |-> totals.minted + m + Bonus(p), spent |-> totals.spent + s,
                    decayed |-> totals.decayed + d]
      /\ a.balance = old.balance + m - s - d /\ a.earned = old.earned + m
      /\ a.spent = old.spent + s /\ a.decayed = old.decayed + d
  BY DEF Operates, Moves, Book, Bonus
<1> HIDE DEF old
<1>3. a.balance \in Nat /\ a.balance = a.earned - a.spent - a.decayed
  BY <1>1, <1>2 DEF AccountRecord
<1>4. \A q \in Peer : /\ accounts'[q].balance \in Nat
                      /\ accounts'[q].balance
                           = accounts'[q].earned - accounts'[q].spent - accounts'[q].decayed
  BY <1>2, <1>3 DEF LedgerInv, LedgerTypeOK, Conservation
<1>5. Cardinality(Holdings') = Cardinality(Holdings) - accounts[p].balance + a.balance
  <2>1. Balances \in [Peer -> Nat] /\ Holdings = Stacks(Balances)
    BY Counting DEF LedgerInv
  <2>2. Holdings' = Stacks([Balances EXCEPT ![p] = a.balance])
    <3>1. \A q \in Peer : accounts'[q].balance = [Balances EXCEPT ![p] = a.balance][q]
      BY <1>2 DEF Balances, LedgerInv, LedgerTypeOK
    <3> QED
      BY <3>1 DEF Holdings, Stacks
  <2>3. Balances[p] = accounts[p].balance
    BY DEF Balances
  <2> QED
    BY <1>3, <2>1, <2>2, <2>3, StackChanges
<1>6. Cardinality(Holdings) = totals.minted - totals.spent - totals.decayed
  BY DEF LedgerInv, Conservation
<1>7. /\ totals'.minted = totals.minted + m + Bonus(p) /\ totals'.spent = totals.spent + s
      /\ totals'.decayed = totals.decayed + d
  BY <1>2
<1>8. /\ totals.minted \in Nat /\ totals.spent \in Nat /\ totals.decayed \in Nat
      /\ Bonus(p) \in Nat /\ accounts[p].balance \in Nat
  BY NaturalConstants DEF LedgerInv, LedgerTypeOK, Bonus, AccountRecord
<1>9. Cardinality(Holdings') = totals'.minted - totals'.spent - totals'.decayed
  <2>1. a.balance = accounts[p].balance + Bonus(p) + m - s - d
    BY <1>1, <1>2
  <2> QED
    BY <1>5, <1>6, <1>7, <1>8, <2>1
<1> QED
  BY <1>4, <1>9 DEF Conservation

LEMMA StepKeepsHours ==
  ASSUME LedgerInv, NEW p \in Peer, NEW a \in AccountRecord, NEW m \in Nat, NEW s \in Nat,
         NEW d \in Nat, Operates(p, a, m, s, d)
  PROVE  HoursKept'
<1> DEFINE old == Account(p)  g == grants[p]
<1>1. old \in AccountRecord /\ HourKept(old, g, now) /\ g \in Seq(Nat) /\ now \in Nat
      /\ FreePerHour \in Nat
  BY FoundAccount, NaturalConstants DEF LedgerInv, LedgerTypeOK
<1>2. accounts' = [accounts EXCEPT ![p] = a] /\ now' = now
  BY DEF Operates, Moves, Book
<1>3. old.free \in Nat /\ a.free \in Nat
  BY <1>1 DEF AccountRecord
<1>4. \A q \in Peer : q # p => accounts'[q] = accounts[q] /\ grants'[q] = grants[q]
  BY <1>2 DEF LedgerInv, LedgerTypeOK, Operates, Unserved, ServedFree
<1>5. HourKept(a, grants'[p], now)
  <2>1. ASSUME NEW b \in AccountRecord, b.hourStart = old.hourStart, b.free = old.free
        PROVE  HourKept(b, g, now)
    BY <1>1, <2>1 DEF HourKept
  <2>2. ASSUME NEW b \in AccountRecord, now - old.hourStart >= Hour, b.hourStart = now, b.free = 0
        PROVE  HourKept(b, g, now)
    <3> HIDE DEF old, g
    <3> QED  BY <1>1, <2>2, HourStartsAgain
  <2>3. CASE Unserved(p, a, s)
    <3>1. \/ a.free = old.free /\ a.hourStart = old.hourStart
          \/ now - old.hourStart >= Hour /\ a.free = 0 /\ a.hourStart = now
      <4>1. \/ a.free = old.free + 0 /\ a.hourStart = old.hourStart
            \/ now - old.hourStart >= Hour /\ a.free = 0 /\ a.hourStart = now
        BY <2>3 DEF Unserved, HourOf
      <4> QED
        BY <1>3, <4>1
    <3>2. grants'[p] = g
      BY <2>3 DEF Unserved
    <3> HIDE DEF old, g
    <3> QED
      BY <2>1, <2>2, <3>1, <3>2
  <2>4. CASE ServedFree(p, a)
    <3>1. grants'[p] = Append(g, now)
      BY <2>4 DEF ServedFree, LedgerInv, LedgerTypeOK
    <3>2. \/ /\ now - old.hourStart < Hour /\ old.free < FreePerHour
             /\ a.free = old.free + 1 /\ a.hourStart = old.hourStart
          \/ /\ now - old.hourStart >= Hour /\ 0 < FreePerHour /\ a.free = 1 /\ a.hourStart = now
      BY <2>4 DEF ServedFree
    <3> HIDE DEF old, g
    <3>3. CASE /\ now - old.hourStart < Hour /\ old.free < FreePerHour
               /\ a.free = old.free + 1 /\ a.hourStart = old.hourStart
      BY <1>1, <3>1, <3>3, HourGrants
    <3>4. CASE /\ now - old.hourStart >= Hour /\ 0 < FreePerHour
               /\ a.free = 1 /\ a.hourStart = now
      <4> DEFINE b == [a EXCEPT !.free = 0]
      <4>1. b \in AccountRecord /\ b.free = 0 /\ b.hourStart = now
        BY <3>4 DEF AccountRecord
      <4> HIDE DEF b
      <4>2. HourKept(b, g, now)
        BY <2>2, <3>4, <4>1
      <4>3. /\ now - b.hourStart < Hour /\ b.free < FreePerHour
            /\ a.hourStart = b.hourStart /\ a.free = b.free + 1
        BY <1>1, <3>4, <4>1, NaturalConstants
      <4> QED
        BY <1>1, <3>1, <4>1, <4>2, <4>3, HourGrants
    <3> QED
      BY <3>2, <3>3, <3>4
  <2> QED
    BY <2>3, <2>4 DEF Operates
<1>6. accounts'[p] = a
  BY <1>2 DEF LedgerInv, LedgerTypeOK
<1> HIDE DEF old, g
<1> QED
  BY <1>2, <1>4, <1>5, <1>6 DEF HoursKept, LedgerInv

LEMMA StepMatchesLedger ==
  ASSUME LedgerInv, NEW p \in Peer, NEW a \in AccountRecord, NEW m \in Nat, NEW s \in Nat,
         NEW d \in Nat, Operates(p, a, m, s, d)
  PROVE  GateMatchesLedger'
<1> DEFINE least == Min({CostStandard, CostPriority})
           granted == UNION {{q} \X DOMAIN grants[q] : q \in Peer}
<1>1. /\ gate.free \in Nat /\ gate.paid \in Nat /\ gate.rejected \in Nat
      /\ totals.spent \in Nat /\ totals'.spent = totals.spent + s
      /\ gate.free = Cardinality(granted) /\ totals.spent >= least * gate.paid
  BY DEF LedgerInv, LedgerTypeOK, GateMatchesLedger, Operates, Moves, Book
<1>2. least \in Nat
  <2>1. \E x \in {CostStandard, CostPriority} : \A y \in {CostStandard, CostPriority} : x =< y
    BY NaturalConstants
  <2> QED
    BY <2>1, NaturalConstants DEF Min
<1>3. Grants \in [Peer -> Nat] /\ granted = Stacks(Grants)
  BY Counting DEF LedgerInv
<1>4. CASE Unserved(p, a, s)
  <2>1. gate'.free = gate.free /\ granted' = granted
    BY <1>4 DEF Unserved, Counted, LedgerInv, LedgerTypeOK
  <2>2. \/ gate'.paid = gate.paid
        \/ gate'.paid = gate.paid + 1 /\ s >= least
    <3>1. \/ gate' = gate \/ gate' = Counted("rejected")
          \/ s >= least /\ gate' = Counted("paid")
      BY <1>4 DEF Unserved
    <3>2. /\ Counted("rejected").paid = gate.paid
          /\ Counted("paid").paid = gate.paid + 1
      BY DEF Counted, LedgerInv, LedgerTypeOK
    <3>3. CASE gate' = gate
      BY <3>3
    <3>4. CASE gate' = Counted("rejected")
      BY <3>2, <3>4, Zenon
    <3>5. CASE s >= least /\ gate' = Counted("paid")
      <4>1. gate'.paid = gate.paid + 1
        BY <3>2, <3>5, Zenon
      <4> QED  BY <3>5, <4>1
    <3> QED
      BY <3>1, <3>3, <3>4, <3>5
  <2> HIDE DEF least, granted
  <2>3. least * (gate.paid + 1) = least * gate.paid + least
    BY <1>1, <1>2
  <2>4. least * gate.paid \in Nat
    BY <1>1, <1>2
  <2>5. totals'.spent >= least * gate'.paid
    <3>1. CASE gate'.paid = gate.paid
      <4>1. least * gate'.paid = least * gate.paid
        BY <3>1
      <4> QED  BY <1>1, <2>4, <4>1
    <3>2. CASE gate'.paid = gate.paid + 1 /\ s >= least
      <4>1. least * gate'.paid = least * gate.paid + least
        BY <2>3, <3>2
      <4> QED  BY <1>1, <1>2, <2>4, <3>2, <4>1
    <3> QED
      BY <2>2, <3>1, <3>2
  <2>6. gate'.free = Cardinality(granted')
    BY <1>1, <2>1
  <2> QED
    BY <2>5, <2>6 DEF GateMatchesLedger, least, granted
<1>5. CASE ServedFree(p, a)
  <2>1. /\ gate'.free = gate.free + 1 /\ gate'.paid = gate.paid
        /\ grants' = [grants EXCEPT ![p] = Append(@, now)]
    BY <1>5 DEF ServedFree, Counted, LedgerInv, LedgerTypeOK
  <2>2. granted' = Stacks([Grants EXCEPT ![p] = Len(grants[p]) + 1])
    <3>1. ASSUME NEW q \in Peer
          PROVE  DOMAIN grants'[q] = 1..[Grants EXCEPT ![p] = Len(grants[p]) + 1][q]
      <4>1. grants[q] \in Seq(Nat) /\ grants[p] \in Seq(Nat) /\ grants \in [Peer -> Seq(Nat)]
            /\ now \in Nat
        BY DEF LedgerInv, LedgerTypeOK
      <4>2. CASE q = p
        <5>1. grants'[q] = Append(grants[p], now)
          BY <2>1, <4>1, <4>2
        <5>2. DOMAIN Append(grants[p], now) = 1..(Len(grants[p]) + 1)
          BY <4>1
        <5> QED
          BY <4>2, <5>1, <5>2 DEF Grants
      <4>3. CASE q # p
        BY <2>1, <4>1, <4>3 DEF Grants
      <4> QED
        BY <4>2, <4>3
    <3> QED
      BY <3>1 DEF Stacks
  <2>3. Len(grants[p]) \in Nat /\ Grants[p] = Len(grants[p])
    BY DEF LedgerInv, LedgerTypeOK, Grants
  <2> HIDE DEF granted, least
  <2>4. Cardinality(granted') = Cardinality(granted) + 1
    <3>1. Cardinality(granted') = Cardinality(Stacks(Grants)) - Grants[p] + (Len(grants[p]) + 1)
      <4>1. Len(grants[p]) + 1 \in Nat
        BY <2>3
      <4> QED
        BY <1>3, <2>2, <4>1, StackChanges
    <3>2. Cardinality(Stacks(Grants)) = Cardinality(granted) /\ Cardinality(granted) \in Nat
      BY <1>1, <1>3
    <3> QED
      BY <2>3, <3>1, <3>2
  <2>5. Len(grants[p]) \in Nat
    BY <2>3
  <2>6. totals'.spent >= least * gate'.paid
    <3>1. least * gate.paid \in Nat /\ least * gate'.paid = least * gate.paid
      BY <1>1, <1>2, <2>1
    <3> QED
      BY <1>1, <3>1
  <2>7. gate'.free = Cardinality(granted')
    BY <1>1, <2>1, <2>4
  <2> QED
    BY <2>6, <2>7 DEF GateMatchesLedger, granted, least
<1> QED
  BY <1>4, <1>5 DEF Operates

LEMMA StepKeepsLedger ==
  ASSUME LedgerInv, LedgerStep  PROVE LedgerInv'
BY StepTypes, StepConserves, StepKeepsHours, StepMatchesLedger DEF LedgerStep, LedgerInv

-----------------------------------------------------------------------------
(* A process that starts or has been killed has an empty ledger.           *)
EmptyLedger ==
  /\ accounts = [p \in Peer |-> NoAccount]
  /\ totals = [minted |-> 0, spent |-> 0, decayed |-> 0]
  /\ gate = [rejected |-> 0, free |-> 0, paid |-> 0]
  /\ grants = [p \in Peer |-> << >>]
  /\ now \in Nat \ {0}

LEMMA EmptyLedgerInv == EmptyLedger => LedgerInv
<1> SUFFICES ASSUME EmptyLedger  PROVE LedgerInv
  OBVIOUS
<1>1. /\ NoAccount \in AccountRecord /\ NoAccount.balance = 0 /\ NoAccount.earned = 0
      /\ NoAccount.spent = 0 /\ NoAccount.decayed = 0 /\ ~NoAccount.open
  BY DEF NoAccount, AccountRecord
<1>2. LedgerTypeOK
  BY <1>1 DEF EmptyLedger, LedgerTypeOK
<1>3. UnknownAreNew /\ HoursKept
  BY <1>1 DEF EmptyLedger, UnknownAreNew, HoursKept
<1>4. Conservation
  <2>1. Holdings = {}
    BY <1>1 DEF EmptyLedger, Holdings
  <2>2. \A p \in Peer : accounts[p] = NoAccount
    BY DEF EmptyLedger
  <2>3. totals.minted = 0 /\ totals.spent = 0 /\ totals.decayed = 0
    BY DEF EmptyLedger
  <2> QED
    BY <1>1, <2>1, <2>2, <2>3, FS_EmptySet DEF Conservation
<1>5. GateMatchesLedger
  <2>1. UNION {{p} \X DOMAIN grants[p] : p \in Peer} = {}
    BY DEF EmptyLedger
  <2>2. gate.free = 0 /\ gate.paid = 0 /\ totals.spent = 0
    BY DEF EmptyLedger
  <2>3. Min({CostStandard, CostPriority}) \in Nat
    <3>1. \E x \in {CostStandard, CostPriority} : \A y \in {CostStandard, CostPriority} : x =< y
      BY NaturalConstants
    <3> QED
      BY <3>1, NaturalConstants DEF Min
  <2> QED
    BY <2>1, <2>2, <2>3, FS_EmptySet DEF GateMatchesLedger
<1> QED
  BY <1>2, <1>3, <1>4, <1>5 DEF LedgerInv

LEMMA LedgerUnchanged ==
  ASSUME LedgerInv, UNCHANGED <<ledger, now>>
  PROVE  LedgerInv'
BY DEF LedgerInv, ledger, LedgerTypeOK, UnknownAreNew, Conservation, Holdings, HoursKept,
       GateMatchesLedger

LEMMA TimeGoesOn ==
  ASSUME LedgerInv, Tick
  PROVE  LedgerInv'
<1>1. /\ now' \in Nat \ {0} /\ now \in Nat /\ now <= now'
      /\ accounts' = accounts /\ totals' = totals /\ gate' = gate /\ grants' = grants
  BY DEF LedgerInv, LedgerTypeOK, Tick
<1>2. LedgerTypeOK' /\ UnknownAreNew' /\ Conservation' /\ GateMatchesLedger'
  BY <1>1 DEF LedgerInv, LedgerTypeOK, UnknownAreNew, Conservation, Holdings, GateMatchesLedger
<1>3. ASSUME NEW p \in Peer, accounts[p].open  PROVE HourKept(accounts[p], grants[p], now')
  <2>1. accounts[p] \in AccountRecord /\ grants[p] \in Seq(Nat)
    BY DEF LedgerInv, LedgerTypeOK
  <2>2. HourKept(accounts[p], grants[p], now)
    BY <1>3 DEF LedgerInv, HoursKept
  <2> QED
    BY <1>1, <2>1, <2>2, HourPasses
<1> QED
  BY <1>1, <1>2, <1>3 DEF LedgerInv, HoursKept

(* Whatever the process does, the ledger takes one of its steps, starts    *)
(* anew, is left alone, or time goes on.                                   *)
LEMMA LedgerNext ==
  ASSUME LedgerInv, [NetworkNext]_<<network, vars>>
  PROVE  LedgerInv'
<1>0. EmptyLedger' => LedgerInv'
  BY EmptyLedgerInv, PTL
<1>1. CASE Start
  BY <1>1, ConnectingIsStep, StepKeepsLedger, NetworkAssumption DEF Start, LedgerInv
<1>2. CASE Crash
  BY <1>0, <1>2 DEF Crash, NoProcess, EmptyLedger, LedgerInv, LedgerTypeOK
<1>3. CASE \E n \in Texts : LoadText(n)
  BY <1>3, LedgerUnchanged DEF LoadText
<1>4. CASE \E p \in Remote : RegisterPeer(p) \/ RemovePeer(p)
  BY <1>4, LedgerUnchanged DEF RegisterPeer, RemovePeer
<1>5. CASE \E n \in DOMAIN files : LoadCheckpoint(n)
  BY <1>5, LedgerUnchanged DEF LoadCheckpoint
<1>6. CASE \E outcome \in Outcomes, pay \in RoundPay : TrainRound(outcome, pay)
  <2>1. \E pay \in RoundPay : EarnTrainingRound(Own, pay)
    BY <1>6 DEF TrainRound
  <2> QED
    BY <2>1, EarningIsStep, StepKeepsLedger, NetworkAssumption DEF LedgerInv
<1>7. CASE SaveBegin \/ SaveEnd
  BY <1>7, LedgerUnchanged DEF SaveBegin, SaveEnd
<1>8. CASE \E generation \in 1..MaxMutations : ReportMutation(generation)
  BY <1>8, LedgerUnchanged DEF ReportMutation
<1>9. CASE UseCredits
  BY <1>9, UsingIsStep, StepKeepsLedger DEF UseCredits, LedgerInv
<1>10. CASE Tick /\ UNCHANGED network
  BY <1>10, TimeGoesOn
<1>11. CASE UNCHANGED <<network, vars>>
  BY <1>11, LedgerUnchanged DEF vars, ledger
<1> QED
  BY <1>1, <1>2, <1>3, <1>4, <1>5, <1>6, <1>7, <1>8, <1>9, <1>10, <1>11 DEF NetworkNext

(* The accounts, the totals, the gate and the grants stay consistent in    *)
(* every operation of credits.py, and a killed process leaves none.        *)
THEOREM LedgerSafety == NetworkSpec => []LedgerInv
<1>1. NetworkInit => LedgerInv
  BY EmptyLedgerInv DEF NetworkInit, Init, EmptyLedger
<1>2. LedgerInv /\ [NetworkNext]_<<network, vars>> => LedgerInv'
  BY LedgerNext
<1> QED
  BY <1>1, <1>2, PTL DEF NetworkSpec

(* No operation of CreditLedger creates, loses or overdraws credits beyond *)
(* what it books as minted, spent and decayed.                             *)
THEOREM CreditsAreConserved == NetworkSpec => []Conservation
<1>1. LedgerInv => Conservation
  BY DEF LedgerInv
<1> QED
  BY <1>1, LedgerSafety, PTL

(* InferenceGate serves nothing that the ledger has neither granted for    *)
(* free nor been paid for.                                                 *)
THEOREM GateIsAccountedFor == NetworkSpec => []GateMatchesLedger
<1>1. LedgerInv => GateMatchesLedger
  BY DEF LedgerInv
<1> QED
  BY <1>1, LedgerSafety, PTL

-----------------------------------------------------------------------------
(* The free tier across restarts. A new process keeps no account, so its   *)
(* first hour of any peer starts no earlier than it does: until that hour  *)
(* is over it grants no more than one limit, whatever went before.         *)
Span(t) == {x \in Nat : t <= x /\ x < t + Hour}
Began == IF starts = << >> THEN 0 ELSE starts[Len(starts)]

(* The grants g of a process that began at b to an account a it opened.    *)
FirstHourKept(a, g, b) ==
  /\ a.hourStart >= b /\ \A i \in DOMAIN g : g[i] >= b
  /\ a.hourStart < b + Hour => \A i \in DOMAIN g : g[i] >= a.hourStart
  /\ \A t \in Nat : t <= b => Held(g, Span(t)) <= FreePerHour

FirstHoursKept(b) ==
  \A p \in Peer : accounts[p].open => FirstHourKept(accounts[p], grants[p], b)

(* Room in a span for the process that runs now, if it began in it.        *)
Room(t) == IF Up /\ Began \in Span(t) THEN FreePerHour ELSE 0

RestartTypeOK ==
  /\ starts \in Seq(Nat) /\ served \in [Peer -> Seq(Nat)]
  /\ Began <= now
  /\ IF Up THEN starts # << >> ELSE \A p \in Peer : ~accounts[p].open

ServedBefore ==
  \A p \in Peer : \A i \in DOMAIN served[p] : served[p][i] <= (IF Up THEN Began ELSE now)

ServedWithin ==
  \A p \in Peer, t \in Nat :
    Held(served[p], Span(t)) + Room(t) <= (2 + Held(starts, Span(t))) * FreePerHour

RestartInv == RestartTypeOK /\ ServedBefore /\ ServedWithin /\ FirstHoursKept(Began)

LEMMA HeldTogether ==
  ASSUME NEW g \in Seq(Nat), NEW h \in Seq(Nat), NEW T
  PROVE  Held(g \o h, T) <= Held(g, T) + Held(h, T)
<1> DEFINE a == {i \in DOMAIN g : g[i] \in T}  b == {i \in DOMAIN h : h[i] \in T}
           shift == [j \in b |-> Len(g) + j]
           c == {i \in DOMAIN (g \o h) : (g \o h)[i] \in T}
<1>1. /\ Len(g) \in Nat /\ Len(h) \in Nat /\ DOMAIN g = 1..Len(g) /\ DOMAIN h = 1..Len(h)
      /\ DOMAIN (g \o h) = 1..(Len(g) + Len(h))
      /\ \A i \in 1..(Len(g) + Len(h)) :
           (g \o h)[i] = IF i <= Len(g) THEN g[i] ELSE h[i - Len(g)]
  OBVIOUS
<1>2. IsFiniteSet(a) /\ IsFiniteSet(b)
  BY HeldFinite
<1> DEFINE image == {shift[j] : j \in b}
<1>3. IsFiniteSet(image) /\ Cardinality(image) <= Cardinality(b)
  <2> HIDE DEF b
  <2>1. shift \in [b -> {shift[j] : j \in b}]
    OBVIOUS
  <2>2. shift \in Surjection(b, {shift[j] : j \in b})
    BY <2>1 DEF Surjection
  <2> QED
    BY <1>2, <2>2, FS_Surjection
<1>4. c \subseteq a \cup image
  <2> SUFFICES ASSUME NEW i \in c  PROVE i \in a \cup image
    OBVIOUS
  <2>1. CASE i <= Len(g)
    BY <1>1, <2>1
  <2>2. CASE ~(i <= Len(g))
    <3>1. i - Len(g) \in b
      BY <1>1, <2>2
    <3>2. shift[i - Len(g)] = i
      BY <1>1, <3>1
    <3> QED
      BY <3>1, <3>2
  <2> QED
    BY <2>1, <2>2
<1> HIDE DEF a, b, c, image, shift
<1>5. /\ IsFiniteSet(a \cup image) /\ IsFiniteSet(a \cap image)
      /\ Cardinality(a \cup image)
           = Cardinality(a) + Cardinality(image) - Cardinality(a \cap image)
  BY <1>2, <1>3, FS_Union, FS_Intersection
<1>6. Cardinality(c) <= Cardinality(a \cup image) /\ IsFiniteSet(c)
  BY <1>4, <1>5, FS_Subset
<1>7. /\ Cardinality(a) \in Nat /\ Cardinality(b) \in Nat /\ Cardinality(c) \in Nat
      /\ Cardinality(image) \in Nat /\ Cardinality(a \cup image) \in Nat
      /\ Cardinality(a \cap image) \in Nat
  BY <1>2, <1>3, <1>5, <1>6, FS_CardinalityType
<1>8. Cardinality(c) <= Cardinality(a) + Cardinality(b)
  BY <1>3, <1>5, <1>6, <1>7
<1> QED
  BY <1>8 DEF a, b, c, Held

LEMMA AtMostTwice ==
  ASSUME LedgerInv, NEW p \in Peer, NEW t \in Nat
  PROVE  Held(grants[p], Span(t)) <= 2 * FreePerHour
<1>1. FreePerHour \in Nat
  BY NaturalConstants
<1>2. CASE accounts[p].open
  BY <1>2 DEF LedgerInv, HoursKept, HourKept, Span
<1>3. CASE ~accounts[p].open
  <2>1. Held(grants[p], Span(t)) = 0
    BY <1>3, HeldNone DEF LedgerInv, UnknownAreNew
  <2> QED
    BY <1>1, <2>1
<1> QED
  BY <1>2, <1>3

LEMMA NoneHeld ==
  ASSUME NEW g, NEW T, \A i \in DOMAIN g : g[i] \notin T
  PROVE  Held(g, T) = 0
<1>1. {i \in DOMAIN g : g[i] \in T} = {}
  OBVIOUS
<1> QED
  BY <1>1, FS_EmptySet DEF Held

(* What RestartInv promises: the two counts and the starts in a span.      *)
LEMMA LimitAcrossRestarts ==
  ASSUME LedgerInv, RestartInv, NEW p \in Peer, NEW t \in Nat
  PROVE  Held(served[p], Span(t)) + Held(grants[p], Span(t))
           <= (2 + Held(starts, Span(t))) * FreePerHour
<1> DEFINE before == Held(served[p], Span(t))  here == Held(grants[p], Span(t))
           begun == Held(starts, Span(t))
<1>1. /\ grants[p] \in Seq(Nat) /\ served[p] \in Seq(Nat) /\ starts \in Seq(Nat) /\ Began \in Nat
      /\ Hour \in Nat \ {0} /\ FreePerHour \in Nat
  BY NaturalConstants DEF LedgerInv, LedgerTypeOK, RestartInv, RestartTypeOK, Began
<1>2. before \in Nat /\ here \in Nat /\ begun \in Nat
  BY <1>1, HeldFinite
<1>3. here <= 2 * FreePerHour
  BY AtMostTwice
<1>4. before + Room(t) <= (2 + begun) * FreePerHour
  BY DEF RestartInv, ServedWithin
<1>5. 2 * FreePerHour <= (2 + begun) * FreePerHour
  <2> HIDE DEF begun
  <2>1. (2 + begun) * FreePerHour = 2 * FreePerHour + begun * FreePerHour
    BY <1>1, <1>2
  <2>2. begun * FreePerHour \in Nat
    BY <1>1, <1>2
  <2> QED
    BY <1>1, <2>1, <2>2
<1>6. CASE ~Up
  <2>1. here = 0
    BY <1>6, HeldNone DEF RestartInv, RestartTypeOK, LedgerInv, UnknownAreNew
  <2>2. Room(t) = 0
    BY <1>6 DEF Room
  <2> HIDE DEF before, here, begun
  <2>9. before + here <= (2 + begun) * FreePerHour
    BY <1>2, <1>4, <2>1, <2>2
  <2> QED
    BY <2>9 DEF before, here, begun
<1>7. CASE Up /\ Began < t
  <2> DEFINE limit == (2 + begun) * FreePerHour
  <2>1. \A i \in DOMAIN served[p] : served[p][i] \notin Span(t)
    BY <1>1, <1>7 DEF RestartInv, ServedBefore, Span
  <2>2. before = 0
    BY <2>1, NoneHeld
  <2>3. limit \in Nat /\ here <= 2 * FreePerHour /\ 2 * FreePerHour <= limit
    <3> HIDE DEF begun, here
    <3> QED
      BY <1>1, <1>2, <1>3, <1>5
  <2> HIDE DEF before, here, limit
  <2>4. before + here <= limit
    BY <1>1, <1>2, <2>2, <2>3
  <2> QED
    BY <2>4 DEF before, here, limit
<1>8. CASE Up /\ Began \in Span(t)
  <2>1. Room(t) = FreePerHour
    BY <1>8 DEF Room
  <2>2. here <= FreePerHour
    <3>1. CASE accounts[p].open
      BY <1>8, <3>1 DEF RestartInv, FirstHoursKept, FirstHourKept, Span
    <3>2. CASE ~accounts[p].open
      <4>1. here = 0
        BY <3>2, HeldNone DEF LedgerInv, UnknownAreNew
      <4> QED
        BY <1>1, <4>1
    <3> QED
      BY <3>1, <3>2
  <2> HIDE DEF before, here, begun
  <2>3. (2 + begun) * FreePerHour \in Nat
    BY <1>1, <1>2
  <2>9. before + here <= (2 + begun) * FreePerHour
    BY <1>1, <1>2, <1>4, <2>1, <2>2, <2>3
  <2> QED
    BY <2>9 DEF before, here, begun
<1>9. CASE Up /\ Began >= t + Hour
  <2>1. here = 0
    <3>1. CASE accounts[p].open
      <4>1. \A i \in DOMAIN grants[p] : grants[p][i] \notin Span(t)
        BY <1>1, <1>9, <3>1 DEF RestartInv, FirstHoursKept, FirstHourKept, Span
      <4> QED
        BY <4>1, NoneHeld
    <3>2. CASE ~accounts[p].open
      BY <3>2, HeldNone DEF LedgerInv, UnknownAreNew
    <3> QED
      BY <3>1, <3>2
  <2>2. Room(t) \in Nat
    BY <1>1 DEF Room
  <2> HIDE DEF before, here, begun
  <2>3. (2 + begun) * FreePerHour \in Nat
    BY <1>1, <1>2
  <2>9. before + here <= (2 + begun) * FreePerHour
    BY <1>2, <1>4, <2>1, <2>2, <2>3
  <2> QED
    BY <2>9 DEF before, here, begun
<1>10. Began < t \/ Began \in Span(t) \/ Began >= t + Hour
  BY <1>1 DEF Span
<1> QED
  BY <1>6, <1>7, <1>8, <1>9, <1>10

(* A step of the ledger of a process that began at b.                      *)
LEMMA StepKeepsFirstHours ==
  ASSUME LedgerInv, LedgerStep, NEW b \in Nat, b <= now, FirstHoursKept(b)
  PROVE  FirstHoursKept(b)'
<1>1. PICK p \in Peer, a \in AccountRecord, m \in Nat, s \in Nat, d \in Nat : Operates(p, a, m, s, d)
  BY DEF LedgerStep
<1> DEFINE old == Account(p)  g == grants[p]
<1>2. /\ old \in AccountRecord /\ HourKept(old, g, now) /\ g \in Seq(Nat) /\ now \in Nat
      /\ FreePerHour \in Nat /\ Hour \in Nat \ {0}
      /\ old.free \in Nat /\ a.free \in Nat /\ old.hourStart \in Nat /\ a.hourStart \in Nat
  BY FoundAccount, NaturalConstants DEF LedgerInv, LedgerTypeOK, AccountRecord
<1>3. /\ accounts' = [accounts EXCEPT ![p] = a] /\ now' = now
  BY <1>1 DEF Operates, Moves, Book
<1>4. \A q \in Peer : q # p => accounts'[q] = accounts[q] /\ grants'[q] = grants[q]
  BY <1>1, <1>3 DEF LedgerInv, LedgerTypeOK, Operates, Unserved, ServedFree
<1>5. accounts'[p] = a
  BY <1>3 DEF LedgerInv, LedgerTypeOK
<1>6. FirstHourKept(old, g, b)
  <2>1. CASE accounts[p].open
    BY <2>1 DEF Account, FirstHoursKept
  <2>2. CASE ~accounts[p].open
    <3>1. old.hourStart = now /\ g = << >>
      BY <2>2 DEF Account, LedgerInv, UnknownAreNew
    <3>2. \A T : Held(<< >>, T) = 0
      BY HeldNone
    <3> HIDE DEF old, g
    <3> QED
      BY <1>2, <3>1, <3>2 DEF FirstHourKept
  <2> QED
    BY <2>1, <2>2
<1>7. ASSUME NEW c \in AccountRecord,
             \/ c.hourStart = old.hourStart
             \/ now - old.hourStart >= Hour /\ c.hourStart = now
      PROVE  FirstHourKept(c, g, b)
  <2> HIDE DEF old, g
  <2>1. CASE c.hourStart = old.hourStart
    BY <1>6, <2>1 DEF FirstHourKept
  <2>2. CASE now - old.hourStart >= Hour /\ c.hourStart = now
    BY <1>2, <1>6, <2>2 DEF FirstHourKept
  <2> QED
    BY <1>7, <2>1, <2>2
<1>8. FirstHourKept(a, grants'[p], b)
  <2>1. CASE Unserved(p, a, s)
    <3>1. grants'[p] = g
      BY <2>1 DEF Unserved
    <3>2. \/ a.free = old.free + 0 /\ a.hourStart = old.hourStart
          \/ now - old.hourStart >= Hour /\ a.free = 0 /\ a.hourStart = now
      BY <2>1 DEF Unserved, HourOf
    <3> HIDE DEF old, g
    <3> QED
      BY <1>7, <3>1, <3>2
  <2>2. CASE ServedFree(p, a)
    <3>1. grants'[p] = Append(g, now)
      BY <2>2 DEF ServedFree, LedgerInv, LedgerTypeOK
    <3>2. \/ /\ now - old.hourStart < Hour /\ old.free < FreePerHour
             /\ a.free = old.free + 1 /\ a.hourStart = old.hourStart
          \/ now - old.hourStart >= Hour /\ a.hourStart = now
      BY <2>2 DEF ServedFree
    <3> HIDE DEF old, g
    <3>3. FirstHourKept(a, g, b)
      BY <1>7, <3>2
    <3>4. a.hourStart <= now
      BY <1>2, <3>2 DEF HourKept
    <3>5. \A i \in DOMAIN Append(g, now) : Append(g, now)[i] = now \/ (i \in DOMAIN g /\ Append(g, now)[i] = g[i])
      BY <1>2
    <3>6. /\ \A i \in DOMAIN Append(g, now) : Append(g, now)[i] >= b
          /\ a.hourStart < b + Hour => \A i \in DOMAIN Append(g, now) : Append(g, now)[i] >= a.hourStart
      BY <1>2, <3>3, <3>4, <3>5 DEF FirstHourKept
    <3>7. ASSUME NEW t \in Nat, t <= b
          PROVE  Held(Append(g, now), Span(t)) <= FreePerHour
      <4>1. CASE now \notin Span(t)
        <5>1. Held(Append(g, now), Span(t)) = Held(g, Span(t))
          BY <1>2, <4>1, HeldAppend
        <5> QED
          BY <3>3, <3>7, <5>1 DEF FirstHourKept
      <4>2. CASE now \in Span(t)
        <5>1. Held(Append(g, now), Span(t)) = Held(g, Span(t)) + 1
          BY <1>2, <4>2, HeldAppend
        <5>2. now < b + Hour /\ old.hourStart >= b
          BY <1>2, <1>6, <3>7, <4>2 DEF FirstHourKept, Span
        <5>3. /\ now - old.hourStart < Hour /\ old.hourStart < b + Hour
              /\ old.free < FreePerHour
          <6>1. old.hourStart <= now
            BY <1>2 DEF HourKept
          <6> QED
            BY <1>2, <3>2, <5>2, <6>1
        <5>4. \A i \in DOMAIN g : g[i] \in {x \in Nat : x >= old.hourStart}
          BY <1>2, <1>6, <5>3 DEF FirstHourKept
        <5>5. Held(g, Span(t)) <= Held(g, {x \in Nat : x >= old.hourStart})
          BY <1>2, <5>4, HeldMore
        <5>6. Held(g, {x \in Nat : x >= old.hourStart}) = old.free
          BY <1>2 DEF HourKept
        <5>7. Held(g, Span(t)) \in Nat
          BY <1>2, HeldFinite
        <5> QED
          BY <1>2, <5>1, <5>3, <5>5, <5>6, <5>7
      <4> QED
        BY <4>1, <4>2
    <3> QED
      BY <3>1, <3>3, <3>6, <3>7 DEF FirstHourKept
  <2> QED
    BY <1>1, <2>1, <2>2 DEF Operates
<1>9. ASSUME NEW q \in Peer, accounts'[q].open
      PROVE  FirstHourKept(accounts'[q], grants'[q], b)
  <2>1. CASE q = p
    BY <1>5, <1>8, <2>1
  <2>2. CASE q # p
    BY <1>4, <1>9, <2>2 DEF FirstHoursKept
  <2> QED
    BY <2>1, <2>2
<1> QED
  BY <1>9 DEF FirstHoursKept

-----------------------------------------------------------------------------
LEMMA RestartUnchanged ==
  ASSUME RestartInv, UNCHANGED <<accounts, grants, starts, served>>, Up' = Up,
         now \in Nat, now' \in Nat, now <= now'
  PROVE  RestartInv'
<1>1. Began' = Began /\ Began \in Nat
  BY DEF Began, RestartInv, RestartTypeOK
<1>2. RestartTypeOK'
  BY <1>1 DEF RestartInv, RestartTypeOK
<1>3. ServedBefore'
  <2> SUFFICES ASSUME NEW p \in Peer, NEW i \in DOMAIN served[p]
               PROVE  served[p][i] <= (IF Up THEN Began ELSE now')
    BY <1>1 DEF ServedBefore
  <2>1. served[p][i] <= (IF Up THEN Began ELSE now) /\ served[p][i] \in Nat
    BY DEF RestartInv, ServedBefore, RestartTypeOK
  <2> QED
    BY <2>1
<1>4. \A t \in Nat : Room(t)' = Room(t)
  BY <1>1 DEF Room
<1>5. ServedWithin' /\ FirstHoursKept(Began)'
  BY <1>1, <1>4 DEF RestartInv, ServedWithin, FirstHoursKept
<1> QED
  BY <1>2, <1>3, <1>5 DEF RestartInv

(* An operation on the ledger of the process that runs.                    *)
LEMMA RestartStep ==
  ASSUME LedgerInv, RestartInv, LedgerStep, Up, Up', UNCHANGED <<starts, served>>
  PROVE  RestartInv'
<1>1. Began' = Began /\ Began \in Nat /\ now' = now /\ now \in Nat /\ Began <= now
  BY DEF Began, RestartInv, RestartTypeOK, LedgerStep, Operates, LedgerInv, LedgerTypeOK
<1>2. FirstHoursKept(Began)'
  <2>1. PICK b \in Nat : b = Began
    BY <1>1
  <2>2. b <= now /\ FirstHoursKept(b)
    BY <1>1, <2>1 DEF RestartInv
  <2>3. FirstHoursKept(b)'
    BY <2>2, StepKeepsFirstHours
  <2> QED
    BY <1>1, <2>1, <2>3 DEF FirstHoursKept
<1>3. \A t \in Nat : Room(t)' = Room(t)
  BY <1>1 DEF Room
<1>4. RestartTypeOK' /\ ServedBefore' /\ ServedWithin'
  BY <1>1, <1>3 DEF RestartInv, RestartTypeOK, ServedBefore, ServedWithin
<1> QED
  BY <1>2, <1>4 DEF RestartInv

LEMMA RestartStarts ==
  ASSUME LedgerInv, RestartInv, Start
  PROVE  RestartInv'
<1>1. /\ ~Up /\ Up' /\ starts' = Append(starts, now) /\ served' = served /\ now' = now
      /\ RecordConnect(Own)
  BY DEF Start, Up, RecordConnect
<1>2. /\ now \in Nat /\ starts \in Seq(Nat) /\ served \in [Peer -> Seq(Nat)]
      /\ \A p \in Peer : ~accounts[p].open
      /\ Hour \in Nat \ {0} /\ FreePerHour \in Nat
  BY <1>1, NaturalConstants DEF LedgerInv, LedgerTypeOK, RestartInv, RestartTypeOK
<1>3. starts' \in Seq(Nat) /\ starts' # << >> /\ Began' = now
  <2>1. /\ Append(starts, now) \in Seq(Nat) /\ Append(starts, now) # << >>
        /\ Append(starts, now)[Len(Append(starts, now))] = now
    BY <1>2
  <2> QED
    BY <1>1, <2>1 DEF Began
<1>4. RestartTypeOK'
  BY <1>1, <1>2, <1>3 DEF RestartTypeOK
<1>5. ServedBefore'
  BY <1>1, <1>3 DEF RestartInv, ServedBefore
<1>6. ServedWithin'
  <2> SUFFICES ASSUME NEW p \in Peer, NEW t \in Nat
               PROVE  Held(served[p], Span(t)) + Room(t)'
                        <= (2 + Held(starts', Span(t))) * FreePerHour
    BY <1>1 DEF ServedWithin
  <2> DEFINE before == Held(served[p], Span(t))  begun == Held(starts, Span(t))
  <2>1. before \in Nat /\ begun \in Nat
    BY <1>2, HeldFinite
  <2>2. Room(t) = 0 /\ Room(t)' = IF now \in Span(t) THEN FreePerHour ELSE 0
    BY <1>1, <1>3 DEF Room
  <2>3. before + 0 <= (2 + begun) * FreePerHour
    BY <2>2 DEF RestartInv, ServedWithin
  <2>4. Held(starts', Span(t)) = IF now \in Span(t) THEN begun + 1 ELSE begun
    BY <1>1, <1>2, HeldAppend
  <2> HIDE DEF before, begun
  <2>5. (2 + (begun + 1)) * FreePerHour = (2 + begun) * FreePerHour + FreePerHour
    BY <1>2, <2>1
  <2>6. (2 + begun) * FreePerHour \in Nat
    BY <1>2, <2>1
  <2>7. before + Room(t)' <= (2 + Held(starts', Span(t))) * FreePerHour
    BY <1>2, <2>1, <2>2, <2>3, <2>4, <2>5, <2>6
  <2> QED
    BY <2>7 DEF before
<1>7. FirstHoursKept(Began)'
  <2>1. PICK b \in Nat : b = now
    BY <1>2
  <2>2. b <= now /\ FirstHoursKept(b)
    BY <1>2, <2>1 DEF FirstHoursKept
  <2>3. LedgerStep
    BY <1>1, ConnectingIsStep, NetworkAssumption DEF LedgerInv
  <2>4. FirstHoursKept(b)'
    BY <2>2, <2>3, StepKeepsFirstHours
  <2> QED
    BY <1>3, <2>1, <2>4 DEF FirstHoursKept
<1> QED
  BY <1>4, <1>5, <1>6, <1>7 DEF RestartInv

LEMMA RestartCrashes ==
  ASSUME LedgerInv, RestartInv, Crash
  PROVE  RestartInv'
<1>1. /\ Up /\ ~Up' /\ starts' = starts /\ now' = now
      /\ served' = [p \in Peer |-> served[p] \o grants[p]]
      /\ accounts' = [p \in Peer |-> NoAccount]
  BY DEF Crash, NoProcess, Up
<1>2. /\ now \in Nat /\ starts \in Seq(Nat) /\ served \in [Peer -> Seq(Nat)]
      /\ grants \in [Peer -> Seq(Nat)] /\ Began \in Nat /\ Began <= now
  BY DEF LedgerInv, LedgerTypeOK, RestartInv, RestartTypeOK, Began
<1>3. served' \in [Peer -> Seq(Nat)] /\ Began' = Began
  BY <1>1, <1>2 DEF Began
<1>4. \A p \in Peer : ~accounts'[p].open
  BY <1>1 DEF NoAccount
<1>5. RestartTypeOK' /\ FirstHoursKept(Began)'
  BY <1>1, <1>2, <1>3, <1>4 DEF RestartTypeOK, FirstHoursKept
<1>6. ServedBefore'
  <2> SUFFICES ASSUME NEW p \in Peer, NEW i \in DOMAIN (served[p] \o grants[p])
               PROVE  (served[p] \o grants[p])[i] <= now
    BY <1>1 DEF ServedBefore
  <2>1. served[p] \in Seq(Nat) /\ grants[p] \in Seq(Nat)
    BY <1>2
  <2>2. \A j \in DOMAIN served[p] : served[p][j] \in Nat /\ served[p][j] <= now
    BY <1>1, <1>2, <2>1 DEF RestartInv, ServedBefore
  <2>3. \A j \in DOMAIN grants[p] : grants[p][j] <= now
    <3>1. CASE accounts[p].open
      BY <3>1 DEF LedgerInv, HoursKept, HourKept
    <3>2. CASE ~accounts[p].open
      BY <3>2 DEF LedgerInv, UnknownAreNew
    <3> QED
      BY <3>1, <3>2
  <2>4. \/ i \in DOMAIN served[p] /\ (served[p] \o grants[p])[i] = served[p][i]
        \/ /\ i - Len(served[p]) \in DOMAIN grants[p]
           /\ (served[p] \o grants[p])[i] = grants[p][i - Len(served[p])]
    <3> DEFINE s == served[p]  g == grants[p]
    <3>1. s \in Seq(Nat) /\ g \in Seq(Nat) /\ i \in DOMAIN (s \o g)
      BY <2>1
    <3> HIDE DEF s, g
    <3>2. \/ i \in DOMAIN s /\ (s \o g)[i] = s[i]
          \/ i - Len(s) \in DOMAIN g /\ (s \o g)[i] = g[i - Len(s)]
      BY <3>1
    <3> QED
      BY <3>2 DEF s, g
  <2> QED
    BY <2>2, <2>3, <2>4
<1>7. ServedWithin'
  <2> SUFFICES ASSUME NEW p \in Peer, NEW t \in Nat
               PROVE  Held(served[p] \o grants[p], Span(t)) + 0
                        <= (2 + Held(starts, Span(t))) * FreePerHour
    BY <1>1 DEF ServedWithin, Room
  <2> DEFINE before == Held(served[p], Span(t))  here == Held(grants[p], Span(t))
             all == Held(served[p] \o grants[p], Span(t))
             limit == (2 + Held(starts, Span(t))) * FreePerHour
  <2>1. served[p] \in Seq(Nat) /\ grants[p] \in Seq(Nat) /\ served[p] \o grants[p] \in Seq(Nat)
    BY <1>2
  <2>2. all <= before + here
    BY <2>1, HeldTogether
  <2>3. before + here <= limit
    BY LimitAcrossRestarts
  <2>4. all \in Nat /\ before \in Nat /\ here \in Nat
    BY <2>1, HeldFinite
  <2>5. limit \in Nat
    <3>1. Held(starts, Span(t)) \in Nat /\ FreePerHour \in Nat
      BY <1>2, HeldFinite, NaturalConstants
    <3> QED
      BY <3>1
  <2> HIDE DEF all, before, here, limit
  <2>6. all + 0 <= limit
    BY <2>2, <2>3, <2>4, <2>5
  <2> QED
    BY <2>6 DEF all, limit
<1> QED
  BY <1>5, <1>6, <1>7 DEF RestartInv

LEMMA RestartNext ==
  ASSUME LedgerInv, RestartInv, [NetworkNext]_<<network, vars>>
  PROVE  RestartInv'
<1>0. now \in Nat
  BY DEF LedgerInv, LedgerTypeOK
<1>1. CASE Start
  BY <1>1, RestartStarts
<1>2. CASE Crash
  BY <1>2, RestartCrashes
<1>3. CASE \E n \in Texts : LoadText(n)
  BY <1>0, <1>3, RestartUnchanged DEF LoadText, ledger, Up
<1>4. CASE \E p \in Remote : RegisterPeer(p) \/ RemovePeer(p)
  BY <1>0, <1>4, RestartUnchanged DEF RegisterPeer, RemovePeer, ledger, Up
<1>5. CASE \E n \in DOMAIN files : LoadCheckpoint(n)
  BY <1>0, <1>5, RestartUnchanged DEF LoadCheckpoint, ledger, Up
<1>6. CASE \E outcome \in Outcomes, pay \in RoundPay : TrainRound(outcome, pay)
  <2>1. PICK outcome \in Outcomes, pay \in RoundPay : TrainRound(outcome, pay)
    BY <1>6
  <2>2. /\ EarnTrainingRound(Own, pay) /\ Up /\ Up' /\ UNCHANGED <<starts, served>>
    BY <2>1 DEF TrainRound, Up
  <2>3. LedgerStep
    BY <2>2, EarningIsStep, NetworkAssumption DEF LedgerInv
  <2> QED
    BY <2>2, <2>3, RestartStep
<1>7. CASE SaveBegin \/ SaveEnd
  BY <1>0, <1>7, RestartUnchanged DEF SaveBegin, SaveEnd, ledger, Up
<1>8. CASE \E generation \in 1..MaxMutations : ReportMutation(generation)
  BY <1>0, <1>8, RestartUnchanged DEF ReportMutation, ledger, Up
<1>9. CASE UseCredits
  <2>1. UseLedger /\ Up /\ Up' /\ UNCHANGED <<starts, served>>
    BY <1>9 DEF UseCredits, network, Up
  <2>2. LedgerStep
    BY <2>1, UsingIsStep DEF LedgerInv
  <2> QED
    BY <2>1, <2>2, RestartStep
<1>10. CASE Tick /\ UNCHANGED network
  BY <1>0, <1>10, RestartUnchanged DEF Tick, network, Up
<1>11. CASE UNCHANGED <<network, vars>>
  BY <1>0, <1>11, RestartUnchanged DEF network, vars, Up
<1> QED
  BY <1>1, <1>2, <1>3, <1>4, <1>5, <1>6, <1>7, <1>8, <1>9, <1>10, <1>11 DEF NetworkNext

(* Every process that starts knows nothing of the free requests granted    *)
(* before, and grants no more than the limit in its first hour.            *)
THEOREM RestartSafety == NetworkSpec => []RestartInv
<1>1. NetworkInit => RestartInv
  <2> SUFFICES ASSUME NetworkInit  PROVE RestartInv
    OBVIOUS
  <2>1. /\ starts = << >> /\ served = [p \in Peer |-> << >>] /\ ~Up /\ now = 1
        /\ \A p \in Peer : ~accounts[p].open
    BY DEF NetworkInit, Init, Up, NoAccount
  <2>2. Began = 0 /\ \A t : Room(t) = 0
    BY <2>1 DEF Began, Room
  <2>3. RestartTypeOK /\ ServedBefore /\ FirstHoursKept(Began)
    BY <2>1, <2>2 DEF RestartTypeOK, ServedBefore, FirstHoursKept
  <2>4. ServedWithin
    <3> SUFFICES ASSUME NEW p \in Peer, NEW t \in Nat
                 PROVE  Held(served[p], Span(t)) + Room(t)
                          <= (2 + Held(starts, Span(t))) * FreePerHour
      BY DEF ServedWithin
    <3>1. Held(served[p], Span(t)) = 0 /\ Held(starts, Span(t)) = 0 /\ FreePerHour \in Nat
      BY <2>1, HeldNone, NaturalConstants
    <3> QED
      BY <2>2, <3>1
  <2> QED
    BY <2>3, <2>4 DEF RestartInv
<1>2. LedgerInv /\ RestartInv /\ [NetworkNext]_<<network, vars>> => RestartInv'
  BY RestartNext
<1> QED
  BY <1>1, <1>2, LedgerSafety, PTL DEF NetworkSpec

(* _get_or_create and _check_free_tier: however a peer times its requests  *)
(* around the restart of its hour, and however often the process that has  *)
(* its account is killed and started again, no hour sees more of its free  *)
(* requests than two limits, and one for each process started in it.       *)
THEOREM FreeTierIsLimited == NetworkSpec => []FreeTierPerProcess
<1>1. LedgerInv /\ RestartInv => FreeTierPerProcess
  <2> SUFFICES ASSUME LedgerInv, RestartInv, NEW p \in Peer, NEW t \in 1..MaxTime
               PROVE  Within(served[p], t) + Within(grants[p], t)
                        <= (2 + Within(starts, t)) * FreePerHour
    BY DEF FreeTierPerProcess
  <2>1. t \in Nat /\ Hour \in Nat \ {0}
    BY NaturalConstants, CreditsAssumption
  <2>2. t..(t + Hour - 1) = Span(t)
    BY <2>1 DEF Span
  <2>3. \A g : Within(g, t) = Held(g, Span(t))
    BY <2>2 DEF Within, Held
  <2> QED
    BY <2>1, <2>3, LimitAcrossRestarts
<1> QED
  BY <1>1, LedgerSafety, RestartSafety, PTL

-----------------------------------------------------------------------------
(* What the checkpoints keep. Files hold the model of a multiple of the    *)
(* interval, under the number before it; k rounds of the running model are *)
(* safe when there are none, or a whole file has them.                     *)
Multiple(k) == \E q \in Nat : k = q * CheckpointInterval

Safe(k) == k = 0 \/ \E n \in DOMAIN files : files[n].whole /\ files[n].model = SubSeq(model, 1, k)

CheckpointFile == [exists : BOOLEAN, whole : BOOLEAN, model : Seq(Nat), total : Nat]

FilesKept ==
  \A n \in DOMAIN files : files[n].whole =>
    /\ Len(files[n].model) = n + 1 /\ files[n].total = n + 1
    /\ Multiple(n + 1)

ProgressTypeOK ==
  /\ process \in {"down", "idle", "save", "write"}
  /\ starts \in Seq(Nat)
  /\ model \in Seq(Nat) /\ total_rounds = Len(model) /\ total_rounds <= MaxRounds
  /\ process = "down" => model = << >>
  /\ files \in [0..(MaxRounds - 1) -> CheckpointFile]

(* Between rounds, less than an interval of the model is not safe; in the  *)
(* checkpoint that is due, an interval of it.                              *)
SafeEnough ==
  process # "down" =>
    \E k \in 0..Len(model) :
      /\ Multiple(k) /\ Safe(k)
      /\ IF process = "idle" THEN Len(model) < k + CheckpointInterval
                             ELSE Len(model) = k + CheckpointInterval

ProgressInv == ProgressTypeOK /\ FilesKept /\ SafeEnough

LEMMA NextMultiple ==
  ASSUME NEW k \in Nat, NEW n \in Nat, Multiple(k), k <= n, n < k + CheckpointInterval
  PROVE  /\ Multiple(k + CheckpointInterval)
         /\ (n + 1) % CheckpointInterval = 0 => n + 1 = k + CheckpointInterval
         /\ (n + 1) % CheckpointInterval # 0 => n + 1 < k + CheckpointInterval
<1> DEFINE c == CheckpointInterval  d == (n + 1) \div c  r == (n + 1) % c
<1>1. c \in Nat \ {0}
  BY NetworkAssumption
<1>2. PICK q \in Nat : k = q * c
  BY DEF Multiple
<1>3. d \in Nat /\ r \in 0..(c - 1) /\ n + 1 = c * d + r
  <2>1. \A a \in Nat, b \in Nat \ {0} : /\ a = b * (a \div b) + (a % b)
                                       /\ a % b \in 0..(b - 1) /\ a \div b \in Nat
    BY SMT
  <2>2. n + 1 \in Nat
    OBVIOUS
  <2> QED
    BY <1>1, <2>1, <2>2, Zenon
<1>4. Multiple(k + c)
  <2>1. k + c = (q + 1) * c
    BY <1>1, <1>2
  <2> QED
    BY <2>1 DEF Multiple
<1> HIDE DEF c, d, r
<1>5. \A x \in Nat, y \in Nat : x < y => c * x + c <= c * y
  <2> SUFFICES ASSUME NEW x \in Nat, NEW y \in Nat, x < y  PROVE c * x + c <= c * y
    OBVIOUS
  <2>1. PICK z \in Nat : y = x + 1 + z
    <3>1. y - x - 1 \in Nat /\ y = x + 1 + (y - x - 1)
      OBVIOUS
    <3> QED  BY <3>1
  <2>2. c * y = c * x + c + c * z /\ c * z \in Nat /\ c * x \in Nat
    BY <1>1, <2>1
  <2> QED
    BY <1>1, <2>2
<1>6. k = c * q /\ c * q \in Nat /\ c * d \in Nat /\ c * (q + 1) = c * q + c
  BY <1>1, <1>2, <1>3
<1>7. ASSUME r = 0  PROVE n + 1 = k + c
  <2>1. q < d
    <3>1. ASSUME ~(q < d)  PROVE FALSE
      <4>1. d < q \/ d = q
        BY <1>3, <3>1
      <4> QED
        BY <1>1, <1>3, <1>5, <1>6, <1>7, <4>1
    <3> QED
      BY <3>1
  <2>2. c * q + c <= c * d
    BY <1>3, <1>5, <2>1
  <2> QED
    BY <1>1, <1>3, <1>6, <1>7, <2>2 DEF c
<1>8. ASSUME r # 0  PROVE n + 1 < k + c
  <2>1. n + 1 # k + c
    <3>1. ASSUME n + 1 = k + c  PROVE FALSE
      <4>1. c * d + r = c * (q + 1)
        BY <1>3, <1>6, <3>1
      <4>2. d < q + 1 \/ q + 1 < d \/ d = q + 1
        BY <1>3
      <4>3. CASE d < q + 1
        <5>1. c * d + c <= c * (q + 1)
          BY <1>3, <1>5, <4>3
        <5> QED
          BY <1>1, <1>3, <1>6, <4>1, <5>1
      <4>4. CASE q + 1 < d
        <5>1. c * (q + 1) + c <= c * d
          BY <1>3, <1>5, <4>4
        <5> QED
          BY <1>1, <1>3, <1>6, <4>1, <5>1
      <4>5. CASE d = q + 1
        BY <1>3, <1>6, <1>8, <4>1, <4>5
      <4> QED
        BY <4>2, <4>3, <4>4, <4>5
    <3> QED
      BY <3>1
  <2> QED
    BY <1>1, <1>6, <2>1 DEF c
<1> QED
  BY <1>4, <1>7, <1>8 DEF c, r

LEMMA PrefixAfterAppend ==
  ASSUME NEW s \in Seq(Nat), NEW x \in Nat, NEW k \in 0..Len(s)
  PROVE  SubSeq(Append(s, x), 1, k) = SubSeq(s, 1, k)
<1>1. /\ Append(s, x) \in Seq(Nat) /\ Len(Append(s, x)) = Len(s) + 1
      /\ \A i \in 1..Len(s) : Append(s, x)[i] = s[i]
  BY AppendProperties
<1>2. k \in Int /\ 1 \in Int /\ Len(s) \in Nat
  OBVIOUS
<1>3. \A i \in 1..k : s[i] \in Nat /\ Append(s, x)[i] \in Nat
  BY <1>1, <1>2
<1>4. /\ SubSeq(s, 1, k) \in Seq(Nat) /\ Len(SubSeq(s, 1, k)) = k
      /\ \A i \in 1..k : SubSeq(s, 1, k)[i] = s[i]
  <2>1. /\ SubSeq(s, 1, k) \in Seq(Nat)
        /\ Len(SubSeq(s, 1, k)) = IF 1 <= k THEN k - 1 + 1 ELSE 0
        /\ \A i \in 1..(k - 1 + 1) : SubSeq(s, 1, k)[i] = s[1 + i - 1]
    BY <1>2, <1>3, SubSeqProperties
  <2> QED
    BY <1>2, <2>1
<1>5. /\ SubSeq(Append(s, x), 1, k) \in Seq(Nat) /\ Len(SubSeq(Append(s, x), 1, k)) = k
      /\ \A i \in 1..k : SubSeq(Append(s, x), 1, k)[i] = Append(s, x)[i]
  <2>1. /\ SubSeq(Append(s, x), 1, k) \in Seq(Nat)
        /\ Len(SubSeq(Append(s, x), 1, k)) = IF 1 <= k THEN k - 1 + 1 ELSE 0
        /\ \A i \in 1..(k - 1 + 1) : SubSeq(Append(s, x), 1, k)[i] = Append(s, x)[1 + i - 1]
    BY <1>2, <1>3, SubSeqProperties
  <2> QED
    BY <1>2, <2>1
<1> QED
  BY <1>1, <1>2, <1>4, <1>5, SeqEqual

(* The steps of the process, by what they do to the model and the files.   *)
LEMMA RoundKeepsProgress ==
  ASSUME ProgressInv, NEW outcome \in Outcomes, NEW pay \in RoundPay, TrainRound(outcome, pay)
  PROVE  ProgressInv'
<1>1. /\ process = "idle" /\ started \in Nat /\ starts \in Seq(Nat) /\ model \in Seq(Nat)
      /\ total_rounds = Len(model) /\ total_rounds < MaxRounds /\ Len(model) \in Nat
      /\ MaxRounds \in Nat /\ CheckpointInterval \in Nat \ {0}
  BY NetworkAssumption DEF ProgressInv, ProgressTypeOK, TrainRound, started
<1>2. /\ model' = Append(model, started) /\ total_rounds' = total_rounds + 1
      /\ process' = IF total_rounds' % CheckpointInterval = 0 THEN "save" ELSE "idle"
      /\ starts' = starts /\ files' = files
  BY DEF TrainRound
<1>3. model' \in Seq(Nat) /\ Len(model') = Len(model) + 1
  BY <1>1, <1>2, AppendProperties
<1>4. ProgressTypeOK'
  BY <1>1, <1>2, <1>3 DEF ProgressInv, ProgressTypeOK
<1>5. FilesKept'
  BY <1>2 DEF ProgressInv, FilesKept
<1>6. PICK k \in 0..Len(model) : Multiple(k) /\ Safe(k) /\ Len(model) < k + CheckpointInterval
  BY <1>1 DEF ProgressInv, SafeEnough
<1>7. k \in 0..Len(model') /\ Safe(k)'
  <2>1. SubSeq(model', 1, k) = SubSeq(model, 1, k)
    BY <1>1, <1>2, PrefixAfterAppend
  <2>2. k \in 0..Len(model')
    BY <1>1, <1>3
  <2> QED
    BY <1>2, <1>6, <2>1, <2>2 DEF Safe
<1>8. /\ (Len(model) + 1) % CheckpointInterval = 0 => Len(model') = k + CheckpointInterval
      /\ (Len(model) + 1) % CheckpointInterval # 0 => Len(model') < k + CheckpointInterval
  <2> DEFINE n == Len(model)
  <2>1. /\ n \in Nat /\ k \in Nat /\ k <= n /\ n < k + CheckpointInterval
        /\ Multiple(k) /\ Len(model') = n + 1
    BY <1>1, <1>3, <1>6
  <2> HIDE DEF n
  <2>2. /\ (n + 1) % CheckpointInterval = 0 => n + 1 = k + CheckpointInterval
        /\ (n + 1) % CheckpointInterval # 0 => n + 1 < k + CheckpointInterval
    BY <2>1, NextMultiple
  <2> QED
    BY <2>1, <2>2 DEF n
<1>9. process' = IF (Len(model) + 1) % CheckpointInterval = 0 THEN "save" ELSE "idle"
  BY <1>1, <1>2
<1>10. Multiple(k)'
  BY <1>6 DEF Multiple
<1>11. SafeEnough'
  <2>1. CASE (Len(model) + 1) % CheckpointInterval = 0
    BY <1>7, <1>8, <1>9, <1>10, <2>1 DEF SafeEnough
  <2>2. CASE (Len(model) + 1) % CheckpointInterval # 0
    BY <1>7, <1>8, <1>9, <1>10, <2>2 DEF SafeEnough
  <2> QED
    BY <2>1, <2>2
<1> QED
  BY <1>4, <1>5, <1>11 DEF ProgressInv

LEMMA LoadKeepsProgress ==
  ASSUME ProgressInv, NEW n \in DOMAIN files, LoadCheckpoint(n)
  PROVE  ProgressInv'
<1>1. /\ process = "idle" /\ process' = process /\ files' = files /\ starts' = starts
      /\ model' = files[n].model /\ total_rounds' = files[n].total /\ files[n].whole
  BY DEF LoadCheckpoint
<1>2. /\ n \in Nat /\ n + 1 <= MaxRounds /\ files[n].model \in Seq(Nat)
      /\ Len(files[n].model) = n + 1 /\ files[n].total = n + 1 /\ Multiple(n + 1)
  BY <1>1, NetworkAssumption DEF ProgressInv, ProgressTypeOK, FilesKept, CheckpointFile
<1>3. ProgressTypeOK' /\ FilesKept'
  BY <1>1, <1>2 DEF ProgressInv, ProgressTypeOK, FilesKept
<1>4. Safe(n + 1)'
  <2>1. SubSeq(model', 1, n + 1) = files[n].model
    BY <1>1, <1>2, SubSeqFull
  <2> QED
    BY <1>1, <2>1 DEF Safe
<1>5. /\ n + 1 \in 0..Len(model') /\ Multiple(n + 1)'
      /\ Len(model') < (n + 1) + CheckpointInterval /\ process' = "idle"
  BY <1>1, <1>2, NetworkAssumption DEF Multiple
<1>6. SafeEnough'
  BY <1>4, <1>5 DEF SafeEnough
<1> QED
  BY <1>3, <1>6 DEF ProgressInv

LEMMA SaveBeginKeepsProgress ==
  ASSUME ProgressInv, SaveBegin
  PROVE  ProgressInv'
<1> DEFINE last == total_rounds - 1
<1>1. /\ process = "save" /\ process' = "write" /\ files' = [files EXCEPT ![last] = Torn]
      /\ starts' = starts /\ model' = model /\ total_rounds' = total_rounds
  BY DEF SaveBegin
<1>2. PICK k \in 0..Len(model) : Multiple(k) /\ Safe(k) /\ Len(model) = k + CheckpointInterval
  BY <1>1 DEF ProgressInv, SafeEnough
<1>3. /\ Len(model) \in Nat /\ Len(model) = total_rounds /\ CheckpointInterval \in Nat \ {0}
      /\ model \in Seq(Nat)
  BY NetworkAssumption DEF ProgressInv, ProgressTypeOK
<1>4. Torn \in CheckpointFile /\ ~Torn.whole
  <2>1. NoFile \in CheckpointFile /\ NoFile.whole = FALSE
    BY DEF NoFile, CheckpointFile
  <2>2. Torn.whole = NoFile.whole
    BY <2>1 DEF Torn, CheckpointFile
  <2> QED
    BY <2>1, <2>2 DEF Torn, CheckpointFile
<1> HIDE DEF last
<1>5. \A n \in DOMAIN files : /\ n # last => files'[n] = files[n]
                              /\ files'[n].whole => n # last
  BY <1>1, <1>4 DEF ProgressInv, ProgressTypeOK
<1>6. DOMAIN files' = DOMAIN files
  BY <1>1
<1>7. ProgressTypeOK'
  BY <1>1, <1>4 DEF ProgressInv, ProgressTypeOK
<1>8. FilesKept'
  BY <1>5, <1>6 DEF ProgressInv, FilesKept, Multiple
<1>9. Safe(k)'
  <2>1. CASE k = 0
    BY <2>1 DEF Safe
  <2>2. CASE k # 0
    <3>1. PICK n \in DOMAIN files : files[n].whole /\ files[n].model = SubSeq(model, 1, k)
      BY <1>2, <2>2 DEF Safe
    <3>2. Len(SubSeq(model, 1, k)) = k
      BY <1>2, <1>3, <2>2
    <3>3. n + 1 = k /\ n \in Nat
      BY <3>1, <3>2, NetworkAssumption DEF ProgressInv, ProgressTypeOK, FilesKept
    <3>4. n # last
      BY <1>2, <1>3, <3>3 DEF last
    <3>5. files'[n] = files[n]
      BY <1>5, <3>4
    <3> QED
      BY <1>1, <1>6, <3>1, <3>5 DEF Safe
  <2> QED
    BY <2>1, <2>2
<1>10. SafeEnough'
  BY <1>1, <1>2, <1>9 DEF SafeEnough, Multiple
<1> QED
  BY <1>7, <1>8, <1>10 DEF ProgressInv

LEMMA SaveEndKeepsProgress ==
  ASSUME ProgressInv, SaveEnd
  PROVE  ProgressInv'
<1> DEFINE last == total_rounds - 1
           file == [exists |-> TRUE, whole |-> TRUE, model |-> model, total |-> total_rounds]
<1>1. /\ process = "write" /\ process' = "idle" /\ files' = [files EXCEPT ![last] = file]
      /\ starts' = starts /\ model' = model /\ total_rounds' = total_rounds
  BY DEF SaveEnd
<1>2. PICK k \in 0..Len(model) : Multiple(k) /\ Safe(k) /\ Len(model) = k + CheckpointInterval
  BY <1>1 DEF ProgressInv, SafeEnough
<1>3. /\ Len(model) \in Nat /\ Len(model) = total_rounds /\ total_rounds <= MaxRounds
      /\ CheckpointInterval \in Nat \ {0} /\ MaxRounds \in Nat
      /\ model \in Seq(Nat)
  BY NetworkAssumption DEF ProgressInv, ProgressTypeOK
<1>4. Multiple(Len(model))
  <2>1. k \in Nat /\ k <= k /\ k < k + CheckpointInterval
    BY <1>3
  <2> QED
    BY <1>2, <2>1, NextMultiple
<1>5. last + 1 = Len(model) /\ last \in 0..(MaxRounds - 1)
  BY <1>2, <1>3
<1>6. /\ file \in CheckpointFile /\ file.whole /\ file.model = model
      /\ file.total = Len(model)
  BY <1>3 DEF CheckpointFile
<1> HIDE DEF last, file
<1>7. /\ DOMAIN files' = DOMAIN files /\ last \in DOMAIN files
      /\ \A n \in DOMAIN files : files'[n] = IF n = last THEN file ELSE files[n]
  BY <1>1, <1>5 DEF ProgressInv, ProgressTypeOK
<1>8. ProgressTypeOK'
  BY <1>1, <1>6 DEF ProgressInv, ProgressTypeOK
<1>9. FilesKept'
  <2> SUFFICES ASSUME NEW n \in DOMAIN files, files'[n].whole
               PROVE  /\ Len(files'[n].model) = n + 1 /\ files'[n].total = n + 1
                      /\ Multiple(n + 1)
    BY <1>7 DEF FilesKept, Multiple
  <2>1. CASE n = last
    BY <1>4, <1>5, <1>6, <1>7, <2>1
  <2>2. CASE n # last
    BY <1>7, <2>2 DEF ProgressInv, FilesKept
  <2> QED
    BY <2>1, <2>2
<1>10. Safe(Len(model))'
  BY <1>1, <1>3, <1>6, <1>7, SubSeqFull DEF Safe
<1>11. SafeEnough'
  <2>1. Multiple(Len(model))'
    BY <1>1, <1>4 DEF Multiple
  <2>2. Len(model) \in 0..Len(model') /\ Len(model') < Len(model) + CheckpointInterval
    BY <1>1, <1>3
  <2> QED
    BY <1>1, <1>10, <2>1, <2>2 DEF SafeEnough
<1> QED
  BY <1>8, <1>9, <1>11 DEF ProgressInv

LEMMA ProgressUnchanged ==
  ASSUME ProgressInv, UNCHANGED <<process, model, total_rounds, files>>, starts' = starts
  PROVE  ProgressInv'
BY DEF ProgressInv, ProgressTypeOK, FilesKept, Multiple, SafeEnough, Safe

LEMMA EmptyKeepsProgress ==
  ASSUME ProgressInv, process' \in {"down", "idle"}, model' = << >>, total_rounds' = 0,
         files' = files, starts' \in Seq(Nat)
  PROVE  ProgressInv'
<1>1. ProgressTypeOK' /\ FilesKept'
  BY NetworkAssumption DEF ProgressInv, ProgressTypeOK, FilesKept, Multiple
<1>2. 0 \in 0..Len(model') /\ Multiple(0)' /\ Safe(0)' /\ Len(model') < 0 + CheckpointInterval
  BY NetworkAssumption DEF Multiple, Safe
<1>3. SafeEnough'
  BY <1>2 DEF SafeEnough
<1> QED
  BY <1>1, <1>3 DEF ProgressInv

LEMMA ProgressNext ==
  ASSUME RestartInv', ProgressInv, [NetworkNext]_<<network, vars>>
  PROVE  ProgressInv'
<1>1. CASE Start
  <2>1. /\ process = "down" /\ process' = "idle"
        /\ model' = model /\ total_rounds' = total_rounds /\ files' = files
    BY <1>1 DEF Start, Up
  <2>2. model = << >> /\ total_rounds = 0 /\ starts' \in Seq(Nat)
    BY <2>1 DEF ProgressInv, ProgressTypeOK, RestartInv, RestartTypeOK
  <2> QED
    BY <2>1, <2>2, EmptyKeepsProgress
<1>2. CASE Crash
  <2>1. starts \in Seq(Nat)
    BY DEF ProgressInv, ProgressTypeOK
  <2> QED
    BY <1>2, <2>1, EmptyKeepsProgress DEF Crash, NoProcess
<1>3. CASE \E n \in Texts : LoadText(n)
  BY <1>3, ProgressUnchanged DEF LoadText
<1>4. CASE \E p \in Remote : RegisterPeer(p) \/ RemovePeer(p)
  BY <1>4, ProgressUnchanged DEF RegisterPeer, RemovePeer
<1>5. CASE \E n \in DOMAIN files : LoadCheckpoint(n)
  BY <1>5, LoadKeepsProgress
<1>6. CASE \E outcome \in Outcomes, pay \in RoundPay : TrainRound(outcome, pay)
  BY <1>6, RoundKeepsProgress
<1>7. CASE SaveBegin
  BY <1>7, SaveBeginKeepsProgress
<1>8. CASE SaveEnd
  BY <1>8, SaveEndKeepsProgress
<1>9. CASE \E generation \in 1..MaxMutations : ReportMutation(generation)
  BY <1>9, ProgressUnchanged DEF ReportMutation
<1>10. CASE UseCredits \/ UNCHANGED network
  BY <1>10, ProgressUnchanged DEF UseCredits, network
<1> QED
  BY <1>1, <1>2, <1>3, <1>4, <1>5, <1>6, <1>7, <1>8, <1>9, <1>10 DEF NetworkNext

(* The model, the count of rounds and the checkpoint files agree at every  *)
(* step of a round and of _save_checkpoint, killed at any of them.         *)
THEOREM ProgressSafety == NetworkSpec => []ProgressInv
<1>1. NetworkInit => ProgressInv
  <2> SUFFICES ASSUME NetworkInit  PROVE ProgressInv
    OBVIOUS
  <2>1. /\ process = "down" /\ starts = << >> /\ model = << >> /\ total_rounds = 0
        /\ files = [n \in 0..(MaxRounds - 1) |-> NoFile]
    BY DEF NetworkInit
  <2>2. NoFile \in CheckpointFile /\ ~NoFile.whole /\ << >> \in Seq(Nat) /\ Len(<< >>) = 0
    BY DEF NoFile, CheckpointFile
  <2>3. ProgressTypeOK
    BY <2>1, <2>2, NetworkAssumption DEF ProgressTypeOK
  <2>4. FilesKept /\ SafeEnough
    BY <2>1, <2>2 DEF FilesKept, SafeEnough
  <2> QED
    BY <2>3, <2>4 DEF ProgressInv
<1>2. RestartInv' /\ ProgressInv /\ [NetworkNext]_<<network, vars>> => ProgressInv'
  BY ProgressNext
<1> QED
  BY <1>1, <1>2, RestartSafety, PTL DEF NetworkSpec

(* A crash of the process costs at most the rounds of one checkpoint       *)
(* interval, whatever it resumed from and however often it crashed.        *)
THEOREM CrashesCostAnInterval == NetworkSpec => []ProgressSurvivesCrash
<1>1. ProgressInv => ProgressSurvivesCrash
  <2> SUFFICES ASSUME ProgressInv, Up  PROVE ProgressSurvivesCrash
    BY DEF ProgressSurvivesCrash
  <2>1. PICK k \in 0..Len(model) :
           /\ Safe(k)
           /\ Len(model) < k + CheckpointInterval \/ Len(model) = k + CheckpointInterval
    BY DEF ProgressInv, SafeEnough, Up
  <2>2. Len(model) \in Nat /\ CheckpointInterval \in Nat
    BY NetworkAssumption DEF ProgressInv, ProgressTypeOK
  <2>3. Len(model) - k <= CheckpointInterval
    BY <2>1, <2>2
  <2> QED
    BY <2>1, <2>3 DEF ProgressSurvivesCrash, Safe
<1> QED
  BY <1>1, ProgressSafety, PTL

-----------------------------------------------------------------------------
(* The milestones of a tracker, and what a report adds to them.            *)
Kinds == {"loss", "rounds", "tokens", "peers", "mutation", "generation"} \cup ToSet(Qualities)

Milestone == [kind : Kinds, level : Int]

Tracker ==
  [rounds : Nat, tokens : Nat, peak : Int, generation : Int, mutations : Nat,
   best : Int \cup {NoLoss}, seen : SUBSET ToSet(Qualities),
   achieved : SUBSET Milestone, milestones : Seq(Milestone)]

Listed(g) == IsInjective(g.milestones) /\ g.achieved = ToSet(g.milestones)

(* h is g with the milestones of R, those that are new at the end. *)
Adds(g, h, R) ==
  /\ h.achieved = g.achieved \cup R
  /\ \E new \in Seq(Milestone) : h.milestones = g.milestones \o new /\ ToSet(new) \subseteq R
  /\ h = [g EXCEPT !.achieved = h.achieved, !.milestones = h.milestones]

LEMMA Together ==
  ASSUME NEW T, NEW s \in Seq(T), NEW t \in Seq(T)
  PROVE  /\ s \o t \in Seq(T) /\ ToSet(s \o t) = ToSet(s) \cup ToSet(t)
         /\ \A i \in DOMAIN s : i \in DOMAIN (s \o t) /\ (s \o t)[i] = s[i]
<1>1. /\ Len(s) \in Nat /\ Len(t) \in Nat /\ DOMAIN s = 1..Len(s) /\ DOMAIN t = 1..Len(t)
      /\ s \o t \in Seq(T) /\ DOMAIN (s \o t) = 1..(Len(s) + Len(t))
      /\ \A i \in 1..(Len(s) + Len(t)) : (s \o t)[i] = IF i <= Len(s) THEN s[i] ELSE t[i - Len(s)]
  OBVIOUS
<1>2. \A i \in DOMAIN s : i \in DOMAIN (s \o t) /\ (s \o t)[i] = s[i]
  BY <1>1
<1>3. \A j \in DOMAIN t : Len(s) + j \in DOMAIN (s \o t) /\ (s \o t)[Len(s) + j] = t[j]
  BY <1>1
<1>5. ASSUME NEW i \in DOMAIN (s \o t)  PROVE (s \o t)[i] \in ToSet(s) \cup ToSet(t)
  <2>1. CASE i <= Len(s)
    <3>1. i \in DOMAIN s /\ (s \o t)[i] = s[i]
      BY <1>1, <2>1
    <3> QED
      BY <3>1 DEF ToSet
  <2>2. CASE ~(i <= Len(s))
    <3>1. i - Len(s) \in DOMAIN t /\ (s \o t)[i] = t[i - Len(s)]
      BY <1>1, <2>2
    <3> QED
      BY <3>1 DEF ToSet
  <2> QED
    BY <2>1, <2>2
<1>6. ToSet(s \o t) \subseteq ToSet(s) \cup ToSet(t)
  BY <1>5 DEF ToSet
<1>7. ToSet(s) \cup ToSet(t) \subseteq ToSet(s \o t)
  BY <1>2, <1>3 DEF ToSet
<1> QED
  BY <1>1, <1>2, <1>6, <1>7

LEMMA ListedIn ==
  ASSUME NEW T, NEW s \in Seq(T)
  PROVE  \A x \in ToSet(s) : x \in T
<1>1. \A i \in DOMAIN s : s[i] \in T
  OBVIOUS
<1> QED
  BY <1>1 DEF ToSet

LEMMA BothInjective ==
  ASSUME NEW T, NEW s \in Seq(T), NEW t \in Seq(T), IsInjective(s), IsInjective(t),
         ToSet(s) \cap ToSet(t) = {}
  PROVE  IsInjective(s \o t)
<1>1. /\ Len(s) \in Nat /\ Len(t) \in Nat /\ DOMAIN s = 1..Len(s) /\ DOMAIN t = 1..Len(t)
      /\ DOMAIN (s \o t) = 1..(Len(s) + Len(t))
      /\ \A i \in 1..(Len(s) + Len(t)) : (s \o t)[i] = IF i <= Len(s) THEN s[i] ELSE t[i - Len(s)]
  OBVIOUS
<1>2. SUFFICES ASSUME NEW i \in 1..(Len(s) + Len(t)), NEW j \in 1..(Len(s) + Len(t)),
                      (s \o t)[i] = (s \o t)[j]
               PROVE  i = j
  BY <1>1 DEF IsInjective
<1>3. \A k \in DOMAIN s, l \in DOMAIN t : s[k] # t[l]
  BY DEF ToSet
<1>4. CASE i <= Len(s) /\ j <= Len(s)
  <2>1. i \in DOMAIN s /\ j \in DOMAIN s /\ s[i] = s[j]
    BY <1>1, <1>2, <1>4
  <2> QED
    BY <2>1 DEF IsInjective
<1>5. CASE ~(i <= Len(s)) /\ ~(j <= Len(s))
  <2>1. i - Len(s) \in DOMAIN t /\ j - Len(s) \in DOMAIN t /\ t[i - Len(s)] = t[j - Len(s)]
    BY <1>1, <1>2, <1>5
  <2>2. i - Len(s) = j - Len(s)
    BY <2>1 DEF IsInjective
  <2> QED
    BY <1>1, <2>2
<1>6. CASE i <= Len(s) /\ ~(j <= Len(s))
  <2>1. i \in DOMAIN s /\ j - Len(s) \in DOMAIN t /\ s[i] = t[j - Len(s)]
    BY <1>1, <1>2, <1>6
  <2> QED
    BY <1>3, <2>1
<1>7. CASE ~(i <= Len(s)) /\ j <= Len(s)
  <2>1. j \in DOMAIN s /\ i - Len(s) \in DOMAIN t /\ s[j] = t[i - Len(s)]
    BY <1>1, <1>2, <1>7
  <2> QED
    BY <1>3, <2>1
<1> QED
  BY <1>4, <1>5, <1>6, <1>7

LEMMA MilestonesAdded ==
  ASSUME NEW g \in Tracker, Listed(g), NEW candidates \in Seq(Milestone),
         IsInjective(candidates), NEW R \in SUBSET ToSet(candidates)
  PROVE  /\ AddMilestones(g, candidates, R) \in Tracker
         /\ Listed(AddMilestones(g, candidates, R))
         /\ Adds(g, AddMilestones(g, candidates, R), R)
<1> DEFINE new == Selected(candidates, R \ g.achieved)
           h == AddMilestones(g, candidates, R)
<1>1. /\ new \in Seq(Milestone) /\ IsInjective(new)
      /\ ToSet(new) = ToSet(candidates) \cap (R \ g.achieved)
  BY SelectedList
<1>2. ToSet(new) = R \ g.achieved
  BY <1>1
<1>3. ToSet(new) \subseteq Milestone
  BY <1>1, ListedIn
<1>4. h = [g EXCEPT !.achieved = @ \cup ToSet(new), !.milestones = @ \o new]
  BY DEF AddMilestones
<1> HIDE DEF new, h
<1>5. g.milestones \in Seq(Milestone) /\ g.achieved \in SUBSET Milestone
  BY DEF Tracker
<1>6. /\ g.milestones \o new \in Seq(Milestone)
      /\ ToSet(g.milestones \o new) = ToSet(g.milestones) \cup ToSet(new)
  BY <1>1, <1>5, Together
<1>7. IsInjective(g.milestones \o new)
  BY <1>1, <1>2, <1>5, BothInjective DEF Listed
<1>8. h.achieved = g.achieved \cup ToSet(new) /\ h.milestones = g.milestones \o new
  BY <1>4 DEF Tracker
<1>9. h \in Tracker
  BY <1>3, <1>4, <1>5, <1>6 DEF Tracker
<1>10. Listed(h)
  BY <1>6, <1>7, <1>8 DEF Listed
<1>11. Adds(g, h, R)
  <2>1. h.achieved = g.achieved \cup R
    BY <1>2, <1>8
  <2>2. ToSet(new) \subseteq R
    BY <1>2
  <2>3. h = [g EXCEPT !.achieved = h.achieved, !.milestones = h.milestones]
    BY <1>4, <1>8 DEF Tracker
  <2> QED
    BY <1>1, <1>8, <2>1, <2>2, <2>3 DEF Adds
<1> QED
  BY <1>9, <1>10, <1>11 DEF h

(* Lists joined one after the other, in either grouping.                   *)
LEMMA Regrouped ==
  \A s, t, u \in Seq(Milestone) : (s \o t) \o u = s \o (t \o u)
<1> TAKE s, t, u \in Seq(Milestone)
<1> QED
  OBVIOUS

LEMMA AddsTwice ==
  ASSUME NEW f \in Tracker, NEW g \in Tracker, NEW h \in Tracker, NEW R, NEW S,
         Adds(f, g, R), Adds(g, h, S)
  PROVE  Adds(f, h, R \cup S)
<1>1. PICK new \in Seq(Milestone) : g.milestones = f.milestones \o new /\ ToSet(new) \subseteq R
  BY DEF Adds
<1>2. PICK more \in Seq(Milestone) : h.milestones = g.milestones \o more /\ ToSet(more) \subseteq S
  BY DEF Adds
<1>3. f.milestones \in Seq(Milestone)
  BY DEF Tracker
<1>4. h.milestones = f.milestones \o (new \o more)
  <2>1. new \in Seq(Milestone) /\ more \in Seq(Milestone)
    OBVIOUS
  <2>2. h.milestones = (f.milestones \o new) \o more
    BY <1>1, <1>2
  <2> QED
    BY <1>3, <2>1, <2>2, Regrouped, Zenon
<1>5. new \o more \in Seq(Milestone) /\ ToSet(new \o more) \subseteq R \cup S
  BY <1>1, <1>2, Together
<1>6. h.achieved = f.achieved \cup (R \cup S)
  BY DEF Adds
<1>7. h = [f EXCEPT !.achieved = h.achieved, !.milestones = h.milestones]
  BY DEF Adds, Tracker
<1> QED
  BY <1>4, <1>5, <1>6, <1>7 DEF Adds

-----------------------------------------------------------------------------
(* The lists of milestones have no milestone twice, and none in common.    *)
LEMMA LevelsList ==
  ASSUME NEW kind \in Kinds, NEW levels \in Seq(Int), IsInjective(levels)
  PROVE  /\ Levels(kind, levels) \in Seq(Milestone) /\ IsInjective(Levels(kind, levels))
         /\ \A m \in ToSet(Levels(kind, levels)) : m.kind = kind
<1>1. Len(levels) \in Nat /\ DOMAIN levels = 1..Len(levels) /\ \A i \in DOMAIN levels : levels[i] \in Int
  OBVIOUS
<1>2. /\ DOMAIN Levels(kind, levels) = 1..Len(levels)
      /\ \A i \in 1..Len(levels) : Levels(kind, levels)[i] = [kind |-> kind, level |-> levels[i]]
  BY <1>1 DEF Levels
<1>3. Levels(kind, levels) = [i \in 1..Len(levels) |-> [kind |-> kind, level |-> levels[i]]]
  BY <1>1 DEF Levels
<1>4. \A i \in 1..Len(levels) : [kind |-> kind, level |-> levels[i]] \in Milestone
  BY <1>1 DEF Milestone
<1>5. Levels(kind, levels) \in Seq(Milestone)
  BY <1>1, <1>3, <1>4
<1>6. IsInjective(Levels(kind, levels))
  <2> SUFFICES ASSUME NEW i \in 1..Len(levels), NEW j \in 1..Len(levels),
                      Levels(kind, levels)[i] = Levels(kind, levels)[j]
               PROVE  i = j
    BY <1>2 DEF IsInjective
  <2>1. levels[i] = levels[j]
    BY <1>2
  <2> QED
    BY <1>1, <2>1 DEF IsInjective
<1>7. \A m \in ToSet(Levels(kind, levels)) : m.kind = kind
  BY <1>2 DEF ToSet
<1> QED
  BY <1>5, <1>6, <1>7

LEMMA AscendingInjective ==
  ASSUME NEW levels \in Seq(Int), Ascends(levels)
  PROVE  IsInjective(levels)
<1>1. SUFFICES ASSUME NEW i \in DOMAIN levels, NEW j \in DOMAIN levels, levels[i] = levels[j]
               PROVE  i = j
  BY DEF IsInjective
<1>2. i \in Int /\ j \in Int /\ levels[i] \in Int /\ levels[j] \in Int
  OBVIOUS
<1>3. (i < j => levels[i] < levels[j]) /\ (j < i => levels[j] < levels[i])
  BY DEF Ascends
<1> QED
  BY <1>1, <1>2, <1>3

LEMMA ReverseInjective ==
  ASSUME NEW s \in Seq(Int), IsInjective(s)
  PROVE  Reverse(s) \in Seq(Int) /\ IsInjective(Reverse(s))
<1>1. Len(s) \in Nat /\ DOMAIN s = 1..Len(s) /\ \A i \in DOMAIN s : s[i] \in Int
  OBVIOUS
<1>2. Reverse(s) = [i \in 1..Len(s) |-> s[(Len(s) - i) + 1]]
  BY DEF Reverse
<1>3. \A i \in 1..Len(s) : (Len(s) - i) + 1 \in 1..Len(s)
  BY <1>1
<1>4. \A i \in 1..Len(s) : s[(Len(s) - i) + 1] \in Int
  BY <1>1, <1>3
<1>5. Reverse(s) \in Seq(Int)
  BY <1>1, <1>2, <1>4
<1>6. IsInjective(Reverse(s))
  <2> SUFFICES ASSUME NEW i \in 1..Len(s), NEW j \in 1..Len(s),
                      s[(Len(s) - i) + 1] = s[(Len(s) - j) + 1]
               PROVE  i = j
    BY <1>2 DEF IsInjective
  <2>1. (Len(s) - i) + 1 = (Len(s) - j) + 1
    BY <1>1, <1>3 DEF IsInjective
  <2> QED
    BY <1>1, <2>1
<1> QED
  BY <1>5, <1>6

LEMMA LevelsAscend ==
  /\ LossLevels \in Seq(Int) /\ Ascends(LossLevels)
  /\ RoundLevels \in Seq(Int) /\ Ascends(RoundLevels)
  /\ TokenLevels \in Seq(Int) /\ Ascends(TokenLevels)
  /\ PeerLevels \in Seq(Int) /\ Ascends(PeerLevels)
  /\ GenerationLevels \in Seq(Int) /\ Ascends(GenerationLevels)
<1>1. \A levels \in Seq(Nat \ {0}) : levels \in Seq(Int)
  OBVIOUS
<1> QED
  BY <1>1, GenesisAssumption

LEMMA MilestoneLists ==
  /\ LossMilestones \in Seq(Milestone) /\ IsInjective(LossMilestones)
  /\ ScaleMilestones \in Seq(Milestone) /\ IsInjective(ScaleMilestones)
  /\ PeerMilestones \in Seq(Milestone) /\ IsInjective(PeerMilestones)
  /\ QualityMilestones \in Seq(Milestone) /\ IsInjective(QualityMilestones)
  /\ MutationMilestones \in Seq(Milestone) /\ IsInjective(MutationMilestones)
  /\ \A m \in ToSet(LossMilestones) : m.kind = "loss"
  /\ \A m \in ToSet(ScaleMilestones) : m.kind \in {"rounds", "tokens"}
  /\ \A m \in ToSet(PeerMilestones) : m.kind = "peers"
  /\ \A m \in ToSet(QualityMilestones) :
       m.kind \notin {"loss", "rounds", "tokens", "peers", "mutation", "generation"}
  /\ \A m \in ToSet(MutationMilestones) : m.kind \in {"mutation", "generation"}
<1> USE DEF Kinds
<1>1. /\ LossLevels \in Seq(Int) /\ IsInjective(LossLevels)
      /\ RoundLevels \in Seq(Int) /\ IsInjective(RoundLevels)
      /\ TokenLevels \in Seq(Int) /\ IsInjective(TokenLevels)
      /\ PeerLevels \in Seq(Int) /\ IsInjective(PeerLevels)
      /\ GenerationLevels \in Seq(Int) /\ IsInjective(GenerationLevels)
  BY LevelsAscend, AscendingInjective
<1>2. /\ LossMilestones \in Seq(Milestone) /\ IsInjective(LossMilestones)
      /\ \A m \in ToSet(LossMilestones) : m.kind = "loss"
  BY <1>1, ReverseInjective, LevelsList DEF LossMilestones
<1>3. /\ ScaleMilestones \in Seq(Milestone) /\ IsInjective(ScaleMilestones)
      /\ \A m \in ToSet(ScaleMilestones) : m.kind \in {"rounds", "tokens"}
  <2> DEFINE rs == Levels("rounds", RoundLevels)  ts == Levels("tokens", TokenLevels)
  <2>1. /\ rs \in Seq(Milestone) /\ IsInjective(rs) /\ \A m \in ToSet(rs) : m.kind = "rounds"
        /\ ts \in Seq(Milestone) /\ IsInjective(ts) /\ \A m \in ToSet(ts) : m.kind = "tokens"
    BY <1>1, LevelsList
  <2> HIDE DEF rs, ts
  <2>2. ToSet(rs) \cap ToSet(ts) = {}
    BY <2>1
  <2>3. rs \o ts \in Seq(Milestone) /\ ToSet(rs \o ts) = ToSet(rs) \cup ToSet(ts)
    BY <2>1, Together
  <2>4. IsInjective(rs \o ts)
    BY <2>1, <2>2, BothInjective
  <2> QED
    BY <2>1, <2>3, <2>4 DEF ScaleMilestones, rs, ts
<1>4. /\ PeerMilestones \in Seq(Milestone) /\ IsInjective(PeerMilestones)
      /\ \A m \in ToSet(PeerMilestones) : m.kind = "peers"
  BY <1>1, LevelsList DEF PeerMilestones
<1>5. /\ QualityMilestones \in Seq(Milestone) /\ IsInjective(QualityMilestones)
      /\ \A m \in ToSet(QualityMilestones) :
           m.kind \notin {"loss", "rounds", "tokens", "peers", "mutation", "generation"}
  <2>1. /\ Len(Qualities) \in Nat /\ DOMAIN Qualities = 1..Len(Qualities)
        /\ \A i \in DOMAIN Qualities : Qualities[i] \in Kinds
    BY GenesisAssumption DEF ToSet
  <2>2. QualityMilestones = [i \in 1..Len(Qualities) |-> [kind |-> Qualities[i], level |-> 0]]
    BY <2>1 DEF QualityMilestones
  <2>3. \A i \in 1..Len(Qualities) : [kind |-> Qualities[i], level |-> 0] \in Milestone
    BY <2>1 DEF Milestone
  <2>4. QualityMilestones \in Seq(Milestone)
    BY <2>1, <2>2, <2>3
  <2>5. /\ DOMAIN QualityMilestones = 1..Len(Qualities)
        /\ \A i \in 1..Len(Qualities) : QualityMilestones[i].kind = Qualities[i]
    BY <2>2
  <2>6. IsInjective(QualityMilestones)
    BY <2>1, <2>5, GenesisAssumption DEF IsInjective
  <2>7. \A m \in ToSet(QualityMilestones) :
          m.kind \notin {"loss", "rounds", "tokens", "peers", "mutation", "generation"}
    BY <2>1, <2>5, GenesisAssumption DEF ToSet
  <2> QED
    BY <2>4, <2>6, <2>7
<1>6. /\ MutationMilestones \in Seq(Milestone) /\ IsInjective(MutationMilestones)
      /\ \A m \in ToSet(MutationMilestones) : m.kind \in {"mutation", "generation"}
  <2> DEFINE first == [kind |-> "mutation", level |-> 1]
             one == <<first>>  gs == Levels("generation", GenerationLevels)
  <2>1. /\ gs \in Seq(Milestone) /\ IsInjective(gs) /\ \A m \in ToSet(gs) : m.kind = "generation"
    BY <1>1, LevelsList
  <2>2. first \in Milestone
    BY DEF Milestone
  <2>3. one \in Seq(Milestone) /\ IsInjective(one) /\ \A m \in ToSet(one) : m.kind = "mutation"
    BY <2>2 DEF IsInjective, ToSet
  <2> HIDE DEF one, gs
  <2>4. ToSet(one) \cap ToSet(gs) = {}
    BY <2>1, <2>3
  <2>5. one \o gs \in Seq(Milestone) /\ ToSet(one \o gs) = ToSet(one) \cup ToSet(gs)
    BY <2>1, <2>3, Together
  <2>6. IsInjective(one \o gs)
    BY <2>1, <2>3, <2>4, BothInjective
  <2> QED
    BY <2>1, <2>3, <2>5, <2>6 DEF MutationMilestones, one, gs
<1> QED
  BY <1>2, <1>3, <1>4, <1>5, <1>6

-----------------------------------------------------------------------------
(* What rounds earn, by the kinds of milestones.                           *)
LossEarned(best) == {m \in ToSet(LossMilestones) : best < m.level}
ScaleEarned(rounds, done) ==
  {m \in ToSet(ScaleMilestones) : (IF m.kind = "rounds" THEN rounds ELSE done) >= m.level}
PeersEarned(peak) == {m \in ToSet(PeerMilestones) : peak >= m.level}
QualityEarned(seen) == {m \in ToSet(QualityMilestones) : m.kind \in seen}

EarnedBy(best, rounds, done, peak, seen) ==
  LossEarned(best) \cup ScaleEarned(rounds, done) \cup PeersEarned(peak) \cup QualityEarned(seen)

LEMMA EarnedByKind ==
  ASSUME NEW g  PROVE Earned(g) = EarnedBy(g.best, g.rounds, g.tokens, g.peak, g.seen)
<1> DEFINE all == LossMilestones \o ScaleMilestones \o PeerMilestones \o QualityMilestones
           earned(m) == CASE m.kind = "loss"   -> g.best < m.level
                          [] m.kind = "rounds" -> g.rounds >= m.level
                          [] m.kind = "tokens" -> g.tokens >= m.level
                          [] m.kind = "peers"  -> g.peak >= m.level
                          [] OTHER             -> m.kind \in g.seen
<1>1. ToSet(all) = ToSet(LossMilestones) \cup ToSet(ScaleMilestones)
                   \cup ToSet(PeerMilestones) \cup ToSet(QualityMilestones)
  <2> DEFINE LS == LossMilestones \o ScaleMilestones  LSP == LS \o PeerMilestones
  <2>1. LS \in Seq(Milestone) /\ ToSet(LS) = ToSet(LossMilestones) \cup ToSet(ScaleMilestones)
    BY MilestoneLists, Together
  <2> HIDE DEF LS
  <2>2. LSP \in Seq(Milestone) /\ ToSet(LSP) = ToSet(LS) \cup ToSet(PeerMilestones)
    BY <2>1, MilestoneLists, Together
  <2> HIDE DEF LSP
  <2>3. ToSet(LSP \o QualityMilestones) = ToSet(LSP) \cup ToSet(QualityMilestones)
    BY <2>2, MilestoneLists, Together
  <2> QED
    BY <2>1, <2>2, <2>3 DEF LS, LSP
<1>2. Earned(g) = {m \in ToSet(all) : earned(m)}
  BY DEF Earned
<1>3. \A m \in ToSet(LossMilestones) : earned(m) <=> m \in LossEarned(g.best)
  BY MilestoneLists DEF LossEarned
<1>4. \A m \in ToSet(ScaleMilestones) : earned(m) <=> m \in ScaleEarned(g.rounds, g.tokens)
  BY MilestoneLists DEF ScaleEarned
<1>5. \A m \in ToSet(PeerMilestones) : earned(m) <=> m \in PeersEarned(g.peak)
  BY MilestoneLists DEF PeersEarned
<1>6. \A m \in ToSet(QualityMilestones) : earned(m) <=> m \in QualityEarned(g.seen)
  BY MilestoneLists DEF QualityEarned
<1>7. /\ LossEarned(g.best) \subseteq ToSet(LossMilestones)
      /\ ScaleEarned(g.rounds, g.tokens) \subseteq ToSet(ScaleMilestones)
      /\ PeersEarned(g.peak) \subseteq ToSet(PeerMilestones)
      /\ QualityEarned(g.seen) \subseteq ToSet(QualityMilestones)
  BY DEF LossEarned, ScaleEarned, PeersEarned, QualityEarned
<1> HIDE DEF all, earned
<1>8. Earned(g) \subseteq EarnedBy(g.best, g.rounds, g.tokens, g.peak, g.seen)
  BY <1>1, <1>2, <1>3, <1>4, <1>5, <1>6 DEF EarnedBy
<1>9. EarnedBy(g.best, g.rounds, g.tokens, g.peak, g.seen) \subseteq Earned(g)
  BY <1>1, <1>2, <1>3, <1>4, <1>5, <1>6, <1>7 DEF EarnedBy
<1> QED
  BY <1>8, <1>9

LEMMA NoneOfMutations ==
  ASSUME NEW b, NEW r, NEW t, NEW p, NEW s
  PROVE  EarnedBy(b, r, t, p, s) \cap ToSet(MutationMilestones) = {}
<1>1. \A m \in EarnedBy(b, r, t, p, s) : m.kind \notin {"mutation", "generation"}
  BY MilestoneLists DEF EarnedBy, LossEarned, ScaleEarned, PeersEarned, QualityEarned
<1> QED
  BY <1>1, MilestoneLists

(* A round adds what it reaches, and what was earned before stays earned.  *)
LEMMA LossGrows ==
  ASSUME NEW best \in Int \cup {NoLoss}, NEW loss \in Int, NEW least,
         loss < best => least = loss, ~(loss < best) => least = best
  PROVE  LossEarned(least) = LossEarned(best) \cup LossEarned(loss)
<1>1. ASSUME NEW m \in ToSet(LossMilestones)
      PROVE  least < m.level <=> best < m.level \/ loss < m.level
  <2>1. m \in Milestone /\ LossLevels # << >>
    BY MilestoneLists, LevelsAscend DEF ToSet, LossMilestones, Levels, Reverse
  <2>2. Last(LossLevels) \in Int
    BY <2>1, LevelsAscend DEF Last
  <2>3. m.level \in Int /\ best \in Int
    BY <2>1, <2>2 DEF NoLoss, Milestone
  <2> QED
    BY <2>3
<1> QED
  BY <1>1 DEF LossEarned

LEMMA ScaleGrows ==
  ASSUME NEW r \in Nat, NEW t \in Nat, NEW more \in Nat
  PROVE  ScaleEarned(r, t) \subseteq ScaleEarned(r + 1, t + more)
<1>1. ASSUME NEW m \in ToSet(ScaleMilestones), (IF m.kind = "rounds" THEN r ELSE t) >= m.level
      PROVE  (IF m.kind = "rounds" THEN r + 1 ELSE t + more) >= m.level
  <2>1. m \in Milestone
    BY MilestoneLists, ListedIn
  <2>2. m.level \in Int
    BY <2>1 DEF Milestone
  <2> QED
    BY <1>1, <2>2
<1> QED
  BY <1>1 DEF ScaleEarned

LEMMA PeersGrow ==
  ASSUME NEW p \in Int, NEW q \in Int
  PROVE  PeersEarned(IF q > p THEN q ELSE p) = PeersEarned(p) \cup PeersEarned(q)
<1>1. ASSUME NEW m \in ToSet(PeerMilestones)
      PROVE  (IF q > p THEN q ELSE p) >= m.level <=> p >= m.level \/ q >= m.level
  <2>1. m \in Milestone
    BY MilestoneLists, ListedIn
  <2>2. m.level \in Int
    BY <2>1 DEF Milestone
  <2> QED
    BY <2>2
<1> QED
  BY <1>1 DEF PeersEarned

LEMMA QualityGrows ==
  ASSUME NEW s, NEW u
  PROVE  QualityEarned(s \cup u) = QualityEarned(s) \cup QualityEarned(u)
BY DEF QualityEarned

-----------------------------------------------------------------------------
(* A tracker holds what its history has earned.                            *)
TrackerInv(g) ==
  /\ g \in Tracker /\ Listed(g)
  /\ g.achieved \ ToSet(MutationMilestones) = Earned(g)
  /\ g.mutations > 0 <=> MutationMilestones[1] \in g.achieved

LEMMA BirthHolds == TrackerInv(RecordBirth)
<1> DEFINE g == RecordBirth
<1>1. g \in Tracker /\ Listed(g)
  BY DEF RecordBirth, Tracker, Listed, IsInjective, ToSet
<1>2. LossEarned(NoLoss) = {}
  <2>1. ASSUME NEW m \in LossEarned(NoLoss)  PROVE FALSE
    <3>1. PICK i \in DOMAIN LossMilestones : LossMilestones[i] = m
      BY DEF LossEarned, ToSet
    <3>2. /\ LossLevels \in Seq(Int) /\ Len(LossLevels) \in Nat /\ Ascends(LossLevels)
          /\ DOMAIN LossLevels = 1..Len(LossLevels)
      BY LevelsAscend
    <3>3. i \in 1..Len(LossLevels) /\ m.level = LossLevels[Len(LossLevels) - i + 1]
      BY <3>1, <3>2 DEF LossMilestones, Levels, Reverse
    <3>4. /\ Len(LossLevels) - i + 1 \in DOMAIN LossLevels /\ Len(LossLevels) \in DOMAIN LossLevels
          /\ Len(LossLevels) - i + 1 <= Len(LossLevels)
      BY <3>2, <3>3
    <3>5. /\ LossLevels[Len(LossLevels)] \in Int /\ m.level \in Int
          /\ m.level <= LossLevels[Len(LossLevels)]
      BY <3>2, <3>3, <3>4 DEF Ascends
    <3>6. NoLoss < m.level
      BY DEF LossEarned
    <3> QED
      BY <3>5, <3>6 DEF NoLoss, Last
  <2> QED
    BY <2>1
<1>3. ScaleEarned(0, 0) = {} /\ PeersEarned(0) = {}
  <2>1. ASSUME NEW kind, NEW levels \in Seq(Nat \ {0}), NEW m \in ToSet(Levels(kind, levels))
        PROVE  m.level \in Nat \ {0}
    BY DEF ToSet, Levels
  <2>2. \A m \in ToSet(PeerMilestones) : m.level \in Nat \ {0}
    BY <2>1, GenesisAssumption DEF PeerMilestones
  <2>3. \A m \in ToSet(ScaleMilestones) : m.level \in Nat \ {0}
    <3>1. /\ Levels("rounds", RoundLevels) \in Seq(Milestone)
          /\ Levels("tokens", TokenLevels) \in Seq(Milestone)
      BY LevelsList, LevelsAscend, AscendingInjective DEF Kinds
    <3>2. ToSet(ScaleMilestones) = ToSet(Levels("rounds", RoundLevels))
                                     \cup ToSet(Levels("tokens", TokenLevels))
      BY <3>1, Together DEF ScaleMilestones
    <3> QED
      BY <2>1, <3>2, GenesisAssumption
  <2> QED
    BY <2>2, <2>3 DEF ScaleEarned, PeersEarned
<1>4. QualityEarned({}) = {}
  BY DEF QualityEarned
<1>5. Earned(g) = {}
  BY <1>2, <1>3, <1>4, EarnedByKind DEF EarnedBy, RecordBirth
<1>6. g.achieved = {} /\ g.mutations = 0
  BY DEF RecordBirth
<1> HIDE DEF g
<1>7. TrackerInv(g)
  BY <1>1, <1>5, <1>6 DEF TrackerInv
<1> QED
  BY <1>7 DEF g

(* record_round: the checks one after the other. *)
LEMMA RoundRecorded ==
  ASSUME NEW g, TrackerInv(g), NEW loss \in Int, NEW quality \in SUBSET ToSet(Qualities),
         NEW done \in Nat, NEW here \in Int
  PROVE  LET h == RecordRound(g, loss, quality, done, here) IN
           /\ TrackerInv(h)
           /\ \E new \in Seq(Milestone) :
                /\ h.milestones = g.milestones \o new
                /\ ToSet(new) \subseteq Earned(h) /\ Earned(h) \subseteq Earned(g) \cup ToSet(new)
<1> DEFINE counted == [g EXCEPT !.rounds = @ + 1, !.tokens = @ + done,
                                !.best = IF loss < @ THEN loss ELSE @,
                                !.peak = IF here > @ THEN here ELSE @,
                                !.seen = @ \cup quality]
           h1 == CheckLossMilestones(counted, loss)
           h2 == CheckScaleMilestones(h1)
           h3 == CheckPeerMilestones(h2, here)
           h == CheckQualityMilestones(h3, quality)
           R1 == LossEarned(loss)
           R2 == ScaleEarned(counted.rounds, counted.tokens)
           R3 == PeersEarned(here)
           R4 == QualityEarned(quality)
<1>1. /\ g \in Tracker /\ Listed(g)
      /\ g.achieved \ ToSet(MutationMilestones) = Earned(g)
      /\ g.mutations > 0 <=> MutationMilestones[1] \in g.achieved
  BY DEF TrackerInv
<1>2. /\ counted \in Tracker /\ Listed(counted)
      /\ counted.achieved = g.achieved /\ counted.milestones = g.milestones
      /\ counted.rounds = g.rounds + 1 /\ counted.tokens = g.tokens + done
      /\ counted.best = (IF loss < g.best THEN loss ELSE g.best)
      /\ counted.peak = (IF here > g.peak THEN here ELSE g.peak)
      /\ counted.seen = g.seen \cup quality /\ counted.mutations = g.mutations
  <2>1. /\ g.rounds \in Nat /\ g.tokens \in Nat /\ g.peak \in Int
        /\ g.best \in Int \cup {NoLoss} /\ g.seen \in SUBSET ToSet(Qualities)
    BY <1>1 DEF Tracker
  <2>2. counted \in Tracker
    <3> DEFINE best == IF loss < g.best THEN loss ELSE g.best
               peak == IF here > g.peak THEN here ELSE g.peak
    <3>1. /\ best \in Int \cup {NoLoss} /\ peak \in Int /\ g.rounds + 1 \in Nat
          /\ g.tokens + done \in Nat /\ g.seen \cup quality \in SUBSET ToSet(Qualities)
      BY <2>1
    <3>2. counted = [g EXCEPT !.rounds = g.rounds + 1, !.tokens = g.tokens + done,
                              !.best = best, !.peak = peak, !.seen = g.seen \cup quality]
      BY <1>1 DEF Tracker
    <3> HIDE DEF best, peak, counted
    <3> QED
      BY <1>1, <3>1, <3>2 DEF Tracker
  <2>3. /\ counted.achieved = g.achieved /\ counted.milestones = g.milestones
        /\ counted.rounds = g.rounds + 1 /\ counted.tokens = g.tokens + done
        /\ counted.seen = g.seen \cup quality /\ counted.mutations = g.mutations
    BY <1>1 DEF Tracker
  <2>4. /\ counted.best = (IF loss < g.best THEN loss ELSE g.best)
        /\ counted.peak = (IF here > g.peak THEN here ELSE g.peak)
    BY <1>1 DEF Tracker
  <2>5. Listed(counted)
    BY <1>1, <2>3 DEF Listed
  <2> QED
    BY <2>2, <2>3, <2>4, <2>5
<1>3. RecordRound(g, loss, quality, done, here) = h
  BY DEF RecordRound
<1> HIDE DEF counted
<1>4. h1 = AddMilestones(counted, LossMilestones, R1)
  BY DEF CheckLossMilestones, LossEarned
<1>5. h1 \in Tracker /\ Listed(h1) /\ Adds(counted, h1, R1)
  BY <1>2, <1>4, MilestonesAdded, MilestoneLists DEF LossEarned
<1> HIDE DEF h1
<1>6. h1.rounds = counted.rounds /\ h1.tokens = counted.tokens
  BY <1>2, <1>5 DEF Adds, Tracker
<1>7. h2 = AddMilestones(h1, ScaleMilestones, R2)
  BY <1>6 DEF CheckScaleMilestones, ScaleEarned
<1>8. h2 \in Tracker /\ Listed(h2) /\ Adds(h1, h2, R2)
  BY <1>5, <1>7, MilestonesAdded, MilestoneLists DEF ScaleEarned
<1> HIDE DEF h2
<1>9. h3 = AddMilestones(h2, PeerMilestones, R3)
  BY DEF CheckPeerMilestones, PeersEarned
<1>10. h3 \in Tracker /\ Listed(h3) /\ Adds(h2, h3, R3)
  BY <1>8, <1>9, MilestonesAdded, MilestoneLists DEF PeersEarned
<1> HIDE DEF h3
<1>11. h = AddMilestones(h3, QualityMilestones, R4)
  BY DEF CheckQualityMilestones, QualityEarned
<1>12. h \in Tracker /\ Listed(h) /\ Adds(h3, h, R4)
  BY <1>10, <1>11, MilestonesAdded, MilestoneLists DEF QualityEarned
<1> HIDE DEF h
<1> DEFINE R == ((R1 \cup R2) \cup R3) \cup R4
<1>13. Adds(counted, h, R)
  <2>1. Adds(counted, h2, R1 \cup R2)
    BY <1>2, <1>5, <1>8, AddsTwice
  <2>2. Adds(counted, h3, (R1 \cup R2) \cup R3)
    BY <1>2, <1>8, <1>10, <2>1, AddsTwice
  <2> QED
    BY <1>2, <1>10, <1>12, <2>2, AddsTwice
<1> HIDE DEF R1, R2, R3, R4
<1>14. PICK new \in Seq(Milestone) : h.milestones = g.milestones \o new /\ ToSet(new) \subseteq R
  BY <1>2, <1>13 DEF Adds
<1>15. /\ h.achieved = g.achieved \cup R /\ h.rounds = g.rounds + 1 /\ h.tokens = g.tokens + done
       /\ h.best = counted.best /\ h.peak = counted.peak /\ h.seen = counted.seen
       /\ h.mutations = g.mutations
  BY <1>2, <1>13 DEF Adds, Tracker
<1>16. Earned(h) = Earned(g) \cup R
  <2>1. /\ g.best \in Int \cup {NoLoss} /\ g.rounds \in Nat /\ g.tokens \in Nat /\ g.peak \in Int
    BY <1>1 DEF Tracker
  <2>2. LossEarned(h.best) = LossEarned(g.best) \cup R1
    BY <1>2, <1>15, <2>1, LossGrows DEF R1
  <2>3. ScaleEarned(g.rounds, g.tokens) \subseteq R2
    BY <1>2, <2>1, ScaleGrows DEF R2
  <2>4. R2 = ScaleEarned(h.rounds, h.tokens)
    BY <1>2, <1>15 DEF R2
  <2>5. PeersEarned(h.peak) = PeersEarned(g.peak) \cup R3
    BY <1>2, <1>15, <2>1, PeersGrow DEF R3
  <2>6. QualityEarned(h.seen) = QualityEarned(g.seen) \cup R4
    BY <1>2, <1>15, QualityGrows DEF R4
  <2>7. Earned(h) = EarnedBy(g.best, g.rounds, g.tokens, g.peak, g.seen)
                      \cup (R1 \cup R2 \cup R3 \cup R4)
    BY <2>2, <2>3, <2>4, <2>5, <2>6, EarnedByKind DEF EarnedBy
  <2> QED
    BY <2>7, EarnedByKind
<1>17. Earned(h) \cap ToSet(MutationMilestones) = {}
  BY EarnedByKind, NoneOfMutations
<1>18. h.achieved \ ToSet(MutationMilestones) = Earned(h)
  BY <1>1, <1>15, <1>16, <1>17
<1>19. MutationMilestones[1] \in ToSet(MutationMilestones)
  <2> DEFINE one == <<[kind |-> "mutation", level |-> 1]>>
             gs == Levels("generation", GenerationLevels)
  <2>1. one \in Seq(Milestone) /\ 1 \in DOMAIN one
    BY DEF Milestone, Kinds
  <2>2. gs \in Seq(Milestone)
    BY LevelsList, LevelsAscend, AscendingInjective DEF Kinds
  <2> HIDE DEF one, gs
  <2>3. 1 \in DOMAIN (one \o gs)
    BY <2>1, <2>2, Together
  <2> QED
    BY <2>3 DEF ToSet, MutationMilestones, one, gs
<1>20. h.mutations > 0 <=> MutationMilestones[1] \in h.achieved
  BY <1>1, <1>15, <1>16, <1>17, <1>19
<1>21. R \subseteq Earned(g) \cup ToSet(new)
  <2>1. ToSet(h.milestones) = ToSet(g.milestones) \cup ToSet(new)
    BY <1>1, <1>14, Together DEF Tracker
  <2>2. R \subseteq g.achieved \cup ToSet(new)
    BY <1>1, <1>12, <1>15, <2>1 DEF Listed
  <2> QED
    BY <1>1, <1>16, <1>17, <2>2
<1>22. TrackerInv(h)
  BY <1>12, <1>18, <1>20 DEF TrackerInv
<1>23. ToSet(new) \subseteq Earned(h) /\ Earned(h) \subseteq Earned(g) \cup ToSet(new)
  BY <1>14, <1>16, <1>21
<1> QED
  BY <1>3, <1>14, <1>22, <1>23

(* record_mutation: no milestone of a round is among those it adds.        *)
LEMMA MutationRecorded ==
  ASSUME NEW g, TrackerInv(g), NEW generation \in Int
  PROVE  LET h == RecordMutation(g, generation) IN
           /\ TrackerInv(h) /\ Earned(h) = Earned(g)
           /\ \E new \in Seq(Milestone) : h.milestones = g.milestones \o new
<1> DEFINE counted == [g EXCEPT !.mutations = @ + 1, !.generation = generation]
           R == {m \in ToSet(MutationMilestones) : m.kind = "mutation" \/ generation >= m.level}
           h == AddMilestones(counted, MutationMilestones, R)
<1>1. /\ g \in Tracker /\ Listed(g)
      /\ g.achieved \ ToSet(MutationMilestones) = Earned(g)
  BY DEF TrackerInv
<1>2. /\ counted.achieved = g.achieved /\ counted.milestones = g.milestones
      /\ counted.rounds = g.rounds /\ counted.tokens = g.tokens /\ counted.best = g.best
      /\ counted.peak = g.peak /\ counted.seen = g.seen /\ counted.mutations = g.mutations + 1
  BY <1>1 DEF Tracker
<1>3. counted \in Tracker /\ Listed(counted)
  <2>1. g.mutations + 1 \in Nat
    BY <1>1 DEF Tracker
  <2>2. counted = [g EXCEPT !.mutations = g.mutations + 1, !.generation = generation]
    BY <1>1 DEF Tracker
  <2> HIDE DEF counted
  <2>3. counted \in Tracker
    BY <1>1, <2>1, <2>2 DEF Tracker
  <2> QED
    BY <1>1, <1>2, <2>3 DEF Listed
<1>4. RecordMutation(g, generation) = h
  BY DEF RecordMutation
<1>5. R \subseteq ToSet(MutationMilestones)
  OBVIOUS
<1>6. MutationMilestones[1] \in R
  <2> DEFINE one == <<[kind |-> "mutation", level |-> 1]>>
             gs == Levels("generation", GenerationLevels)
  <2>1. one \in Seq(Milestone) /\ 1 \in DOMAIN one /\ one[1].kind = "mutation"
    BY DEF Milestone, Kinds
  <2>2. gs \in Seq(Milestone)
    BY LevelsList, LevelsAscend, AscendingInjective DEF Kinds
  <2> HIDE DEF one, gs
  <2>3. 1 \in DOMAIN (one \o gs) /\ (one \o gs)[1] = one[1]
    BY <2>1, <2>2, Together
  <2> QED
    BY <2>1, <2>3 DEF ToSet, MutationMilestones, one, gs
<1> HIDE DEF counted, R
<1>7. h \in Tracker /\ Listed(h) /\ Adds(counted, h, R)
  BY <1>3, <1>5, MilestonesAdded, MilestoneLists
<1> HIDE DEF h
<1>8. /\ h.achieved = g.achieved \cup R /\ h.rounds = g.rounds /\ h.tokens = g.tokens
      /\ h.best = g.best /\ h.peak = g.peak /\ h.seen = g.seen /\ h.mutations = g.mutations + 1
  BY <1>2, <1>3, <1>7 DEF Adds, Tracker
<1>9. Earned(h) = Earned(g)
  BY <1>8, EarnedByKind
<1>10. h.achieved \ ToSet(MutationMilestones) = Earned(h)
  BY <1>1, <1>5, <1>8, <1>9
<1>11. h.mutations > 0
  BY <1>1, <1>8 DEF Tracker
<1>12. TrackerInv(h)
  BY <1>6, <1>7, <1>8, <1>10, <1>11 DEF TrackerInv
<1>13. \E new \in Seq(Milestone) : h.milestones = g.milestones \o new
  BY <1>2, <1>7 DEF Adds
<1> QED
  BY <1>4, <1>9, <1>12, <1>13

-----------------------------------------------------------------------------
(* What is announced, and what the tracker holds.                          *)
MilestonesInv ==
  /\ TrackerInv(genesis)
  /\ announced \in Seq(Milestone) /\ ToSet(announced) = Earned(genesis)
  /\ SameOrder(announced, genesis.milestones)
  /\ tokens \in Nat /\ peers \in SUBSET Remote

LEMMA OrderKept ==
  ASSUME NEW s \in Seq(Milestone), NEW t \in Seq(Milestone), NEW new \in Seq(Milestone),
         SameOrder(s, t), ToSet(s) \subseteq ToSet(t)
  PROVE  SameOrder(s, t \o new) /\ SameOrder(s \o new, t \o new)
<1>1. /\ Len(s) \in Nat /\ Len(t) \in Nat /\ Len(new) \in Nat
      /\ DOMAIN s = 1..Len(s) /\ DOMAIN t = 1..Len(t) /\ DOMAIN new = 1..Len(new)
      /\ DOMAIN (s \o new) = 1..(Len(s) + Len(new)) /\ DOMAIN (t \o new) = 1..(Len(t) + Len(new))
  OBVIOUS
<1>2. \A i \in 1..(Len(s) + Len(new)) :
        (s \o new)[i] = IF i <= Len(s) THEN s[i] ELSE new[i - Len(s)]
  OBVIOUS
<1>3. \A i \in 1..(Len(t) + Len(new)) :
        (t \o new)[i] = IF i <= Len(t) THEN t[i] ELSE new[i - Len(t)]
  OBVIOUS
<1>4. \A k \in DOMAIN t : k \in DOMAIN (t \o new) /\ (t \o new)[k] = t[k]
  BY <1>1, <1>3
<1>5. \A j \in DOMAIN new : Len(t) + j \in DOMAIN (t \o new) /\ (t \o new)[Len(t) + j] = new[j]
  BY <1>1, <1>3
<1>6. ASSUME NEW i \in DOMAIN s, NEW j \in DOMAIN s, i < j
      PROVE  \E k, l \in DOMAIN (t \o new) : k < l /\ (t \o new)[k] = s[i] /\ (t \o new)[l] = s[j]
  BY <1>4, <1>6 DEF SameOrder
<1>7. SameOrder(s, t \o new)
  BY <1>6 DEF SameOrder
<1>8. ASSUME NEW i \in DOMAIN (s \o new), NEW j \in DOMAIN (s \o new), i < j
      PROVE  \E k, l \in DOMAIN (t \o new) :
               k < l /\ (t \o new)[k] = (s \o new)[i] /\ (t \o new)[l] = (s \o new)[j]
  <2>1. CASE j <= Len(s)
    <3>1. i \in DOMAIN s /\ j \in DOMAIN s /\ (s \o new)[i] = s[i] /\ (s \o new)[j] = s[j]
      BY <1>1, <1>2, <1>8, <2>1
    <3>2. PICK k \in DOMAIN (t \o new), l \in DOMAIN (t \o new) :
            k < l /\ (t \o new)[k] = s[i] /\ (t \o new)[l] = s[j]
      BY <1>6, <1>8, <3>1
    <3> QED
      BY <3>1, <3>2
  <2>2. CASE i <= Len(s) /\ ~(j <= Len(s))
    <3>1. i \in DOMAIN s /\ (s \o new)[i] = s[i]
      BY <1>1, <1>2, <2>2
    <3>2. j - Len(s) \in DOMAIN new /\ (s \o new)[j] = new[j - Len(s)]
      BY <1>1, <1>2, <2>2
    <3>3. PICK k \in DOMAIN t : t[k] = s[i]
      BY <3>1 DEF ToSet
    <3>4. k \in DOMAIN (t \o new) /\ (t \o new)[k] = (s \o new)[i]
      BY <1>4, <3>1, <3>3
    <3>5. /\ Len(t) + (j - Len(s)) \in DOMAIN (t \o new) /\ k < Len(t) + (j - Len(s))
          /\ (t \o new)[Len(t) + (j - Len(s))] = (s \o new)[j]
      BY <1>1, <1>5, <3>2, <3>3
    <3> QED
      BY <3>4, <3>5
  <2>3. CASE ~(i <= Len(s)) /\ ~(j <= Len(s))
    <3>1. /\ i - Len(s) \in DOMAIN new /\ (s \o new)[i] = new[i - Len(s)]
          /\ j - Len(s) \in DOMAIN new /\ (s \o new)[j] = new[j - Len(s)]
      BY <1>1, <1>2, <2>3
    <3>2. /\ Len(t) + (i - Len(s)) \in DOMAIN (t \o new)
          /\ Len(t) + (j - Len(s)) \in DOMAIN (t \o new)
          /\ (t \o new)[Len(t) + (i - Len(s))] = (s \o new)[i]
          /\ (t \o new)[Len(t) + (j - Len(s))] = (s \o new)[j]
      BY <1>5, <3>1
    <3>3. Len(t) + (i - Len(s)) < Len(t) + (j - Len(s))
      BY <1>1, <1>8
    <3> QED
      BY <3>2, <3>3
  <2> QED
    BY <1>1, <1>8, <2>1, <2>2, <2>3
<1>9. SameOrder(s \o new, t \o new)
  BY <1>8 DEF SameOrder
<1> QED
  BY <1>7, <1>9

LEMMA StepsNatural == ASSUME tokens \in Nat  PROVE Steps \in Nat
<1>1. /\ SeqLength \in Nat \ {0} /\ BatchSize \in Nat \ {0} /\ StepsPerRound \in Nat \ {0}
  BY NetworkAssumption
<1>2. Sequences \in Nat
  <2>1. IsFiniteSet(0..(tokens - SeqLength - 1))
    BY <1>1, FS_Interval
  <2>2. IsFiniteSet({s \in 0..(tokens - SeqLength - 1) : s % SeqLength = 0})
    BY <2>1, FS_Subset
  <2> QED
    BY <2>2, FS_CardinalityType DEF Sequences
<1>3. Sequences \div BatchSize \in Nat
  BY <1>1, <1>2
<1>4. Batches \in Nat
  <2>1. \A a, b \in Nat : Min({a, b}) \in Nat
    <3> SUFFICES ASSUME NEW a \in Nat, NEW b \in Nat  PROVE Min({a, b}) \in Nat
      OBVIOUS
    <3>1. a <= b \/ b <= a
      OBVIOUS
    <3>2. \E x \in {a, b} : \A y \in {a, b} : x <= y
      BY <3>1
    <3> QED
      BY <3>2 DEF Min
  <2> QED
    BY <1>1, <1>3, <2>1 DEF Batches
<1> QED
  BY <1>4 DEF Steps

LEMMA WhatFollows ==
  ASSUME NEW T, NEW s \in Seq(T), NEW t \in Seq(T)
  PROVE  SubSeq(s \o t, Len(s) + 1, Len(s) + Len(t)) = t
<1>1. /\ Len(s) \in Nat /\ Len(t) \in Nat /\ s \o t \in Seq(T)
      /\ Len(s \o t) = Len(s) + Len(t)
  OBVIOUS
<1>2. \A i \in 1..Len(t) : (s \o t)[(Len(s) + 1) + i - 1] = t[i]
  BY <1>1
<1>3. SubSeq(s \o t, Len(s) + 1, Len(s) + Len(t))
      = [i \in 1..Len(t) |-> (s \o t)[(Len(s) + 1) + i - 1]]
  BY <1>1
<1>4. t = [i \in 1..Len(t) |-> t[i]]
  OBVIOUS
<1> QED
  BY <1>2, <1>3, <1>4

LEMMA RoundKeepsMilestones ==
  ASSUME MilestonesInv, NEW outcome \in Outcomes, NEW pay, TrainRound(outcome, pay)
  PROVE  MilestonesInv'
<1> DEFINE done == Steps * BatchSize * SeqLength
           here == Cardinality(peers) + 1
           h == RecordRound(genesis, outcome.loss, outcome.quality, done, here)
<1>1. /\ genesis' = h /\ announced' = announced \o NewMilestones(genesis, genesis')
      /\ tokens' = tokens /\ peers' = peers
  BY DEF TrainRound
<1>2. outcome.loss \in Int /\ outcome.quality \in SUBSET ToSet(Qualities)
  BY NetworkAssumption
<1>3. done \in Nat
  <2>1. Steps \in Nat /\ BatchSize \in Nat /\ SeqLength \in Nat
    BY StepsNatural, NetworkAssumption DEF MilestonesInv
  <2>2. \A a, b \in Nat : a * b \in Nat
    OBVIOUS
  <2> QED
    BY <2>1, <2>2
<1>4. here \in Int
  <2>1. IsFiniteSet(peers)
    BY NetworkAssumption, FS_Subset DEF MilestonesInv
  <2> QED
    BY <2>1, FS_CardinalityType
<1> HIDE DEF done, here
<1>5. PICK new \in Seq(Milestone) :
        /\ h.milestones = genesis.milestones \o new
        /\ ToSet(new) \subseteq Earned(h) /\ Earned(h) \subseteq Earned(genesis) \cup ToSet(new)
        /\ TrackerInv(h)
  BY <1>2, <1>3, <1>4, RoundRecorded DEF MilestonesInv
<1> HIDE DEF h
<1>6. genesis.milestones \in Seq(Milestone) /\ announced \in Seq(Milestone)
  BY DEF MilestonesInv, TrackerInv, Tracker
<1>7. NewMilestones(genesis, genesis') = new
  <2>1. Len(h.milestones) = Len(genesis.milestones) + Len(new)
    BY <1>5, <1>6, ConcatProperties
  <2>2. SubSeq(genesis.milestones \o new, Len(genesis.milestones) + 1,
               Len(genesis.milestones) + Len(new)) = new
    BY <1>5, <1>6, WhatFollows
  <2> QED
    BY <1>1, <1>5, <2>1, <2>2 DEF NewMilestones
<1>8. announced' = announced \o new
  BY <1>1, <1>7
<1>9. announced' \in Seq(Milestone) /\ ToSet(announced') = ToSet(announced) \cup ToSet(new)
  BY <1>6, <1>8, Together
<1>10. Earned(genesis) \subseteq Earned(h)
  <2>1. ToSet(h.milestones) = ToSet(genesis.milestones) \cup ToSet(new)
    BY <1>5, <1>6, Together
  <2> QED
    BY <1>5, <2>1 DEF MilestonesInv, TrackerInv, Listed
<1>11. ToSet(announced') = Earned(h)
  BY <1>5, <1>9, <1>10 DEF MilestonesInv
<1>12. SameOrder(announced \o new, genesis.milestones \o new)
  BY <1>6, OrderKept DEF MilestonesInv, TrackerInv, Listed
<1>13. Earned(h) = Earned(genesis)'
  BY <1>1 DEF Earned
<1> QED
  BY <1>1, <1>5, <1>8, <1>9, <1>11, <1>12, <1>13 DEF MilestonesInv, TrackerInv, Listed

LEMMA NothingRecorded == TrackerInv(RecordBirth) /\ SameOrder(<< >>, RecordBirth.milestones)
                           /\ ToSet(<< >>) = Earned(RecordBirth) /\ << >> \in Seq(Milestone)
<1>1. Earned(RecordBirth) = {}
  BY BirthHolds DEF TrackerInv, RecordBirth
<1>2. ToSet(<< >>) = {} /\ << >> \in Seq(Milestone)
  BY DEF ToSet
<1>3. SameOrder(<< >>, RecordBirth.milestones)
  BY DEF SameOrder
<1> QED
  BY <1>1, <1>2, <1>3, BirthHolds

LEMMA MilestonesUnchanged ==
  ASSUME MilestonesInv, UNCHANGED <<genesis, announced>>, tokens' \in Nat,
         peers' \in SUBSET Remote
  PROVE  MilestonesInv'
<1>1. Earned(genesis)' = Earned(genesis)
  BY DEF Earned
<1>2. TrackerInv(genesis)'
  BY <1>1 DEF MilestonesInv, TrackerInv, Listed
<1> QED
  BY <1>1, <1>2 DEF MilestonesInv

LEMMA MilestonesNext ==
  ASSUME MilestonesInv, [NetworkNext]_<<network, vars>>
  PROVE  MilestonesInv'
<1> USE DEF MilestonesInv
<1>1. CASE Start
  BY <1>1, MilestonesUnchanged DEF Start
<1>2. CASE Crash
  <2>1. genesis' = RecordBirth /\ announced' = << >> /\ tokens' = 0 /\ peers' = {}
    BY <1>2 DEF Crash, NoProcess
  <2>2. Earned(genesis)' = Earned(RecordBirth)
    BY <2>1 DEF Earned
  <2>3. TrackerInv(genesis)'
    BY <2>1, <2>2, NothingRecorded DEF TrackerInv, Listed
  <2> QED
    BY <2>1, <2>2, <2>3, NothingRecorded
<1>3. CASE \E n \in Texts : LoadText(n)
  <2>1. PICK n \in Texts : LoadText(n)
    BY <1>3
  <2>2. n \in Nat
    BY NetworkAssumption
  <2>3. tokens' \in Nat
    BY <2>1, <2>2 DEF LoadText
  <2> QED
    BY <2>1, <2>3, MilestonesUnchanged DEF LoadText
<1>4. CASE \E p \in Remote : RegisterPeer(p) \/ RemovePeer(p)
  BY <1>4, MilestonesUnchanged DEF RegisterPeer, RemovePeer
<1>5. CASE \E n \in DOMAIN files : LoadCheckpoint(n)
  BY <1>5, MilestonesUnchanged DEF LoadCheckpoint
<1>6. CASE \E outcome \in Outcomes, pay \in RoundPay : TrainRound(outcome, pay)
  BY <1>6, RoundKeepsMilestones
<1>7. CASE SaveBegin
  BY <1>7, MilestonesUnchanged DEF SaveBegin
<1>8. CASE SaveEnd
  BY <1>8, MilestonesUnchanged DEF SaveEnd
<1>9. CASE \E generation \in 1..MaxMutations : ReportMutation(generation)
  <2>1. PICK generation \in 1..MaxMutations : ReportMutation(generation)
    BY <1>9
  <2>2. /\ genesis' = RecordMutation(genesis, generation)
        /\ announced' = announced /\ tokens' = tokens /\ peers' = peers
    BY <2>1 DEF ReportMutation
  <2> DEFINE h == RecordMutation(genesis, generation)
  <2>3. generation \in Int
    OBVIOUS
  <2>4. /\ TrackerInv(h) /\ Earned(h) = Earned(genesis)
        /\ \E new \in Seq(Milestone) : h.milestones = genesis.milestones \o new
    BY <2>3, MutationRecorded
  <2> HIDE DEF h
  <2>5. PICK new \in Seq(Milestone) : h.milestones = genesis.milestones \o new
    BY <2>4
  <2>6. genesis.milestones \in Seq(Milestone) /\ ToSet(announced) \subseteq ToSet(genesis.milestones)
    BY DEF TrackerInv, Tracker, Listed
  <2>7. SameOrder(announced, h.milestones)
    BY <2>5, <2>6, OrderKept
  <2>8. Earned(genesis)' = Earned(h) /\ TrackerInv(genesis)' /\ genesis' = h
    BY <2>2, <2>4 DEF h, Earned, TrackerInv, Listed
  <2> QED
    BY <2>2, <2>4, <2>7, <2>8
<1>10. CASE UseCredits \/ UNCHANGED network
  BY <1>10, MilestonesUnchanged DEF UseCredits, network
<1> QED
  BY <1>1, <1>2, <1>3, <1>4, <1>5, <1>6, <1>7, <1>8, <1>9, <1>10 DEF NetworkNext

(* Milestones are held when they are earned and only then, recorded once,  *)
(* and those of rounds passed to the callbacks once and in their order,    *)
(* whatever the thresholds, whatever a round yields.                       *)
THEOREM MilestonesEarned == NetworkSpec => []MilestonesAsEarned
<1>1. NetworkInit => MilestonesInv
  <2> SUFFICES ASSUME NetworkInit  PROVE MilestonesInv
    OBVIOUS
  <2>1. genesis = RecordBirth /\ announced = << >> /\ tokens = 0 /\ peers = {}
    BY DEF NetworkInit
  <2> QED
    BY <2>1, NothingRecorded DEF MilestonesInv
<1>2. MilestonesInv /\ [NetworkNext]_<<network, vars>> => MilestonesInv'
  BY MilestonesNext
<1>3. MilestonesInv => MilestonesAsEarned
  BY DEF MilestonesInv, TrackerInv, Listed, MilestonesAsEarned
<1> QED
  BY <1>1, <1>2, <1>3, PTL DEF NetworkSpec
=============================================================================
