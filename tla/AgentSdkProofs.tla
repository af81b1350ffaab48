---------------------------- MODULE AgentSdkProofs ----------------------------
(***************************************************************************)
(* Theorems about AgentSdk: for any number of coroutines and any windows,  *)
(* limits and decay, what the free tier gets out of the limiter is bounded *)
(* and training is never refused.                                          *)
(***************************************************************************)
EXTENDS AgentSdk, FiniteSetTheorems, TLAPS

Counts == [Time -> Nat]

Shape ==
  /\ now \in Time
  /\ inferences \in Counts /\ tokens \in Counts
  /\ trainings \in Counts /\ credits \in Counts
  /\ free \in [requests : Counts, tokens : Counts]
  /\ pending \in [Call -> [waits : BOOLEAN, tokens : 0..MaxTokens, free : BOOLEAN]]

(* What is charged to the free tier is recorded like the rest, and nothing *)
(* is recorded ahead of time.                                              *)
FreeIsRecorded ==
  \A t \in Time :
    /\ free.requests[t] <= inferences[t] /\ free.tokens[t] <= tokens[t]
    /\ t > now => free.requests[t] = 0 /\ free.tokens[t] = 0

(* Admitted as free and still awaited: each will be recorded yet.          *)
InFlight == {c \in Call : pending[c].waits /\ pending[c].free}

RequestBudget ==
  InWindow(free.requests, Minute) + Cardinality(InFlight)
    <= RequestsPerMinute + Cardinality(Call)

TokenBudget ==
  InWindow(free.tokens, Hour) + Cardinality(InFlight) * MaxTokens
    <= TokensPerHour - 1 + (Cardinality(Call) + 1) * MaxTokens

RoundsCredited == \A t \in Time : credits[t] >= TrainingCredits * trainings[t]

AgentInv == Shape /\ FreeIsRecorded /\ RequestBudget /\ TokenBudget /\ RoundsCredited

-----------------------------------------------------------------------------
(* Sums.                                                                   *)
Covers(amounts, times) == \A t \in times : amounts[t] \in Nat

LEMMA TimeIsFinite == IsFiniteSet(Time) /\ Time \subseteq Nat
<1>1. MaxTime \in Nat
  BY AgentAssumption
<1>2. IsFiniteSet(0..MaxTime)
  BY <1>1, FS_Interval
<1> QED
  BY <1>1, <1>2 DEF Time

LEMMA UnitsOf ==
  ASSUME NEW amounts, NEW times, NEW u
  PROVE  u \in Units(amounts, times) <=>
           \E t \in times : \E i \in 1..amounts[t] : u = <<t, i>>
<1>1. u \in Units(amounts, times) <=> \E t \in times : u \in {t} \X (1..amounts[t])
  BY DEF Units
<1>2. \A t \in times : u \in {t} \X (1..amounts[t]) <=> \E i \in 1..amounts[t] : u = <<t, i>>
  OBVIOUS
<1> QED
  BY <1>1, <1>2

LEMMA TotalIsNat ==
  ASSUME NEW amounts, NEW times \in SUBSET Time, Covers(amounts, times)
  PROVE  IsFiniteSet(Units(amounts, times)) /\ Total(amounts, times) \in Nat
<1> DEFINE f == [t \in times |-> {t} \X (1..amounts[t])]
           S == {{t} \X (1..amounts[t]) : t \in times}
<1>1. IsFiniteSet(times)
  BY TimeIsFinite, FS_Subset
<1>2. f \in Surjection(times, S)
  BY DEF Surjection
<1>3. IsFiniteSet(S)
  BY <1>1, <1>2, FS_Surjection
<1>4. ASSUME NEW t \in times
      PROVE  IsFiniteSet({t} \X (1..amounts[t]))
  <2>1. amounts[t] \in Int /\ 1 \in Int
    BY DEF Covers
  <2>2. IsFiniteSet(1..amounts[t]) /\ IsFiniteSet({t})
    BY <2>1, FS_Interval, FS_Singleton
  <2> QED
    BY <2>2, FS_Product
<1>5. \A s \in S : IsFiniteSet(s)
  BY <1>4
<1>6. IsFiniteSet(UNION S)
  BY <1>3, <1>5, FS_UNION
<1> QED
  BY <1>6, FS_CardinalityType DEF Units, Total

LEMMA TotalGrows ==
  ASSUME NEW a, NEW b, NEW S \in SUBSET Time, NEW T \in SUBSET Time,
         Covers(a, S), Covers(b, T),
         \A t \in S : a[t] = 0 \/ (t \in T /\ a[t] <= b[t])
  PROVE  Total(a, S) <= Total(b, T)
<1>1. ASSUME NEW u \in Units(a, S)
      PROVE  u \in Units(b, T)
  <2>1. PICK t \in S : \E i \in 1..a[t] : u = <<t, i>>
    BY <1>1, UnitsOf
  <2>2. PICK i \in 1..a[t] : u = <<t, i>>
    BY <2>1
  <2>3. a[t] \in Nat
    BY DEF Covers
  <2>4. t \in T /\ a[t] <= b[t]
    BY <2>2, <2>3
  <2>5. b[t] \in Nat
    BY <2>4 DEF Covers
  <2>6. i \in 1..b[t]
    BY <2>3, <2>4, <2>5
  <2> QED
    BY <2>2, <2>4, <2>6, UnitsOf
<1>2. IsFiniteSet(Units(b, T)) /\ Units(a, S) \subseteq Units(b, T)
  BY <1>1, TotalIsNat
<1> QED
  BY <1>2, FS_Subset DEF Total

(* Adding n to one entry adds at most n to a sum.                          *)
LEMMA TotalAdds ==
  ASSUME NEW a, NEW b, NEW S \in SUBSET Time, NEW x \in Time, NEW n \in Nat,
         Covers(a, S), Covers(b, S), a[x] \in Nat,
         b[x] = a[x] + n, \A t \in S : t # x => b[t] = a[t]
  PROVE  Total(b, S) <= Total(a, S) + n
<1> DEFINE New == {x} \X ((a[x] + 1)..(a[x] + n))
<1>1. IsFiniteSet(New) /\ Cardinality(New) = n
  <2> DEFINE lo == a[x] + 1  hi == a[x] + n
  <2>1. lo \in Int /\ hi \in Int /\ (IF lo > hi THEN 0 ELSE hi - lo + 1) = n
    OBVIOUS
  <2>2. New = {x} \X (lo..hi)
    OBVIOUS
  <2> HIDE DEF lo, hi, New
  <2>3. IsFiniteSet(lo..hi) /\ Cardinality(lo..hi) = n
    BY <2>1, FS_Interval
  <2>4. IsFiniteSet({x}) /\ Cardinality({x}) = 1
    BY FS_Singleton
  <2>5. IsFiniteSet({x} \X (lo..hi)) /\ Cardinality({x} \X (lo..hi)) = 1 * n
    BY <2>3, <2>4, FS_Product
  <2> QED
    BY <2>2, <2>5
<1>2. ASSUME NEW u \in Units(b, S)
      PROVE  u \in Units(a, S) \cup New
  <2>1. PICK t \in S : \E i \in 1..b[t] : u = <<t, i>>
    BY UnitsOf
  <2>2. PICK i \in 1..b[t] : u = <<t, i>>
    BY <2>1
  <2>3. CASE t # x
    <3>1. i \in 1..a[t]
      BY <2>3
    <3> QED
      BY <2>2, <3>1, UnitsOf
  <2>4. CASE t = x
    <3>1. i \in 1..a[x] \/ i \in (a[x] + 1)..(a[x] + n)
      BY <2>4
    <3>2. ASSUME i \in 1..a[x] PROVE u \in Units(a, S)
      BY <2>2, <2>4, <3>2, UnitsOf
    <3>3. ASSUME i \in (a[x] + 1)..(a[x] + n) PROVE u \in New
      BY <2>2, <2>4, <3>3
    <3> QED
      BY <3>1, <3>2, <3>3
  <2> QED
    BY <2>3, <2>4
<1>3. IsFiniteSet(Units(a, S)) /\ Total(a, S) \in Nat /\ Total(b, S) \in Nat
  BY TotalIsNat
<1> HIDE DEF New
<1>4. Cardinality(Units(a, S) \cap New) \in Nat
  <2>1. Units(a, S) \cap New \in SUBSET New
    OBVIOUS
  <2> QED
    BY <1>1, <2>1, FS_Subset, FS_CardinalityType
<1>5. /\ IsFiniteSet(Units(a, S) \cup New)
      /\ Cardinality(Units(a, S) \cup New) <= Total(a, S) + n
  <2>1. /\ IsFiniteSet(Units(a, S) \cup New)
        /\ Cardinality(Units(a, S) \cup New) =
             Cardinality(Units(a, S)) + Cardinality(New) - Cardinality(Units(a, S) \cap New)
    BY <1>1, <1>3, FS_Union
  <2> QED
    BY <1>1, <1>3, <1>4, <2>1 DEF Total
<1>6. Units(b, S) \subseteq Units(a, S) \cup New
  BY <1>2
<1>7. /\ Cardinality(Units(b, S)) <= Cardinality(Units(a, S) \cup New)
      /\ Cardinality(Units(a, S) \cup New) \in Nat
  BY <1>5, <1>6, FS_Subset, FS_CardinalityType
<1> QED
  BY <1>3, <1>5, <1>7 DEF Total

(* One unit is enough for a positive sum, and conversely.                  *)
LEMMA PositiveTotal ==
  ASSUME NEW a, NEW S \in SUBSET Time, Covers(a, S), Total(a, S) > 0
  PROVE  \E t \in S : a[t] > 0
<1>1. Units(a, S) # {}
  BY FS_EmptySet DEF Total
<1>2. PICK u : u \in Units(a, S)
  BY <1>1
<1>3. PICK t \in S : \E i \in 1..a[t] : u = <<t, i>>
  BY <1>2, UnitsOf
<1> QED
  BY <1>3 DEF Covers

LEMMA TermInTotal ==
  ASSUME NEW a, NEW S \in SUBSET Time, Covers(a, S), NEW x \in S
  PROVE  a[x] <= Total(a, S)
<1>1. a[x] \in Nat /\ 1 \in Int /\ a[x] \in Int
  BY DEF Covers
<1>2. Cardinality({x} \X (1..a[x])) = a[x] /\ IsFiniteSet({x} \X (1..a[x]))
  <2>1. IsFiniteSet(1..a[x]) /\ Cardinality(1..a[x]) = a[x]
    BY <1>1, FS_Interval
  <2>2. IsFiniteSet({x}) /\ Cardinality({x}) = 1
    BY FS_Singleton
  <2> QED
    BY <1>1, <2>1, <2>2, FS_Product
<1>3. {x} \X (1..a[x]) \subseteq Units(a, S)
  BY DEF Units
<1>4. IsFiniteSet(Units(a, S))
  BY TotalIsNat
<1> QED
  BY <1>2, <1>3, <1>4, FS_Subset DEF Total

-----------------------------------------------------------------------------
(* The windows the limiter looks at, now and after a step.                 *)
Window(window) == {t \in Time : t > now - window /\ t <= now}

LEMMA WindowIsNat ==
  ASSUME NEW events \in Counts, NEW window
  PROVE  InWindow(events, window) \in Nat
<1>1. Covers(events, Window(window)) /\ Window(window) \in SUBSET Time
  BY DEF Covers, Counts, Window
<1> QED
  BY <1>1, TotalIsNat DEF InWindow, Window

LEMMA WindowsAreNat == \A a \in Counts : \A window : InWindow(a, window) \in Nat
  BY WindowIsNat

LEMMA WindowGrows ==
  ASSUME NEW a \in Counts, NEW b \in Counts, NEW window, \A t \in Time : a[t] <= b[t]
  PROVE  InWindow(a, window) <= InWindow(b, window)
<1>1. /\ Covers(a, Window(window)) /\ Covers(b, Window(window))
      /\ Window(window) \in SUBSET Time
  BY DEF Covers, Counts, Window
<1>2. Total(a, Window(window)) <= Total(b, Window(window))
  BY <1>1, TotalGrows
<1> QED
  BY <1>2 DEF InWindow, Window

LEMMA WindowAdds ==
  ASSUME NEW a \in Counts, NEW n \in Nat, now \in Time, NEW window
  PROVE  /\ Add(a, n) \in Counts
         /\ InWindow(Add(a, n), window) <= InWindow(a, window) + n
<1>1. /\ Add(a, n) \in Counts /\ Add(a, n)[now] = a[now] + n
      /\ \A t \in Time : t # now => Add(a, n)[t] = a[t]
  BY DEF Add, Counts
<1>2. /\ Covers(a, Window(window)) /\ Covers(Add(a, n), Window(window))
      /\ Window(window) \in SUBSET Time /\ a[now] \in Nat
  BY <1>1 DEF Covers, Counts, Window
<1>3. \A t \in Window(window) : t # now => Add(a, n)[t] = a[t]
  BY <1>1 DEF Window
<1>4. Total(Add(a, n), Window(window)) <= Total(a, Window(window)) + n
  BY <1>1, <1>2, <1>3, TotalAdds
<1> QED
  BY <1>1, <1>4 DEF InWindow, Window

(* Time passes: a window loses its oldest tick and gains an empty one.     *)
LEMMA WindowMoves ==
  ASSUME NEW a \in Counts, NEW window \in Nat, now \in Time,
         \A t \in Time : t > now => a[t] = 0
  PROVE  Total(a, {t \in Time : t > (now + 1) - window /\ t <= now + 1}) <= InWindow(a, window)
<1> DEFINE later == {t \in Time : t > (now + 1) - window /\ t <= now + 1}
<1>1. /\ Covers(a, Window(window)) /\ Covers(a, later)
      /\ Window(window) \in SUBSET Time /\ later \in SUBSET Time
  BY DEF Covers, Counts, Window
<1>2. \A t \in later : a[t] = 0 \/ (t \in Window(window) /\ a[t] <= a[t])
  <2> SUFFICES ASSUME NEW t \in later, a[t] # 0
               PROVE  t \in Window(window) /\ a[t] <= a[t]
    OBVIOUS
  <2>1. t \in Nat /\ now \in Nat /\ t \in Time /\ a[t] \in Nat /\ t <= now
    BY TimeIsFinite DEF Counts
  <2> QED
    BY <2>1 DEF Window
<1> HIDE DEF later
<1>3. Total(a, later) <= Total(a, Window(window))
  BY <1>1, <1>2, TotalGrows
<1> QED
  BY <1>3 DEF later, InWindow, Window

InFlightBounded ==
  /\ IsFiniteSet(InFlight) /\ Cardinality(InFlight) \in Nat
  /\ Cardinality(InFlight) <= Cardinality(Call) /\ Cardinality(Call) \in Nat

LEMMA InFlightIsNat == InFlightBounded
<1>1. InFlight \in SUBSET Call /\ IsFiniteSet(Call)
  BY AgentAssumption DEF InFlight
<1> QED
  BY <1>1, FS_Subset, FS_CardinalityType DEF InFlightBounded

LEMMA Products ==
  /\ \A a, m \in Nat : (a + 1) * m = a * m + m /\ a * m \in Nat
  /\ \A a, b, m \in Nat : a <= b => a * m <= b * m
  OBVIOUS

-----------------------------------------------------------------------------
LEMMA AgentStarts == ASSUME Init PROVE AgentInv
<1>1. now = 0 /\ 0 \in Time /\ MaxTokens \in Nat
  BY AgentAssumption DEF Init, Time
<1>2. Never \in Counts /\ \A t \in Time : Never[t] = 0
  BY DEF Never, Counts
<1>3. Shape
  BY <1>1, <1>2 DEF Init, Shape, NotWaiting
<1>4. FreeIsRecorded /\ RoundsCredited
  BY <1>2, AgentAssumption DEF Init, FreeIsRecorded, RoundsCredited
<1>5. InFlight = {} /\ Cardinality(InFlight) = 0
  BY FS_EmptySet DEF Init, InFlight, NotWaiting
<1>6. InWindow(Never, Minute) = 0 /\ InWindow(Never, Hour) = 0
  <2>1. ASSUME NEW window PROVE InWindow(Never, window) = 0
    <3>1. /\ Covers(Never, Window(window)) /\ Window(window) \in SUBSET Time
      BY <1>2 DEF Covers, Window
    <3>2. ~ (Total(Never, Window(window)) > 0)
      BY <1>2, <3>1, PositiveTotal
    <3> QED
      BY <3>1, <3>2, TotalIsNat DEF InWindow, Window
  <2> QED
    BY <2>1
<1>7. RequestBudget
  BY <1>5, <1>6, InFlightIsNat, AgentAssumption DEF Init, RequestBudget, InFlightBounded
<1>8. TokenBudget
  <2> DEFINE slack == (Cardinality(Call) + 1) * MaxTokens
  <2>1. slack \in Nat /\ TokensPerHour \in Nat \ {0}
    BY <1>1, InFlightIsNat, Products, AgentAssumption DEF InFlightBounded
  <2>2. Cardinality(InFlight) * MaxTokens = 0 /\ InWindow(free.tokens, Hour) = 0
    BY <1>1, <1>5, <1>6 DEF Init
  <2> QED
    BY <2>1, <2>2 DEF TokenBudget
<1> QED
  BY <1>3, <1>4, <1>7, <1>8 DEF AgentInv

(* A record: what it changes, and by how much the windows fill.            *)
LEMMA RecordStep ==
  ASSUME AgentInv, NEW n \in 0..MaxTokens, NEW wasFree \in BOOLEAN,
         RecordInference(n, wasFree), UNCHANGED <<now, trainings, credits>>,
         pending' \in [Call -> [waits : BOOLEAN, tokens : 0..MaxTokens, free : BOOLEAN]]
  PROVE  /\ Shape' /\ FreeIsRecorded' /\ RoundsCredited'
         /\ InWindow(free.requests, Minute)' \in Nat /\ InWindow(free.tokens, Hour)' \in Nat
         /\ InWindow(free.requests, Minute)' <= InWindow(free.requests, Minute)
                                                  + (IF wasFree THEN 1 ELSE 0)
         /\ InWindow(free.tokens, Hour)' <= InWindow(free.tokens, Hour)
                                                  + (IF wasFree THEN n ELSE 0)
<1>1. /\ now \in Time /\ n \in Nat /\ 1 \in Nat /\ Minute \in Nat /\ Hour \in Nat
      /\ inferences \in Counts /\ tokens \in Counts
      /\ free.requests \in Counts /\ free.tokens \in Counts
  BY AgentAssumption DEF AgentInv, Shape
<1>2. /\ inferences' = Add(inferences, 1) /\ tokens' = Add(tokens, n)
      /\ inferences' \in Counts /\ tokens' \in Counts
  BY <1>1, WindowAdds DEF RecordInference
<1>3. RoundsCredited'
  BY DEF AgentInv, RoundsCredited
<1>4. ASSUME NEW t \in Time
      PROVE  /\ inferences[t] \in Nat /\ tokens[t] \in Nat
             /\ free.requests[t] \in Nat /\ free.tokens[t] \in Nat
             /\ free.requests[t] <= inferences[t] /\ free.tokens[t] <= tokens[t]
             /\ t > now => free.requests[t] = 0 /\ free.tokens[t] = 0
  BY <1>1 DEF Counts, AgentInv, FreeIsRecorded
<1>7. ASSUME NEW t \in Time
      PROVE  /\ t = now => inferences'[t] = inferences[t] + 1 /\ tokens'[t] = tokens[t] + n
             /\ t # now => inferences'[t] = inferences[t] /\ tokens'[t] = tokens[t]
  BY <1>1, <1>2 DEF Add, Counts
<1>8. ASSUME NEW t \in Time
      PROVE  inferences[t] <= inferences'[t] /\ tokens[t] <= tokens'[t]
             /\ inferences'[t] \in Nat /\ tokens'[t] \in Nat
  <2>1. inferences[t] \in Nat /\ tokens[t] \in Nat
    BY <1>4
  <2>2. CASE t = now
    BY <1>1, <1>7, <2>1, <2>2
  <2>3. CASE t # now
    BY <1>1, <1>7, <2>1, <2>3
  <2> QED
    BY <2>2, <2>3
<1>5. CASE wasFree
  <2>1. free' = [requests |-> Add(free.requests, 1), tokens |-> Add(free.tokens, n)]
    BY <1>5 DEF RecordInference
  <2>2. free'.requests = Add(free.requests, 1) /\ free'.tokens = Add(free.tokens, n)
    BY <2>1
  <2>3. /\ Add(free.requests, 1) \in Counts /\ Add(free.tokens, n) \in Counts
        /\ InWindow(Add(free.requests, 1), Minute) <= InWindow(free.requests, Minute) + 1
        /\ InWindow(Add(free.tokens, n), Hour) <= InWindow(free.tokens, Hour) + n
    BY <1>1, WindowAdds
  <2>4. /\ InWindow(free.requests, Minute)' = InWindow(Add(free.requests, 1), Minute)
        /\ InWindow(free.tokens, Hour)' = InWindow(Add(free.tokens, n), Hour)
    BY <2>2 DEF InWindow
  <2>5. Shape'
    BY <1>1, <1>2, <2>1, <2>3 DEF AgentInv, Shape
  <2>6. FreeIsRecorded'
    <3>1. ASSUME NEW t \in Time
          PROVE  /\ t = now => free'.requests[t] = free.requests[t] + 1 /\ free'.tokens[t] = free.tokens[t] + n
                 /\ t # now => free'.requests[t] = free.requests[t] /\ free'.tokens[t] = free.tokens[t]
      BY <1>1, <2>2 DEF Add, Counts
    <3>2. ASSUME NEW t \in Time
          PROVE  /\ free'.requests[t] <= inferences'[t] /\ free'.tokens[t] <= tokens'[t]
                 /\ t > now => free'.requests[t] = 0 /\ free'.tokens[t] = 0
      <4>1. t \in Nat /\ now \in Nat
        BY <1>1, TimeIsFinite
      <4>2. CASE t = now
        BY <1>1, <1>4, <1>7, <3>1, <4>1, <4>2
      <4>3. CASE t # now
        BY <1>4, <1>7, <3>1, <4>1, <4>3
      <4> QED
        BY <4>2, <4>3
    <3> QED
      BY <3>2 DEF FreeIsRecorded
  <2>7. /\ InWindow(Add(free.requests, 1), Minute) \in Nat
        /\ InWindow(Add(free.tokens, n), Hour) \in Nat
    BY <2>3, WindowIsNat
  <2> QED
    BY <1>3, <1>5, <2>3, <2>4, <2>5, <2>6, <2>7
<1>6. CASE ~wasFree
  <2>1. free' = free
    BY <1>6 DEF RecordInference
  <2>2. /\ InWindow(free.requests, Minute)' = InWindow(free.requests, Minute)
        /\ InWindow(free.tokens, Hour)' = InWindow(free.tokens, Hour)
    BY <2>1 DEF InWindow
  <2>3. Shape'
    BY <1>1, <1>2, <2>1 DEF AgentInv, Shape
  <2>4. FreeIsRecorded'
    <3>1. ASSUME NEW t \in Time
          PROVE  /\ free.requests[t] <= inferences'[t] /\ free.tokens[t] <= tokens'[t]
                 /\ t > now => free.requests[t] = 0 /\ free.tokens[t] = 0
      <4>1. /\ free.requests[t] <= inferences[t] /\ inferences[t] <= inferences'[t]
            /\ free.tokens[t] <= tokens[t] /\ tokens[t] <= tokens'[t]
        BY <1>4, <1>8
      <4>2. /\ free.requests[t] \in Nat /\ inferences[t] \in Nat /\ inferences'[t] \in Nat
            /\ free.tokens[t] \in Nat /\ tokens[t] \in Nat /\ tokens'[t] \in Nat
        BY <1>4, <1>8
      <4> QED
        BY <1>4, <4>1, <4>2
    <3> QED
      BY <2>1, <3>1 DEF FreeIsRecorded
  <2>5. InWindow(free.requests, Minute) \in Nat /\ InWindow(free.tokens, Hour) \in Nat
    BY <1>1, WindowIsNat
  <2> QED
    BY <1>3, <1>6, <2>2, <2>3, <2>4, <2>5
<1> QED
  BY <1>5, <1>6

(* What the checks say of a call that is admitted as free.                 *)
LEMMA FreeAdmission ==
  ASSUME AgentInv, CheckInference, CheckTokens, ~Contributor
  PROVE  /\ InWindow(free.requests, Minute) + 1 <= RequestsPerMinute
         /\ InWindow(free.tokens, Hour) <= TokensPerHour - 1
<1>1. /\ inferences \in Counts /\ tokens \in Counts
      /\ free.requests \in Counts /\ free.tokens \in Counts
      /\ \A t \in Time : free.requests[t] <= inferences[t] /\ free.tokens[t] <= tokens[t]
  BY DEF AgentInv, Shape, FreeIsRecorded
<1>2. /\ InWindow(free.requests, Minute) <= InWindow(inferences, Minute)
      /\ InWindow(free.tokens, Hour) <= InWindow(tokens, Hour)
  BY <1>1, WindowGrows
<1>3. /\ InWindow(free.requests, Minute) \in Nat /\ InWindow(free.tokens, Hour) \in Nat
      /\ InWindow(inferences, Minute) \in Nat /\ InWindow(tokens, Hour) \in Nat
  BY <1>1, WindowIsNat
<1>4. InWindow(inferences, Minute) < RequestsPerMinute /\ InWindow(tokens, Hour) < TokensPerHour
  BY DEF CheckInference, CheckTokens
<1>5. RequestsPerMinute \in Nat /\ TokensPerHour \in Nat
  BY AgentAssumption
<1> QED
  BY <1>2, <1>3, <1>4, <1>5

(* How the budgets follow once the windows and the calls in flight are     *)
(* known to have changed by so much.                                       *)
Fits(q, k, w, call) ==
  /\ q + w <= RequestsPerMinute + call
  /\ k + w * MaxTokens <= TokensPerHour - 1 + (call + 1) * MaxTokens

Spends(q, k, w, q2, k2, w2, n) ==
  \/ q2 <= q /\ k2 <= k /\ w2 <= w
  \/ q2 <= q + 1 /\ k2 <= k + n /\ w2 + 1 = w
  \/ q2 <= q + 1 /\ k2 <= k + n /\ q + 1 <= RequestsPerMinute /\ k <= TokensPerHour - 1

LEMMA BudgetSums ==
  ASSUME NEW q \in Nat, NEW k \in Nat, NEW w \in Nat, NEW q2 \in Nat, NEW k2 \in Nat,
         NEW w2 \in Nat, NEW n \in 0..MaxTokens, NEW call \in Nat, w <= call, w2 <= call,
         Fits(q, k, w, call), Spends(q, k, w, q2, k2, w2, n)
  PROVE  Fits(q2, k2, w2, call)
<1>1. MaxTokens \in Nat /\ RequestsPerMinute \in Nat /\ TokensPerHour \in Nat
  BY AgentAssumption
<1> DEFINE m == MaxTokens
           c1 == (call + 1) * m
           wm == w * m
           w2m == w2 * m
<1>2. /\ c1 \in Nat /\ wm \in Nat /\ w2m \in Nat /\ n \in Nat /\ n <= m
      /\ c1 = call * m + m /\ call * m \in Nat /\ w2m <= call * m
      /\ w2 <= w => w2m <= wm
      /\ w2 + 1 = w => wm = w2m + m
  BY <1>1, Products
<1>3. CASE q2 <= q /\ k2 <= k /\ w2 <= w /\ q + w <= RequestsPerMinute + call
           /\ k + wm <= TokensPerHour - 1 + c1
  <2> HIDE DEF m, c1, wm, w2m
  <2>1. k2 + w2m <= TokensPerHour - 1 + c1
    BY <1>1, <1>2, <1>3
  <2>2. q2 + w2 <= RequestsPerMinute + call
    BY <1>1, <1>3
  <2> QED
    BY <2>1, <2>2 DEF m, c1, w2m, Fits
<1>4. CASE q2 <= q + 1 /\ k2 <= k + n /\ w2 + 1 = w /\ q + w <= RequestsPerMinute + call
           /\ k + wm <= TokensPerHour - 1 + c1
  <2> HIDE DEF c1, wm, w2m
  <2>1. k2 + w2m <= TokensPerHour - 1 + c1
    BY <1>1, <1>2, <1>4
  <2>2. q2 + w2 <= RequestsPerMinute + call
    BY <1>1, <1>4
  <2> QED
    BY <2>1, <2>2 DEF m, c1, w2m, Fits
<1>5. CASE q2 <= q + 1 /\ k2 <= k + n /\ q + 1 <= RequestsPerMinute /\ k <= TokensPerHour - 1
  <2> DEFINE cm == call * m
  <2>1. cm \in Nat /\ c1 = cm + m /\ w2m <= cm
    BY <1>2
  <2> HIDE DEF cm, c1, wm, w2m
  <2>2. k2 + w2m <= TokensPerHour - 1 + c1
    BY <1>1, <1>2, <1>5, <2>1
  <2>3. q2 + w2 <= RequestsPerMinute + call
    BY <1>1, <1>5
  <2> QED
    BY <2>2, <2>3 DEF m, c1, w2m, Fits
<1> QED
  BY <1>3, <1>4, <1>5 DEF Fits, Spends

(* The same of a step: q, k and w are what it makes of the state.          *)
LEMMA BudgetStep ==
  ASSUME AgentInv, NEW n \in 0..MaxTokens,
         InWindow(free.requests, Minute)' \in Nat, InWindow(free.tokens, Hour)' \in Nat,
         \/ /\ InWindow(free.requests, Minute)' <= InWindow(free.requests, Minute)
            /\ InWindow(free.tokens, Hour)' <= InWindow(free.tokens, Hour)
            /\ Cardinality(InFlight)' <= Cardinality(InFlight)
         \/ /\ InWindow(free.requests, Minute)' <= InWindow(free.requests, Minute) + 1
            /\ InWindow(free.tokens, Hour)' <= InWindow(free.tokens, Hour) + n
            /\ Cardinality(InFlight)' + 1 = Cardinality(InFlight)
         \/ /\ InWindow(free.requests, Minute)' <= InWindow(free.requests, Minute) + 1
            /\ InWindow(free.tokens, Hour)' <= InWindow(free.tokens, Hour) + n
            /\ InWindow(free.requests, Minute) + 1 <= RequestsPerMinute
            /\ InWindow(free.tokens, Hour) <= TokensPerHour - 1
  PROVE  RequestBudget' /\ TokenBudget'
<1>1. /\ Cardinality(InFlight) \in Nat /\ Cardinality(InFlight)' \in Nat
      /\ Cardinality(InFlight) <= Cardinality(Call) /\ Cardinality(InFlight)' <= Cardinality(Call)
      /\ Cardinality(Call) \in Nat
  <2>1. InFlightBounded /\ InFlightBounded'
    BY InFlightIsNat, PTL
  <2> QED
    BY <2>1 DEF InFlightBounded
<1>2. InWindow(free.requests, Minute) \in Nat /\ InWindow(free.tokens, Hour) \in Nat
  BY WindowIsNat DEF AgentInv, Shape
<1>3. /\ InWindow(free.requests, Minute) + Cardinality(InFlight)
           <= RequestsPerMinute + Cardinality(Call)
      /\ InWindow(free.tokens, Hour) + Cardinality(InFlight) * MaxTokens
           <= TokensPerHour - 1 + (Cardinality(Call) + 1) * MaxTokens
  BY DEF AgentInv, RequestBudget, TokenBudget
<1>4. /\ InWindow(free.requests, Minute)' + Cardinality(InFlight)'
           <= RequestsPerMinute + Cardinality(Call)
      /\ InWindow(free.tokens, Hour)' + Cardinality(InFlight)' * MaxTokens
           <= TokensPerHour - 1 + (Cardinality(Call) + 1) * MaxTokens
  <2> DEFINE q == InWindow(free.requests, Minute)  q2 == InWindow(free.requests, Minute)'
             k == InWindow(free.tokens, Hour)  k2 == InWindow(free.tokens, Hour)'
             w == Cardinality(InFlight)  w2 == Cardinality(InFlight)'
             call == Cardinality(Call)
  <2>1. /\ q \in Nat /\ k \in Nat /\ w \in Nat /\ q2 \in Nat /\ k2 \in Nat /\ w2 \in Nat
        /\ call \in Nat /\ w <= call /\ w2 <= call
        /\ Fits(q, k, w, call)
    BY <1>1, <1>2, <1>3 DEF Fits
  <2>2. Spends(q, k, w, q2, k2, w2, n)
    BY DEF Spends
  <2> HIDE DEF q, q2, k, k2, w, w2, call
  <2>3. Fits(q2, k2, w2, call)
    BY <2>1, <2>2, BudgetSums
  <2> QED
    BY <2>3 DEF Fits, q2, k2, w2, call
<1> QED
  BY <1>4 DEF RequestBudget, TokenBudget

(* Steps that record no inference and await nothing.                       *)
LEMMA FreeUntouched ==
  ASSUME AgentInv, UNCHANGED <<now, inferences, tokens, pending, free>>,
         trainings' \in Counts, credits' \in Counts, RoundsCredited'
  PROVE  AgentInv'
<1>1. Shape' /\ FreeIsRecorded'
  BY DEF AgentInv, Shape, FreeIsRecorded
<1>2. RequestBudget' /\ TokenBudget'
  BY DEF AgentInv, RequestBudget, TokenBudget, InWindow, InFlight
<1> QED
  BY <1>1, <1>2 DEF AgentInv

LEMMA InferStep ==
  ASSUME AgentInv, NEW n \in 0..MaxTokens, Infer(n)
  PROVE  AgentInv'
<1>1. /\ CheckInference /\ CheckTokens /\ RecordInference(n, ~Contributor)
      /\ UNCHANGED <<now, trainings, credits, pending>>
  BY DEF Infer
<1>2. pending' \in [Call -> [waits : BOOLEAN, tokens : 0..MaxTokens, free : BOOLEAN]]
  BY <1>1 DEF AgentInv, Shape
<1>3. Cardinality(InFlight)' = Cardinality(InFlight)
  BY <1>1 DEF InFlight
<1>4. Cardinality(InFlight) \in Nat
  BY InFlightIsNat DEF InFlightBounded
<1>5. InWindow(free.requests, Minute) \in Nat /\ InWindow(free.tokens, Hour) \in Nat
  BY WindowIsNat DEF AgentInv, Shape
<1>6. CASE Contributor
  <2>1. RecordInference(n, FALSE)
    BY <1>1, <1>6 DEF RecordInference
  <2>2. /\ Shape' /\ FreeIsRecorded' /\ RoundsCredited'
        /\ InWindow(free.requests, Minute)' \in Nat /\ InWindow(free.tokens, Hour)' \in Nat
        /\ InWindow(free.requests, Minute)' <= InWindow(free.requests, Minute) + 0
        /\ InWindow(free.tokens, Hour)' <= InWindow(free.tokens, Hour) + 0
    BY <1>1, <1>2, <2>1, RecordStep
  <2>3. RequestBudget' /\ TokenBudget'
    BY <1>3, <1>4, <1>5, <2>2, BudgetStep
  <2> QED
    BY <2>2, <2>3 DEF AgentInv
<1>7. CASE ~Contributor
  <2>1. RecordInference(n, TRUE)
    BY <1>1, <1>7 DEF RecordInference
  <2>2. /\ Shape' /\ FreeIsRecorded' /\ RoundsCredited'
        /\ InWindow(free.requests, Minute)' \in Nat /\ InWindow(free.tokens, Hour)' \in Nat
        /\ InWindow(free.requests, Minute)' <= InWindow(free.requests, Minute) + 1
        /\ InWindow(free.tokens, Hour)' <= InWindow(free.tokens, Hour) + n
    BY <1>1, <1>2, <2>1, RecordStep
  <2>3. RequestBudget' /\ TokenBudget'
    BY <1>1, <1>7, <2>2, FreeAdmission, BudgetStep
  <2> QED
    BY <2>2, <2>3 DEF AgentInv
<1> QED
  BY <1>6, <1>7

LEMMA ReturnStep ==
  ASSUME AgentInv, NEW c \in Call, InferAsyncReturns(c)
  PROVE  AgentInv'
<1>1. /\ pending[c].waits /\ RecordInference(pending[c].tokens, pending[c].free)
      /\ pending' = [pending EXCEPT ![c] = NotWaiting]
      /\ UNCHANGED <<now, trainings, credits>>
  BY DEF InferAsyncReturns
<1>2. /\ pending[c].tokens \in 0..MaxTokens /\ pending[c].free \in BOOLEAN /\ MaxTokens \in Nat
      /\ pending \in [Call -> [waits : BOOLEAN, tokens : 0..MaxTokens, free : BOOLEAN]]
  BY AgentAssumption DEF AgentInv, Shape
<1>3. pending' \in [Call -> [waits : BOOLEAN, tokens : 0..MaxTokens, free : BOOLEAN]]
  BY <1>1, <1>2 DEF NotWaiting
<1>4. InFlight' = InFlight \ {c}
  BY <1>1, <1>2 DEF InFlight, NotWaiting
<1>5. IsFiniteSet(InFlight) /\ Cardinality(InFlight) \in Nat
  BY InFlightIsNat DEF InFlightBounded
<1>6. /\ Shape' /\ FreeIsRecorded' /\ RoundsCredited'
      /\ InWindow(free.requests, Minute)' \in Nat /\ InWindow(free.tokens, Hour)' \in Nat
      /\ InWindow(free.requests, Minute)' <= InWindow(free.requests, Minute)
                                                + (IF pending[c].free THEN 1 ELSE 0)
      /\ InWindow(free.tokens, Hour)' <= InWindow(free.tokens, Hour)
                                                + (IF pending[c].free THEN pending[c].tokens ELSE 0)
  BY <1>1, <1>2, <1>3, RecordStep
<1>7. InWindow(free.requests, Minute) \in Nat /\ InWindow(free.tokens, Hour) \in Nat
  BY WindowIsNat DEF AgentInv, Shape
<1>8. CASE pending[c].free
  <2>1. c \in InFlight
    BY <1>1, <1>8 DEF InFlight
  <2>2. Cardinality(InFlight \ {c}) = Cardinality(InFlight) - 1
    BY <1>5, <2>1, FS_RemoveElement
  <2>3. Cardinality(InFlight)' + 1 = Cardinality(InFlight)
    BY <1>4, <1>5, <2>2
  <2>4. RequestBudget' /\ TokenBudget'
    BY <1>2, <1>6, <1>8, <2>3, BudgetStep
  <2> QED
    BY <1>6, <2>4 DEF AgentInv
<1>9. CASE ~pending[c].free
  <2>1. InFlight' = InFlight
    BY <1>4, <1>9 DEF InFlight
  <2>2. Cardinality(InFlight)' <= Cardinality(InFlight)
    BY <1>5, <2>1
  <2>3. /\ InWindow(free.requests, Minute)' <= InWindow(free.requests, Minute)
        /\ InWindow(free.tokens, Hour)' <= InWindow(free.tokens, Hour)
    BY <1>6, <1>7, <1>9
  <2>4. RequestBudget' /\ TokenBudget'
    BY <1>2, <1>6, <2>2, <2>3, BudgetStep
  <2> QED
    BY <1>6, <2>4 DEF AgentInv
<1> QED
  BY <1>8, <1>9

LEMMA CancelStep ==
  ASSUME AgentInv, NEW c \in Call, InferAsyncCancelled(c)
  PROVE  AgentInv'
<1>1. /\ pending' = [pending EXCEPT ![c] = NotWaiting]
      /\ UNCHANGED <<now, inferences, tokens, trainings, credits, free>>
  BY DEF InferAsyncCancelled, limiter
<1>2. /\ MaxTokens \in Nat
      /\ pending \in [Call -> [waits : BOOLEAN, tokens : 0..MaxTokens, free : BOOLEAN]]
  BY AgentAssumption DEF AgentInv, Shape
<1>3. pending' \in [Call -> [waits : BOOLEAN, tokens : 0..MaxTokens, free : BOOLEAN]]
  BY <1>1, <1>2 DEF NotWaiting
<1>4. Shape' /\ FreeIsRecorded' /\ RoundsCredited'
  BY <1>1, <1>3 DEF AgentInv, Shape, FreeIsRecorded, RoundsCredited
<1>5. /\ InWindow(free.requests, Minute)' = InWindow(free.requests, Minute)
      /\ InWindow(free.tokens, Hour)' = InWindow(free.tokens, Hour)
  BY <1>1 DEF InWindow
<1>6. InWindow(free.requests, Minute) \in Nat /\ InWindow(free.tokens, Hour) \in Nat
  BY WindowIsNat DEF AgentInv, Shape
<1>7. Cardinality(InFlight)' <= Cardinality(InFlight)
  <2>1. InFlight' \in SUBSET InFlight
    BY <1>1, <1>2 DEF InFlight, NotWaiting
  <2>2. IsFiniteSet(InFlight)
    BY InFlightIsNat DEF InFlightBounded
  <2> QED
    BY <2>1, <2>2, FS_Subset
<1>8. RequestBudget' /\ TokenBudget'
  BY <1>2, <1>5, <1>6, <1>7, BudgetStep
<1> QED
  BY <1>4, <1>8 DEF AgentInv

LEMMA AsyncStep ==
  ASSUME AgentInv, NEW c \in Call, NEW n \in Tokens, InferAsync(c, n)
  PROVE  AgentInv'
<1>1. /\ ~pending[c].waits /\ CheckInference /\ CheckTokens
      /\ pending' = [pending EXCEPT ![c] = [waits |-> TRUE, tokens |-> n, free |-> ~Contributor]]
      /\ UNCHANGED <<now, inferences, tokens, trainings, credits, free>>
  BY DEF InferAsync, limiter
<1>2. n \in 0..MaxTokens /\ MaxTokens \in Nat /\ n \in Nat
  BY AgentAssumption
<1>3. pending \in [Call -> [waits : BOOLEAN, tokens : 0..MaxTokens, free : BOOLEAN]]
  BY DEF AgentInv, Shape
<1>4. pending' \in [Call -> [waits : BOOLEAN, tokens : 0..MaxTokens, free : BOOLEAN]]
  BY <1>1, <1>2, <1>3
<1>5. Shape' /\ FreeIsRecorded' /\ RoundsCredited'
  BY <1>1, <1>4 DEF AgentInv, Shape, FreeIsRecorded, RoundsCredited
<1>6. /\ InWindow(free.requests, Minute)' = InWindow(free.requests, Minute)
      /\ InWindow(free.tokens, Hour)' = InWindow(free.tokens, Hour)
  BY <1>1 DEF InWindow
<1>7. InWindow(free.requests, Minute) \in Nat /\ InWindow(free.tokens, Hour) \in Nat
  BY WindowIsNat DEF AgentInv, Shape
<1>8. Cardinality(InFlight) \in Nat
  BY InFlightIsNat DEF InFlightBounded
<1>9. CASE Contributor
  <2>1. InFlight' = InFlight
    BY <1>1, <1>3, <1>9 DEF InFlight
  <2>2. /\ InWindow(free.requests, Minute)' \in Nat /\ InWindow(free.tokens, Hour)' \in Nat
        /\ InWindow(free.requests, Minute)' <= InWindow(free.requests, Minute)
        /\ InWindow(free.tokens, Hour)' <= InWindow(free.tokens, Hour)
        /\ Cardinality(InFlight)' <= Cardinality(InFlight)
    BY <1>6, <1>7, <1>8, <2>1
  <2>3. RequestBudget' /\ TokenBudget'
    BY <1>2, <2>2, BudgetStep
  <2> QED
    BY <1>5, <2>3 DEF AgentInv
<1>10. CASE ~Contributor
  <2>1. /\ InWindow(free.requests, Minute) + 1 <= RequestsPerMinute
        /\ InWindow(free.tokens, Hour) <= TokensPerHour - 1
    BY <1>1, <1>10, FreeAdmission
  <2>2. /\ InWindow(free.requests, Minute)' \in Nat /\ InWindow(free.tokens, Hour)' \in Nat
        /\ InWindow(free.requests, Minute)' <= InWindow(free.requests, Minute) + 1
        /\ InWindow(free.tokens, Hour)' <= InWindow(free.tokens, Hour) + n
    BY <1>2, <1>6, <1>7
  <2>3. RequestBudget' /\ TokenBudget'
    BY <1>2, <2>1, <2>2, BudgetStep
  <2> QED
    BY <1>5, <2>3 DEF AgentInv
<1> QED
  BY <1>9, <1>10

(* Rounds are credited by the time they count.                             *)
LEMMA CreditStep ==
  ASSUME AgentInv, NEW rounds \in Nat, Train(rounds) \/ VoteArchitecture
  PROVE  AgentInv'
<1>1. /\ now \in Time /\ trainings \in Counts /\ credits \in Counts
      /\ TrainingCredits \in Nat /\ VoteCredits \in Nat
      /\ \A t \in Time : credits[t] >= TrainingCredits * trainings[t]
  BY AgentAssumption DEF AgentInv, Shape, RoundsCredited
<1>2. \A a, b, m \in Nat : m * (a + b) = m * a + m * b /\ m * a \in Nat
  OBVIOUS
<1>3. CASE Train(rounds)
  <2>1. /\ UNCHANGED <<now, inferences, tokens, pending, free>>
        /\ trainings' = Add(trainings, rounds)
        /\ credits' = Add(credits, TrainingCredits * rounds)
    BY <1>3 DEF Train
  <2>2. TrainingCredits * rounds \in Nat
    BY <1>1, <1>2
  <2>3. trainings' \in Counts /\ credits' \in Counts
    BY <1>1, <2>1, <2>2, WindowAdds
  <2>4. ASSUME NEW t \in Time
        PROVE  credits'[t] >= TrainingCredits * trainings'[t]
    <3>1. CASE t = now
      <4>1. /\ trainings'[t] = trainings[t] + rounds
            /\ credits'[t] = credits[t] + TrainingCredits * rounds
        BY <1>1, <2>1, <3>1 DEF Add, Counts
      <4>2. /\ trainings[t] \in Nat /\ credits[t] \in Nat
            /\ credits[t] >= TrainingCredits * trainings[t]
        BY <1>1 DEF Counts
      <4>3. /\ TrainingCredits * (trainings[t] + rounds) =
                 TrainingCredits * trainings[t] + TrainingCredits * rounds
            /\ TrainingCredits * trainings[t] \in Nat
        BY <1>1, <1>2, <4>2
      <4> QED
        BY <2>2, <4>1, <4>2, <4>3
    <3>2. CASE t # now
      BY <1>1, <2>1, <3>2 DEF Add, Counts
    <3> QED
      BY <3>1, <3>2
  <2> QED
    BY <2>1, <2>3, <2>4, FreeUntouched DEF RoundsCredited
<1>4. CASE VoteArchitecture
  <2>1. /\ UNCHANGED <<now, inferences, tokens, trainings, pending, free>>
        /\ credits' = Add(credits, VoteCredits)
    BY <1>4 DEF VoteArchitecture, limiter
  <2>2. credits' \in Counts
    BY <1>1, <2>1, WindowAdds
  <2>3. ASSUME NEW t \in Time
        PROVE  credits'[t] >= TrainingCredits * trainings'[t]
    <3>1. /\ credits[t] \in Nat /\ trainings[t] \in Nat /\ trainings'[t] = trainings[t]
          /\ TrainingCredits * trainings[t] \in Nat /\ credits[t] >= TrainingCredits * trainings[t]
      BY <1>1, <1>2, <2>1 DEF Counts
    <3>2. credits'[t] = credits[t] \/ credits'[t] = credits[t] + VoteCredits
      BY <1>1, <2>1 DEF Add, Counts
    <3> QED
      BY <1>1, <3>1, <3>2
  <2> QED
    BY <1>1, <2>1, <2>2, <2>3, FreeUntouched DEF RoundsCredited
<1> QED
  BY <1>3, <1>4

LEMMA TickStep ==
  ASSUME AgentInv, Tick
  PROVE  AgentInv'
<1>1. /\ now \in Nat /\ now \in Time /\ now' = now + 1 /\ now' \in Time
      /\ UNCHANGED <<inferences, tokens, trainings, credits, pending, free>>
  BY AgentAssumption DEF AgentInv, Shape, Tick, limiter, Time
<1>2. Shape' /\ RoundsCredited'
  BY <1>1 DEF AgentInv, Shape, RoundsCredited
<1>3. FreeIsRecorded'
  <2>1. \A t \in Time : t > now + 1 => t > now
    BY <1>1, TimeIsFinite
  <2> QED
    BY <1>1, <2>1 DEF AgentInv, FreeIsRecorded
<1>4. /\ free.requests \in Counts /\ free.tokens \in Counts /\ Minute \in Nat /\ Hour \in Nat
      /\ \A t \in Time : t > now => free.requests[t] = 0 /\ free.tokens[t] = 0
  BY AgentAssumption DEF AgentInv, Shape, FreeIsRecorded
<1>5. InWindow(free.requests, Minute)' <= InWindow(free.requests, Minute)
  <2>1. Total(free.requests, {t \in Time : t > (now + 1) - Minute /\ t <= now + 1})
          <= InWindow(free.requests, Minute)
    BY <1>1, <1>4, WindowMoves
  <2> QED
    BY <1>1, <2>1 DEF InWindow
<1>6. InWindow(free.tokens, Hour)' <= InWindow(free.tokens, Hour)
  <2>1. Total(free.tokens, {t \in Time : t > (now + 1) - Hour /\ t <= now + 1})
          <= InWindow(free.tokens, Hour)
    BY <1>1, <1>4, WindowMoves
  <2> QED
    BY <1>1, <2>1 DEF InWindow
<1>7. InWindow(free.requests, Minute)' \in Nat /\ InWindow(free.tokens, Hour)' \in Nat
  <2>1. (\A a \in Counts : \A window : InWindow(a, window) \in Nat)'
    BY WindowsAreNat, PTL
  <2> QED
    BY <1>1, <1>4, <2>1 DEF InWindow
<1>8. Cardinality(InFlight)' = Cardinality(InFlight) /\ Cardinality(InFlight) \in Nat
  BY <1>1, InFlightIsNat DEF InFlight, InFlightBounded
<1>9. 0 \in 0..MaxTokens
  BY AgentAssumption
<1>10. RequestBudget' /\ TokenBudget'
  BY <1>5, <1>6, <1>7, <1>8, <1>9, BudgetStep
<1> QED
  BY <1>2, <1>3, <1>10 DEF AgentInv

LEMMA AgentStep ==
  ASSUME AgentInv, [Next]_vars
  PROVE  AgentInv'
<1>1. /\ Tokens \subseteq 0..MaxTokens /\ 0 \in 0..MaxTokens /\ DefaultTokens \in Tokens
      /\ trainings \in Counts /\ credits \in Counts /\ RoundsCredited
  BY AgentAssumption DEF AgentInv, Shape
<1>2. ASSUME Contribute \/ Leave \/ Evolve \/ UNCHANGED vars
      PROVE  AgentInv'
  <2>1. UNCHANGED <<now, inferences, tokens, trainings, credits, pending, free>>
    BY <1>2 DEF Contribute, Leave, Evolve, vars, limiter
  <2> QED
    BY <1>1, <2>1, FreeUntouched DEF RoundsCredited
<1>3. ASSUME NEW n \in Tokens \cup {0},
             HandleChatCompletions(n) \/ HandleCompletions(n) \/ Infer(n)
      PROVE  AgentInv'
  <2>1. n \in 0..MaxTokens /\ (IF n = 0 THEN DefaultTokens ELSE n) \in 0..MaxTokens
    BY <1>1, <1>3
  <2> QED
    BY <1>3, <2>1, InferStep DEF HandleChatCompletions, HandleCompletions
<1>4. ASSUME NEW c \in Call, NEW n \in Tokens, InferAsync(c, n)
      PROVE  AgentInv'
  BY <1>4, AsyncStep
<1>5. ASSUME NEW c \in Call, InferAsyncReturns(c)
      PROVE  AgentInv'
  BY <1>5, ReturnStep
<1>6. ASSUME NEW c \in Call, InferAsyncCancelled(c)
      PROVE  AgentInv'
  BY <1>6, CancelStep
<1>7. ASSUME NEW rounds \in 1..2, Train(rounds)
      PROVE  AgentInv'
  BY <1>7, CreditStep
<1>8. ASSUME VoteArchitecture
      PROVE  AgentInv'
  BY <1>8, CreditStep
<1>9. ASSUME Tick
      PROVE  AgentInv'
  BY <1>9, TickStep
<1> QED
  BY <1>2, <1>3, <1>4, <1>5, <1>6, <1>7, <1>8, <1>9 DEF Next

-----------------------------------------------------------------------------
(* The budgets of the free tier hold with every call that has been         *)
(* admitted as free and is still awaited counted against them.             *)
THEOREM AgentSafety == Spec => []AgentInv
<1>1. Init => AgentInv
  BY AgentStarts
<1>2. AgentInv /\ [Next]_vars => AgentInv'
  BY AgentStep
<1> QED
  BY <1>1, <1>2, PTL DEF Spec

(* "Free-tier agents are limited to 10 requests/minute": coroutines that   *)
(* are admitted before others have recorded exceed the limit of            *)
(* check_inference, by at most one request each, whatever their number.    *)
THEOREM RequestsAreBounded == Spec => []FreeRequestsBounded
<1>1. AgentInv => FreeRequestsBounded
  <2> SUFFICES ASSUME AgentInv PROVE FreeRequestsBounded
    OBVIOUS
  <2>1. InWindow(free.requests, Minute) \in Nat
    BY WindowIsNat DEF AgentInv, Shape
  <2>2. Cardinality(InFlight) \in Nat /\ Cardinality(Call) \in Nat /\ RequestsPerMinute \in Nat
    BY InFlightIsNat, AgentAssumption DEF InFlightBounded
  <2>3. InWindow(free.requests, Minute) + Cardinality(InFlight)
          <= RequestsPerMinute + Cardinality(Call)
    BY DEF AgentInv, RequestBudget
  <2> QED
    BY <2>1, <2>2, <2>3 DEF FreeRequestsBounded
<1> QED
  BY <1>1, AgentSafety, PTL

(* "... and 5000 tokens/hour": the budget check_inference tests before the *)
(* inference is overdrawn by at most the largest max_tokens for the last   *)
(* request and for each coroutine.                                         *)
THEOREM TokensAreBounded == Spec => []FreeTokensBounded
<1>1. AgentInv => FreeTokensBounded
  <2> SUFFICES ASSUME AgentInv PROVE FreeTokensBounded
    OBVIOUS
  <2> DEFINE spent == InWindow(free.tokens, Hour)
             ahead == Cardinality(InFlight) * MaxTokens
             slack == (Cardinality(Call) + 1) * MaxTokens
  <2>1. spent \in Nat
    BY WindowIsNat DEF AgentInv, Shape
  <2>2. ahead \in Nat /\ slack \in Nat /\ TokensPerHour \in Nat
    BY InFlightIsNat, Products, AgentAssumption DEF InFlightBounded
  <2>3. spent + ahead <= TokensPerHour - 1 + slack
    BY DEF AgentInv, TokenBudget
  <2> HIDE DEF spent, ahead, slack
  <2>4. spent <= TokensPerHour - 1 + slack
    BY <2>1, <2>2, <2>3
  <2> QED
    BY <2>4 DEF spent, slack, FreeTokensBounded
<1> QED
  BY <1>1, AgentSafety, PTL

(* What an agent that does not contribute gets is bounded in requests and  *)
(* in tokens, by the limits and what the coroutines can have in flight.    *)
THEOREM FreeTierIsBounded == Spec => []FreeTierBounded
<1>1. FreeRequestsBounded /\ FreeTokensBounded => FreeTierBounded
  BY DEF FreeTierBounded
<1> QED
  BY <1>1, RequestsAreBounded, TokensAreBounded, PTL

(* "Free-tier agents can join up to 2 rounds/day" never refuses anybody:   *)
(* the credits of one round in the window make its agent a contributor,    *)
(* for any decay with a half-life of no less than the window.              *)
THEOREM TrainersContribute == Spec => []TrainingNeverRefused
<1>1. AgentInv => TrainingNeverRefused
  <2> SUFFICES ASSUME AgentInv, InWindow(trainings, Day) > 0
               PROVE  EffectiveCredits >= Threshold * Unit
    BY DEF TrainingNeverRefused, Contributor
  <2>1. /\ now \in Time /\ now \in Nat /\ MaxTime \in Nat /\ Day \in Nat
        /\ trainings \in Counts /\ credits \in Counts /\ Weight \in [Time -> Nat]
    BY TimeIsFinite, AgentAssumption DEF AgentInv, Shape
  <2>2. Covers(trainings, Window(Day)) /\ Window(Day) \in SUBSET Time
    BY <2>1 DEF Covers, Counts, Window
  <2>3. PICK t \in Window(Day) : trainings[t] > 0
    BY <2>2, PositiveTotal DEF InWindow, Window
  <2>4. t \in Time /\ t \in 0..now /\ now - t \in Time /\ now - t <= Day
    BY <2>1, <2>3, TimeIsFinite DEF Window, Time
  <2> DEFINE earned == credits[t]
             weight == Weight[now - t]
             terms == [u \in 0..now |-> credits[u] * Weight[now - u]]
  <2>5. /\ earned \in Nat /\ weight \in Nat /\ 2 * weight >= Unit
        /\ trainings[t] \in Nat \ {0} /\ earned >= TrainingCredits * trainings[t]
    BY <2>1, <2>3, <2>4, AgentAssumption DEF Counts, AgentInv, RoundsCredited
  <2>6. /\ TrainingCredits \in Nat /\ Threshold \in Nat /\ Unit \in Nat
        /\ TrainingCredits >= 2 * Threshold
    BY AgentAssumption
  <2>7. earned >= 2 * Threshold
    <3>1. \A a, m \in Nat : m # 0 => a * m >= a /\ a * m \in Nat
      OBVIOUS
    <3>2. TrainingCredits * trainings[t] >= TrainingCredits
      BY <2>5, <2>6, <3>1
    <3>3. TrainingCredits * trainings[t] \in Nat
      BY <2>5, <2>6, <3>1
    <3> HIDE DEF earned
    <3> QED
      BY <2>5, <2>6, <3>2, <3>3
  <2>8. earned * weight >= Threshold * Unit
    <3>1. \A e, w, h, u \in Nat : e >= 2 * h /\ 2 * w >= u => e * w >= h * u
      <4> SUFFICES ASSUME NEW e \in Nat, NEW w \in Nat, NEW h \in Nat, NEW u \in Nat,
                          e >= 2 * h, 2 * w >= u
                   PROVE  e * w >= h * u
        OBVIOUS
      <4>1. e * w >= (2 * h) * w
        BY Products
      <4>2. (2 * h) * w = (2 * w) * h
        OBVIOUS
      <4>3. (2 * w) * h >= u * h
        BY Products
      <4>4. u * h = h * u
        OBVIOUS
      <4> QED
        BY <4>1, <4>2, <4>3, <4>4
    <3> HIDE DEF earned, weight
    <3> QED
      BY <2>5, <2>6, <2>7, <3>1
  <2>9. 0..now \in SUBSET Time /\ Covers(terms, 0..now)
    <3>1. 0..now \in SUBSET Time
      BY <2>1 DEF Time
    <3>2. ASSUME NEW u \in 0..now PROVE credits[u] * Weight[now - u] \in Nat
      <4>1. u \in Time /\ now - u \in Time
        BY <2>1, <3>2 DEF Time
      <4>2. credits[u] \in Nat /\ Weight[now - u] \in Nat
        BY <2>1, <4>1 DEF Counts
      <4> QED
        BY <4>2, Products
    <3> QED
      BY <3>1, <3>2 DEF Covers
  <2>10. terms[t] = earned * weight /\ Total(terms, 0..now) = EffectiveCredits
    BY <2>4 DEF EffectiveCredits
  <2>11. terms[t] <= Total(terms, 0..now) /\ Total(terms, 0..now) \in Nat
    <3> HIDE DEF terms
    <3> QED
      BY <2>4, <2>9, TermInTotal, TotalIsNat
  <2>12. earned * weight \in Nat /\ Threshold * Unit \in Nat
    BY <2>5, <2>6, Products
  <2> QED
    BY <2>8, <2>10, <2>11, <2>12
<1> QED
  BY <1>1, AgentSafety, PTL
=============================================================================
