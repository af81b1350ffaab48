----------------------------- MODULE ListProofs -----------------------------
(***************************************************************************)
(* Inductions over finite lists and sets, for any list: the least number   *)
(* principle takes the place of an induction rule with a predicate as its  *)
(* parameter.                                                              *)
(***************************************************************************)
EXTENDS Lists, FiniteSetTheorems, SequenceTheorems, WellFoundedInduction, TLAPS

(* Naturals are well-founded: a set of them has a least member.            *)
LEMMA LeastNatural ==
  ASSUME NEW S \in SUBSET Nat, S # {}
  PROVE  \E x \in S : \A y \in S : x <= y
<1> DEFINE R == {ss \in Nat \X Nat : ss[1] < ss[2]}
<1>1. IsWellFoundedOn(R, Nat)
  BY NatLessThanWellFounded, Zenon DEF OpToRel
<1>2. S \subseteq Nat
  OBVIOUS
<1> HIDE DEF R
<1>3. PICK x \in S : \A y \in S : ~(<<y, x>> \in R)
  BY <1>1, <1>2, WFMin, Zenon
<1>4. \A y \in S : ~(y < x)
  BY <1>3 DEF R
<1> QED
  BY <1>4

(* Of finitely many numbers one is the greatest, one the least.            *)
LEMMA GreatestBounded ==
  ASSUME NEW n \in Nat, NEW S \in SUBSET (0..n), S # {}
  PROVE  \E x \in S : \A y \in S : y <= x
<1> DEFINE T == {n - x : x \in S}
<1>0. \A x \in S : n - x \in Nat
  OBVIOUS
<1>1. T \in SUBSET Nat /\ T # {}
  BY <1>0
<1> HIDE DEF T
<1>2. PICK t \in T : \A u \in T : t <= u
  BY <1>1, LeastNatural
<1> USE DEF T
<1>3. PICK x \in S : t = n - x
  OBVIOUS
<1>4. ASSUME NEW y \in S  PROVE y <= x
  <2>1. n - y \in T
    OBVIOUS
  <2>2. n - x <= n - y
    BY <1>2, <1>3, <2>1
  <2> QED
    BY <2>2
<1> QED
  BY <1>4

-----------------------------------------------------------------------------
(* How many members of D have a value up to that of d.                     *)
Count(D, v, d) == Cardinality({e \in D : v[e] <= v[d]})
Lower(D, v, d) == {e \in D : v[e] < v[d]}

LEMMA CountGrows ==
  ASSUME NEW D, IsFiniteSet(D), NEW v \in [D -> Int]
  PROVE  /\ \A d \in D : Count(D, v, d) \in 1..Cardinality(D)
         /\ \A d, e \in D : v[e] <= v[d] => Count(D, v, e) <= Count(D, v, d)
         /\ \A d, e \in D : v[e] < v[d] => Count(D, v, e) < Count(D, v, d)
<1> DEFINE up(d) == {e \in D : v[e] <= v[d]}
<1>1. \A d \in D : up(d) \in SUBSET D /\ d \in up(d)
  OBVIOUS
<1>2. \A d, e \in D : v[e] <= v[d] => up(e) \in SUBSET up(d)
  OBVIOUS
<1>3. \A d, e \in D : v[e] < v[d] => d \notin up(e)
  OBVIOUS
<1>4. \A d \in D : Count(D, v, d) = Cardinality(up(d))
  BY DEF Count
<1>5. Cardinality(D) \in Nat
  BY FS_CardinalityType
<1> HIDE DEF up
<1>6. \A d \in D : /\ IsFiniteSet(up(d)) /\ Cardinality(up(d)) \in Nat
                   /\ Cardinality(up(d)) <= Cardinality(D) /\ Cardinality(up(d)) # 0
  BY <1>1, FS_Subset, FS_CardinalityType, FS_EmptySet
<1>7. ASSUME NEW d \in D, NEW e \in D
      PROVE  /\ v[e] <= v[d] => Cardinality(up(e)) <= Cardinality(up(d))
             /\ v[e] < v[d] => Cardinality(up(e)) < Cardinality(up(d))
  <2>1. v[e] <= v[d] => up(e) \in SUBSET up(d)
    BY <1>2
  <2>2. v[e] < v[d] => v[e] <= v[d] /\ up(e) # up(d)
    BY <1>1, <1>3
  <2>3. IsFiniteSet(up(d))
    BY <1>6
  <2>4. \A S \in SUBSET up(d) : /\ Cardinality(S) <= Cardinality(up(d))
                                /\ (Cardinality(S) = Cardinality(up(d)) => S = up(d))
    BY <2>3, FS_Subset
  <2>5. Cardinality(up(d)) \in Nat /\ Cardinality(up(e)) \in Nat
    BY <1>6
  <2> QED
    BY <2>1, <2>2, <2>4, <2>5
<1> QED
  BY <1>4, <1>5, <1>6, <1>7

LEMMA GreatestOf ==
  ASSUME NEW D, IsFiniteSet(D), NEW v \in [D -> Int], NEW L \in SUBSET D, L # {}
  PROVE  \E d \in L : \A e \in L : v[e] <= v[d]
<1> DEFINE S == {Count(D, v, d) : d \in L}
<1>1. Cardinality(D) \in Nat
  BY FS_CardinalityType
<1>2. \A d \in L : Count(D, v, d) \in 1..Cardinality(D)
  BY CountGrows
<1>3. S \in SUBSET (0..Cardinality(D)) /\ S # {}
  BY <1>1, <1>2
<1> HIDE DEF S
<1>4. PICK c \in S : \A b \in S : b <= c
  BY <1>1, <1>3, GreatestBounded
<1>5. PICK d \in L : c = Count(D, v, d)
  BY DEF S
<1>6. \A e \in L : Count(D, v, e) <= Count(D, v, d)
  BY <1>4, <1>5 DEF S
<1>7. \A e \in L : v[d] < v[e] => Count(D, v, d) < Count(D, v, e)
  BY CountGrows
<1>8. \A e \in L : Count(D, v, e) \in Nat /\ Count(D, v, d) \in Nat
  BY <1>1, <1>2
<1>9. \A e \in L : ~(v[d] < v[e])
  BY <1>6, <1>7, <1>8
<1> QED
  BY <1>9

LEMMA LeastOf ==
  ASSUME NEW D, IsFiniteSet(D), NEW v \in [D -> Int], NEW L \in SUBSET D, L # {}
  PROVE  \E d \in L : \A e \in L : v[d] <= v[e]
<1> DEFINE w == [d \in D |-> 0 - v[d]]
<1>1. w \in [D -> Int] /\ \A d \in D : w[d] = 0 - v[d]
  OBVIOUS
<1> HIDE DEF w
<1>2. PICK d \in L : \A e \in L : w[e] <= w[d]
  BY <1>1, GreatestOf
<1> QED
  BY <1>1, <1>2

(* Whatever numbers the members of a finite set have, at each place of     *)
(* their order there is one.                                               *)
LEMMA OrderStatistic ==
  ASSUME NEW D, IsFiniteSet(D), NEW v \in [D -> Int], NEW k \in 1..Cardinality(D)
  PROVE  \E d \in D : Cardinality(Lower(D, v, d)) < k /\ k <= Count(D, v, d)
<1> DEFINE good == {d \in D : k <= Count(D, v, d)}
<1>0. Cardinality(D) \in Nat /\ k \in Nat /\ 1 <= k /\ k <= Cardinality(D)
  BY FS_CardinalityType
<1>1. good # {}
  <2>1. D # {}
    BY <1>0, FS_EmptySet
  <2>2. PICK d \in D : \A e \in D : v[e] <= v[d]
    BY <2>1, GreatestOf
  <2>3. {e \in D : v[e] <= v[d]} = D
    BY <2>2
  <2>4. Count(D, v, d) = Cardinality(D)
    BY <2>3 DEF Count
  <2> QED
    BY <1>0, <2>4
<1>2. good \in SUBSET D
  OBVIOUS
<1> HIDE DEF good
<1>3. PICK d \in good : \A e \in good : v[d] <= v[e]
  BY <1>1, <1>2, LeastOf
<1>4. d \in D /\ k <= Count(D, v, d)
  BY <1>2 DEF good
<1> DEFINE L == Lower(D, v, d)
<1>5. L \in SUBSET D /\ \A e \in L : v[e] < v[d]
  BY DEF Lower
<1>6. Cardinality(L) \in Nat
  BY <1>5, FS_Subset, FS_CardinalityType
<1>7. CASE L = {}
  BY <1>0, <1>4, <1>7, FS_EmptySet
<1>8. CASE L # {}
  <2>1. PICK g \in L : \A e \in L : v[e] <= v[g]
    BY <1>5, <1>8, GreatestOf
  <2>2. g \in D /\ v[g] < v[d] /\ v[g] \in Int /\ v[d] \in Int
    BY <1>4, <1>5
  <2>3. \A e \in D : v[e] <= v[g] <=> e \in L
    BY <2>1, <2>2 DEF Lower
  <2>4. {e \in D : v[e] <= v[g]} = L
    BY <1>5, <2>3
  <2>5. Count(D, v, g) = Cardinality(L)
    BY <2>4 DEF Count
  <2>6. g \notin good
    BY <1>3, <2>2
  <2>7. ~(k <= Cardinality(L))
    BY <2>2, <2>5, <2>6 DEF good
  <2> QED
    BY <1>0, <1>4, <1>6, <2>7
<1> QED
  BY <1>7, <1>8

-----------------------------------------------------------------------------
(* A set of numbers in order.                                              *)
LEMMA RankReached ==
  ASSUME NEW S \in SUBSET Int, IsFiniteSet(S), NEW k \in 1..Cardinality(S)
  PROVE  \E x \in S : Rank(S, x) = k
<1> DEFINE v == [x \in S |-> x]
<1>1. v \in [S -> Int] /\ \A x \in S : v[x] = x
  OBVIOUS
<1> HIDE DEF v
<1>2. PICK x \in S : Cardinality(Lower(S, v, x)) < k /\ k <= Count(S, v, x)
  BY <1>1, OrderStatistic
<1> DEFINE L == Lower(S, v, x)
<1>3. L \in SUBSET S /\ x \notin L
  BY <1>1 DEF Lower
<1>4. {y \in S : v[y] <= v[x]} = {y \in S : y <= x}
  BY <1>1
<1>5. \A y \in S : y <= x <=> y \in L \/ y = x
  BY <1>1 DEF Lower
<1>6. {y \in S : y <= x} = L \cup {x}
  BY <1>3, <1>5
<1> HIDE DEF L
<1>7. IsFiniteSet(L) /\ Cardinality(L) \in Nat
  BY <1>3, FS_Subset, FS_CardinalityType
<1>8. Rank(S, x) = Cardinality(L) + 1 /\ Count(S, v, x) = Rank(S, x)
  BY <1>3, <1>4, <1>6, <1>7, FS_AddElement DEF Rank, Count
<1>9. Cardinality(L) < k /\ k <= Cardinality(L) + 1 /\ k \in Nat
  BY <1>2, <1>8 DEF L
<1> QED
  BY <1>7, <1>8, <1>9

LEMMA InOrderIsOrder ==
  ASSUME NEW S \in SUBSET Int, IsFiniteSet(S)
  PROVE  /\ Cardinality(S) \in Nat
         /\ InOrder(S) \in [1..Cardinality(S) -> S]
         /\ \A k, l \in 1..Cardinality(S) : k < l => InOrder(S)[k] < InOrder(S)[l]
         /\ \A x \in S : \E k \in 1..Cardinality(S) : InOrder(S)[k] = x
<1> DEFINE size == Cardinality(S)
           f == InOrder(S)
           v == [x \in S |-> x]
<1>1. size \in Nat
  BY FS_CardinalityType
<1>2. \A k \in 1..size : f[k] \in S /\ Rank(S, f[k]) = k
  BY RankReached DEF InOrder
<1>3. f \in [1..size -> S]
  BY <1>2 DEF InOrder
<1> HIDE DEF f
<1>4. /\ \A x \in S : Rank(S, x) \in 1..size
      /\ \A x, y \in S : y < x => Rank(S, y) < Rank(S, x)
  <2>1. v \in [S -> Int] /\ \A x \in S : v[x] = x
    OBVIOUS
  <2> HIDE DEF v
  <2>2. \A x \in S : {y \in S : v[y] <= v[x]} = {y \in S : y <= x}
    BY <2>1
  <2>3. \A x \in S : Count(S, v, x) = Rank(S, x)
    BY <2>2 DEF Count, Rank
  <2>4. /\ \A x \in S : Count(S, v, x) \in 1..size
        /\ \A x, y \in S : v[y] < v[x] => Count(S, v, y) < Count(S, v, x)
    BY <2>1, CountGrows
  <2> QED
    BY <2>1, <2>3, <2>4
<1>5. ASSUME NEW x \in S, NEW y \in S, Rank(S, x) = Rank(S, y)  PROVE x = y
  <2>1. Rank(S, x) \in Int /\ x \in Int /\ y \in Int
    BY <1>4
  <2>2. ~(x < y) /\ ~(y < x)
    BY <1>4, <1>5, <2>1
  <2> QED
    BY <2>1, <2>2
<1>6. ASSUME NEW x \in S  PROVE \E k \in 1..size : f[k] = x
  <2>1. Rank(S, x) \in 1..size
    BY <1>4
  <2>2. f[Rank(S, x)] = x
    BY <1>2, <1>5, <2>1
  <2> QED
    BY <2>1, <2>2
<1>7. ASSUME NEW k \in 1..size, NEW l \in 1..size, k < l  PROVE f[k] < f[l]
  <2>1. f[k] \in S /\ f[l] \in S /\ Rank(S, f[k]) = k /\ Rank(S, f[l]) = l
    BY <1>2
  <2>0. k \in Int /\ l \in Int /\ k # l
    BY <1>1, <1>7
  <2>2. f[k] \in Int /\ f[l] \in Int
    BY <2>1
  <2>3. f[l] < f[k] => l < k
    BY <1>4, <2>1
  <2>4. ~(l < k) /\ f[k] # f[l]
    BY <1>7, <2>0, <2>1
  <2> QED
    BY <2>2, <2>3, <2>4
<1> QED
  BY <1>1, <1>3, <1>6, <1>7 DEF f

(* What is selected from a list without repetitions is a list without them. *)
LEMMA SelectedList ==
  ASSUME NEW T, NEW s \in Seq(T), IsInjective(s), NEW S
  PROVE  /\ Selected(s, S) \in Seq(T) /\ IsInjective(Selected(s, S))
         /\ ToSet(Selected(s, S)) = ToSet(s) \cap S
<1> DEFINE places == {i \in DOMAIN s : s[i] \in S}
           at == InOrder(places)
           size == Cardinality(places)
           new == [k \in DOMAIN at |-> s[at[k]]]
<1>1. Len(s) \in Nat /\ DOMAIN s = 1..Len(s) /\ \A i \in DOMAIN s : s[i] \in T
  OBVIOUS
<1>2. places \in SUBSET (1..Len(s)) /\ places \in SUBSET Int
  BY <1>1
<1>3. /\ size \in Nat /\ at \in [1..size -> places]
      /\ \A k, l \in 1..size : k < l => at[k] < at[l]
      /\ \A i \in places : \E k \in 1..size : at[k] = i
  <2> HIDE DEF places
  <2>0. IsFiniteSet(1..Len(s))
    BY <1>1, FS_Interval
  <2>1. IsFiniteSet(places)
    BY <1>2, <2>0, FS_Subset
  <2> QED
    BY <1>2, <2>1, InOrderIsOrder
<1>4. Selected(s, S) = new
  BY DEF Selected
<1>5. \A i \in places : i \in DOMAIN s /\ s[i] \in S
  OBVIOUS
<1>6. \A i \in DOMAIN s : s[i] \in S => i \in places
  OBVIOUS
<1> HIDE DEF places, at, size
<1>7. /\ DOMAIN new = 1..size
      /\ \A k \in 1..size : new[k] = s[at[k]] /\ at[k] \in DOMAIN s /\ s[at[k]] \in S
  BY <1>3, <1>5
<1>8. new \in Seq(T)
  BY <1>1, <1>3, <1>7
<1> HIDE DEF new
<1>9. IsInjective(new)
  <2> SUFFICES ASSUME NEW i \in 1..size, NEW j \in 1..size, new[i] = new[j]  PROVE i = j
    BY <1>7 DEF IsInjective
  <2>1. at[i] = at[j]
    BY <1>7 DEF IsInjective
  <2>2. at[i] \in Int /\ i \in Int /\ j \in Int
    BY <1>1, <1>3, <1>7
  <2>3. (i < j => at[i] < at[j]) /\ (j < i => at[j] < at[i])
    BY <1>3
  <2> QED
    BY <2>1, <2>2, <2>3
<1>10. ToSet(new) = ToSet(s) \cap S
  <2>1. \A x \in ToSet(new) : x \in ToSet(s) /\ x \in S
    BY <1>7 DEF ToSet
  <2>2. ASSUME NEW x \in ToSet(s), x \in S  PROVE x \in ToSet(new)
    <3>1. PICK i \in DOMAIN s : s[i] = x
      BY DEF ToSet
    <3>2. PICK k \in 1..size : at[k] = i
      BY <1>3, <1>6, <2>2, <3>1
    <3> QED
      BY <1>7, <3>1, <3>2 DEF ToSet
  <2> QED
    BY <2>1, <2>2
<1> QED
  BY <1>4, <1>8, <1>9, <1>10

(* A list without repetitions is as long as the set of its elements.       *)
LEMMA LengthOfInjective ==
  ASSUME NEW T, NEW s \in Seq(T), IsInjective(s)
  PROVE  IsFiniteSet(ToSet(s)) /\ Cardinality(ToSet(s)) = Len(s)
<1>1. Len(s) \in Nat /\ DOMAIN s = 1..Len(s)
  OBVIOUS
<1>2. s \in Bijection(1..Len(s), ToSet(s))
  BY <1>1 DEF Bijection, Injection, Surjection, IsInjective, ToSet
<1>3. IsFiniteSet(1..Len(s)) /\ Cardinality(1..Len(s)) = Len(s)
  BY <1>1, FS_Interval
<1> QED
  BY <1>2, <1>3, FS_Bijection DEF ExistsBijection

-----------------------------------------------------------------------------
(* A sorted list.                                                          *)
LEMMA SortedPlaces ==
  ASSUME NEW s \in Seq(Int), NEW k \in 1..Len(s)
  PROVE  /\ Sorted(s)[k] \in ToSet(s) /\ Sorted(s)[k] \in Int
         /\ Cardinality(Below(s, Sorted(s)[k])) < k
         /\ k <= Cardinality(UpTo(s, Sorted(s)[k]))
<1>1. Len(s) \in Nat /\ DOMAIN s = 1..Len(s) /\ s \in [DOMAIN s -> Int]
  OBVIOUS
<1>2. IsFiniteSet(DOMAIN s) /\ Cardinality(DOMAIN s) = Len(s)
  <2>0. Len(s) \in Nat
    OBVIOUS
  <2>1. IsFiniteSet(1..Len(s)) /\ Cardinality(1..Len(s)) = Len(s)
    BY <2>0, FS_Interval
  <2> QED
    BY <1>1, <2>1
<1>3. PICK d \in DOMAIN s : Cardinality(Lower(DOMAIN s, s, d)) < k /\ k <= Count(DOMAIN s, s, d)
  BY <1>1, <1>2, OrderStatistic
<1>4. /\ s[d] \in ToSet(s)
      /\ Cardinality(Below(s, s[d])) < k /\ k <= Cardinality(UpTo(s, s[d]))
  BY <1>3 DEF Lower, Count, Below, UpTo, ToSet
<1>5. /\ Sorted(s)[k] \in ToSet(s)
      /\ Cardinality(Below(s, Sorted(s)[k])) < k
      /\ k <= Cardinality(UpTo(s, Sorted(s)[k]))
  BY <1>1, <1>4 DEF Sorted
<1>6. ToSet(s) \subseteq Int
  BY DEF ToSet
<1> QED
  BY <1>5, <1>6

(* The number of places on either side of a value.                         *)
LEMMA SidesCounted ==
  ASSUME NEW s \in Seq(Int), NEW x \in Int
  PROVE  /\ Cardinality(Below(s, x)) \in Nat /\ Cardinality(UpTo(s, x)) \in Nat
         /\ Cardinality({i \in DOMAIN s : x < s[i]}) = Len(s) - Cardinality(UpTo(s, x))
         /\ Cardinality({i \in DOMAIN s : x <= s[i]}) = Len(s) - Cardinality(Below(s, x))
<1> DEFINE above == {i \in DOMAIN s : x < s[i]}
           from == {i \in DOMAIN s : x <= s[i]}
<1>1. Len(s) \in Nat /\ DOMAIN s = 1..Len(s) /\ \A i \in DOMAIN s : s[i] \in Int
  OBVIOUS
<1>2. IsFiniteSet(DOMAIN s) /\ Cardinality(DOMAIN s) = Len(s)
  <2>0. Len(s) \in Nat
    OBVIOUS
  <2>1. IsFiniteSet(1..Len(s)) /\ Cardinality(1..Len(s)) = Len(s)
    BY <2>0, FS_Interval
  <2> QED
    BY <1>1, <2>1
<1>3. \A i \in DOMAIN s : (x < s[i] <=> ~(s[i] <= x)) /\ (x <= s[i] <=> ~(s[i] < x))
  BY <1>1
<1>4. /\ above = DOMAIN s \ UpTo(s, x) /\ UpTo(s, x) \in SUBSET DOMAIN s
      /\ from = DOMAIN s \ Below(s, x) /\ Below(s, x) \in SUBSET DOMAIN s
  BY <1>3 DEF UpTo, Below
<1> HIDE DEF above, from
<1>5. ASSUME NEW A \in SUBSET DOMAIN s
      PROVE  Cardinality(A) \in Nat /\ Cardinality(DOMAIN s \ A) = Len(s) - Cardinality(A)
  <2>1. IsFiniteSet(A) /\ DOMAIN s \cap A = A
    BY <1>2, FS_Subset
  <2>2. Cardinality(DOMAIN s \ A) = Cardinality(DOMAIN s) - Cardinality(DOMAIN s \cap A)
    BY <1>2, FS_Difference
  <2> QED
    BY <1>2, <2>1, <2>2, FS_CardinalityType
<1>6. /\ Cardinality(above) = Len(s) - Cardinality(UpTo(s, x)) /\ Cardinality(UpTo(s, x)) \in Nat
      /\ Cardinality(from) = Len(s) - Cardinality(Below(s, x)) /\ Cardinality(Below(s, x)) \in Nat
  BY <1>4, <1>5
<1> QED
  BY <1>6 DEF above, from

-----------------------------------------------------------------------------
(* The sums of a list from its beginning.                                  *)
LEMMA TotalSteps ==
  ASSUME NEW s \in Seq(Int)
  PROVE  \E g \in [0..Len(s) -> Int] :
           g[0] = 0 /\ (\A i \in 1..Len(s) : g[i] = g[i - 1] + s[i]) /\ Total(s) = g[Len(s)]
<1> DEFINE sums(g, m) == g[0] = 0 /\ \A i \in 1..m : g[i] = g[i - 1] + s[i]
           bad == {m \in 0..Len(s) : ~ \E g \in [0..m -> Int] : sums(g, m)}
<1>1. Len(s) \in Nat /\ \A i \in 1..Len(s) : s[i] \in Int
  OBVIOUS
<1>2. bad = {}
  <2> SUFFICES ASSUME bad # {}  PROVE FALSE
    OBVIOUS
  <2>1. bad \in SUBSET Nat
    BY <1>1
  <2>2. PICK m \in bad : \A k \in bad : m <= k
    BY <2>1, LeastNatural
  <2>3. m \in 0..Len(s) /\ ~ \E g \in [0..m -> Int] : sums(g, m)
    OBVIOUS
  <2>4. m # 0
    <3>1. [i \in 0..0 |-> 0] \in [0..0 -> Int] /\ sums([i \in 0..0 |-> 0], 0)
      OBVIOUS
    <3> QED
      BY <2>3, <3>1
  <2>5. m - 1 \in 0..Len(s) /\ m - 1 \notin bad
    <3>1. m - 1 \in 0..Len(s) /\ ~(m <= m - 1)
      BY <1>1, <2>3, <2>4
    <3> QED
      BY <2>2, <3>1
  <2>6. PICK g \in [0..(m - 1) -> Int] : sums(g, m - 1)
    BY <2>5
  <2> DEFINE h == [i \in 0..m |-> IF i = m THEN g[m - 1] + s[m] ELSE g[i]]
  <2>7. m \in 1..Len(s) /\ m \in Nat
    BY <1>1, <2>3, <2>4
  <2>8. h \in [0..m -> Int]
    BY <1>1, <2>6, <2>7
  <2>9. sums(h, m)
    BY <2>6, <2>7
  <2> HIDE DEF h
  <2> QED
    BY <2>3, <2>8, <2>9
<1>3. Len(s) \in 0..Len(s)
  BY <1>1
<1>4. PICK g \in [0..Len(s) -> Int] : sums(g, Len(s))
  <2>1. Len(s) \notin bad
    BY <1>2, Zenon
  <2> QED
    BY <1>3, <2>1
<1> DEFINE sum == CHOOSE f : f = [i \in 0..Len(s) |-> IF i = 0 THEN 0 ELSE f[i - 1] + s[i]]
<1>5. g = [i \in 0..Len(s) |-> IF i = 0 THEN 0 ELSE g[i - 1] + s[i]]
  BY <1>1, <1>4
<1>6. sum = [i \in 0..Len(s) |-> IF i = 0 THEN 0 ELSE sum[i - 1] + s[i]]
  BY <1>5
<1>7. Total(s) = sum[Len(s)]
  BY DEF Total
<1> HIDE DEF sum
<1> DEFINE differ == {i \in 0..Len(s) : sum[i] # g[i]}
<1>8. differ = {}
  <2> SUFFICES ASSUME differ # {}  PROVE FALSE
    OBVIOUS
  <2>1. differ \in SUBSET Nat
    BY <1>1
  <2>2. PICK i \in differ : \A k \in differ : i <= k
    BY <2>1, LeastNatural
  <2>3. i # 0
    BY <1>1, <1>4, <1>6
  <2>4. i \in 1..Len(s) /\ i - 1 \in 0..Len(s) /\ ~(i <= i - 1)
    BY <1>1, <2>3
  <2>5. sum[i - 1] = g[i - 1]
    BY <2>2, <2>4
  <2>6. sum[i] = sum[i - 1] + s[i]
    BY <1>6, <2>4
  <2>7. g[i] = g[i - 1] + s[i]
    BY <1>4, <2>4
  <2> QED
    BY <2>5, <2>6, <2>7
<1>9. Total(s) = g[Len(s)]
  BY <1>3, <1>7, <1>8
<1> QED
  BY <1>4, <1>9

(* A total lies between what the least and the greatest would make it.     *)
LEMMA TotalBetween ==
  ASSUME NEW s \in Seq(Int), NEW lo \in Int, NEW hi \in Int,
         \A i \in 1..Len(s) : lo <= s[i] /\ s[i] <= hi
  PROVE  Total(s) \in Int /\ lo * Len(s) <= Total(s) /\ Total(s) <= hi * Len(s)
<1>1. Len(s) \in Nat /\ \A i \in 1..Len(s) : s[i] \in Int
  OBVIOUS
<1>2. PICK g \in [0..Len(s) -> Int] :
        g[0] = 0 /\ (\A i \in 1..Len(s) : g[i] = g[i - 1] + s[i]) /\ Total(s) = g[Len(s)]
  BY TotalSteps
<1> DEFINE bad == {m \in 0..Len(s) : ~(lo * m <= g[m] /\ g[m] <= hi * m)}
<1>3. bad = {}
  <2> SUFFICES ASSUME bad # {}  PROVE FALSE
    OBVIOUS
  <2>1. bad \in SUBSET Nat
    BY <1>1
  <2>2. PICK m \in bad : \A k \in bad : m <= k
    BY <2>1, LeastNatural
  <2>3. m # 0
    <3>1. lo * 0 = 0 /\ hi * 0 = 0
      OBVIOUS
    <3> QED
      BY <1>2, <3>1
  <2>4. m \in 1..Len(s) /\ m - 1 \in 0..Len(s) /\ ~(m <= m - 1)
    BY <1>1, <2>3
  <2>5. lo * (m - 1) <= g[m - 1] /\ g[m - 1] <= hi * (m - 1)
    BY <2>2, <2>4
  <2>6. lo * m = lo * (m - 1) + lo /\ hi * m = hi * (m - 1) + hi
    BY <2>4
  <2>7. g[m] = g[m - 1] + s[m] /\ lo <= s[m] /\ s[m] <= hi
    BY <1>2, <2>4
  <2>8. g[m - 1] \in Int /\ s[m] \in Int /\ m - 1 \in Int
    <3>1. g[m - 1] \in Int /\ m - 1 \in Int
      BY <2>4
    <3> QED
      BY <1>1, <2>4, <3>1
  <2> DEFINE a == lo * (m - 1)
             b == hi * (m - 1)
  <2>9. a \in Int /\ b \in Int
    BY <2>8
  <2>10. lo * m = a + lo /\ hi * m = b + hi /\ a <= g[m - 1] /\ g[m - 1] <= b
    BY <2>5, <2>6
  <2> HIDE DEF a, b
  <2>11. lo * m <= g[m] /\ g[m] <= hi * m
    BY <2>7, <2>8, <2>9, <2>10
  <2> QED
    BY <2>11
<1>4. Len(s) \in 0..Len(s)
  BY <1>1
<1>5. Len(s) \notin bad
  BY <1>3, Zenon
<1>6. lo * Len(s) <= g[Len(s)] /\ g[Len(s)] <= hi * Len(s)
  BY <1>4, <1>5
<1> QED
  BY <1>2, <1>4, <1>6

LEMMA TotalNatural ==
  ASSUME NEW s \in Seq(Nat)
  PROVE  Total(s) \in Nat
<1>1. s \in Seq(Int) /\ Len(s) \in Nat /\ \A i \in 1..Len(s) : s[i] \in Nat
  OBVIOUS
<1>2. PICK g \in [0..Len(s) -> Int] :
        g[0] = 0 /\ (\A i \in 1..Len(s) : g[i] = g[i - 1] + s[i]) /\ Total(s) = g[Len(s)]
  BY <1>1, TotalSteps
<1> DEFINE bad == {m \in 0..Len(s) : g[m] \notin Nat}
<1>3. bad = {}
  <2> SUFFICES ASSUME bad # {}  PROVE FALSE
    OBVIOUS
  <2>1. bad \in SUBSET Nat
    BY <1>1
  <2>2. PICK m \in bad : \A k \in bad : m <= k
    BY <2>1, LeastNatural
  <2>3. m \in 1..Len(s) /\ m - 1 \in 0..Len(s) /\ ~(m <= m - 1)
    BY <1>1, <1>2
  <2>4. g[m - 1] \in Nat
    BY <2>2, <2>3
  <2>5. g[m] = g[m - 1] + s[m] /\ s[m] \in Nat
    BY <1>1, <1>2, <2>3
  <2>6. g[m] \in Nat
    BY <2>4, <2>5
  <2> QED
    BY <2>6
<1>4. Len(s) \in 0..Len(s)
  BY <1>1
<1>5. Len(s) \notin bad
  BY <1>3, Zenon
<1> QED
  BY <1>2, <1>4, <1>5
=============================================================================
