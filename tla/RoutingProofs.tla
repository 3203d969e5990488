---------------------------- MODULE RoutingProofs ----------------------------
(* The safety of health reports and rankings, for any number of requests,  *)
(* backends and instants, and what scores and choices are worth, for all   *)
(* candidates.  What is computed step by step is proved by the least       *)
(* number for which it would be wrong.                                     *)
EXTENDS Routing, FiniteSetTheorems, WellFoundedInduction, TLAPS

(* Least and greatest elements.                                             *)
LEMMA LeastNatural ==
    ASSUME NEW T, T \subseteq Nat, T # {}
    PROVE  Min(T) \in T /\ \A y \in T : Min(T) <= y
<1>1. PICK x \in T : \A y \in T : <<y, x>> \notin OpToRel(<, Nat)
  BY WFMin, NatLessThanWellFounded, Zenon
<1>2. \A y \in T : ~ y < x
  BY <1>1, Zenon DEF OpToRel
<1>3. \A y \in T : x <= y
  BY <1>2
<1> QED
  BY <1>3 DEF Min

LEMMA GreatestPosition ==
    ASSUME NEW n \in Nat, NEW T, T \subseteq 1 .. n, T # {}
    PROVE  Max(T) \in T /\ \A y \in T : y <= Max(T)
<1> DEFINE U == {m \in Nat : n - m \in T}
<1>1. U \subseteq Nat /\ U # {}
  <2>1. PICK x \in T : TRUE
    OBVIOUS
  <2>2. n - x \in U
    BY <2>1
  <2> QED
    BY <2>2
<1>2. Min(U) \in U /\ \A m \in U : Min(U) <= m
  BY <1>1, LeastNatural
<1>3. \A y \in T : n - y \in U
  OBVIOUS
<1>4. n - Min(U) \in T /\ Min(U) \in Nat
  BY <1>2
<1> HIDE DEF U
<1>5. \A y \in T : y <= n - Min(U)
  BY <1>2, <1>3, <1>4
<1> QED
  BY <1>4, <1>5 DEF Max

LEMMA LesserOfTwo ==
    ASSUME NEW a \in Int, NEW b \in Int
    PROVE  Min({a, b}) = IF a <= b THEN a ELSE b
<1>1. Min({a, b}) \in {a, b} /\ Min({a, b}) <= a /\ Min({a, b}) <= b
  <2>1. \E x \in {a, b} : \A y \in {a, b} : x <= y
    OBVIOUS
  <2> QED
    BY <2>1 DEF Min
<1> QED
  BY <1>1

LEMMA GreaterOfTwo ==
    ASSUME NEW a \in Int, NEW b \in Int
    PROVE  Max({a, b}) = IF a >= b THEN a ELSE b
<1>1. Max({a, b}) \in {a, b} /\ Max({a, b}) >= a /\ Max({a, b}) >= b
  <2>1. \E x \in {a, b} : \A y \in {a, b} : x >= y
    OBVIOUS
  <2> QED
    BY <2>1 DEF Max
<1> QED
  BY <1>1

-----------------------------------------------------------------------------
(* Entries of a ranking: no two have the same id.                           *)
Entries(S) ==
    /\ IsFiniteSet(S)
    /\ \A x \in S : x.score \in Int /\ x.id \in Int
    /\ \A x, y \in S : x.id = y.id => x = y

(* x and what comes before it: as many as the place of x says.              *)
Upto(S, x) == {y \in S : y = x \/ Precedes(y, x)}

LEMMA UptoGrows ==
    ASSUME NEW S, Entries(S), NEW x \in S, NEW y \in S, Precedes(x, y)
    PROVE  Cardinality(Upto(S, x)) < Cardinality(Upto(S, y))
<1>1. Upto(S, x) \subseteq Upto(S, y)
  BY DEF Upto, Precedes, Entries
<1>2. y \in Upto(S, y) /\ y \notin Upto(S, x)
  BY DEF Upto, Precedes, Entries
<1>3. IsFiniteSet(Upto(S, y)) /\ IsFiniteSet(Upto(S, x))
  BY FS_Subset DEF Entries, Upto
<1>4. Cardinality(Upto(S, x)) <= Cardinality(Upto(S, y))
  BY <1>1, <1>3, FS_Subset
<1>5. Cardinality(Upto(S, x)) # Cardinality(Upto(S, y))
  BY <1>1, <1>2, <1>3, FS_Subset
<1> QED
  BY <1>3, <1>4, <1>5, FS_CardinalityType

(* The place of x makes the sequence that Ranked asks for.                  *)
LEMMA AnOrderExists ==
    ASSUME NEW S, Entries(S)
    PROVE  \E s \in SetToSeqs(S) : \A i, j \in DOMAIN s : i < j => Precedes(s[i], s[j])
<1> DEFINE n    == Cardinality(S)
           rank == [x \in S |-> Cardinality(Upto(S, x))]
<1>1. n \in Nat /\ IsFiniteSet(S) /\ IsFiniteSet(1 .. n) /\ Cardinality(1 .. n) = n
  <2>1. IsFiniteSet(S) /\ Cardinality(S) \in Nat
    BY FS_CardinalityType DEF Entries
  <2> QED
    BY <2>1, FS_Interval
<1>2. \A x \in S : rank[x] \in 1 .. n
  <2>1. TAKE x \in S
  <2>2. IsFiniteSet(Upto(S, x)) /\ Cardinality(Upto(S, x)) <= n /\ Cardinality(Upto(S, x)) \in Nat
    BY <1>1, FS_Subset, FS_CardinalityType DEF Upto
  <2>3. Cardinality(Upto(S, x)) # 0
    BY <2>2, FS_EmptySet DEF Upto
  <2> QED
    BY <1>1, <2>2, <2>3
<1>3. \A x, y \in S : x # y => Precedes(x, y) \/ Precedes(y, x)
  BY DEF Entries, Precedes
<1>4. \A x, y \in S : Precedes(x, y) => rank[x] < rank[y]
  BY UptoGrows
<1> HIDE DEF rank
<1>5. \A x, y \in S : rank[x] < rank[y] => Precedes(x, y)
  BY <1>1, <1>2, <1>3, <1>4
<1>6. rank \in Injection(S, 1 .. n)
  <2>1. rank \in [S -> 1 .. n]
    BY <1>2 DEF rank
  <2>2. \A x, y \in S : rank[x] = rank[y] => x = y
    BY <1>1, <1>2, <1>3, <1>4
  <2> QED
    BY <2>1, <2>2 DEF Injection, IsInjective
<1>7. rank \in Surjection(S, 1 .. n)
  BY <1>1, <1>6, FS_Injection
<1>8. \A i \in 1 .. n : \E x \in S : rank[x] = i
  BY <1>7 DEF Surjection
<1> DEFINE s == [i \in 1 .. n |-> CHOOSE x \in S : rank[x] = i]
<1>9. \A i \in 1 .. n : s[i] \in S /\ rank[s[i]] = i
  BY <1>8
<1>10. s \in [1 .. n -> S] /\ DOMAIN s = 1 .. n
  BY <1>9
<1> HIDE DEF s, n
<1>11. s \in SetToSeqs(S)
  BY <1>9, <1>10 DEF SetToSeqs, n
<1>12. \A i, j \in DOMAIN s : i < j => Precedes(s[i], s[j])
  BY <1>5, <1>9, <1>10
<1> QED
  BY <1>11, <1>12

-----------------------------------------------------------------------------
(* A ranking of n entries, of which those that are left out have no score.  *)
IsRanking(s, n) ==
    /\ n \in Nat /\ DOMAIN s = 1 .. n
    /\ \A i \in 1 .. n : s[i].score \in Nat /\ (s[i].excluded => s[i].score = 0)
    /\ \A i, j \in 1 .. n : s[i].id = s[j].id => i = j

(* The choice is one of the eligible, whatever the fraction.                *)
LEMMA PickIsEligible ==
    ASSUME NEW s, NEW n \in Nat, DOMAIN s = 1 .. n, Eligible(s) # {}, NEW num, NEW den
    PROVE  Pick(s, num, den) \in Eligible(s)
<1> DEFINE cursor  == Max({0, Min({num, den})}) * Total(s, Eligible(s))
           reached == {i \in Eligible(s) : cursor <= Running(s, i) * den}
<1>1. Eligible(s) \subseteq 1 .. n /\ reached \subseteq Eligible(s)
  BY DEF Eligible
<1>2. Pick(s, num, den) = IF Total(s, Eligible(s)) = 0 THEN Min(Eligible(s))
                          ELSE IF reached = {} THEN Max(Eligible(s)) ELSE Min(reached)
  BY DEF Pick
<1> HIDE DEF reached
<1>3. Min(Eligible(s)) \in Eligible(s) /\ Max(Eligible(s)) \in Eligible(s)
  <2>1. Eligible(s) \subseteq Nat
    BY <1>1
  <2> QED
    BY <1>1, <2>1, LeastNatural, GreatestPosition
<1>4. reached # {} => Min(reached) \in reached
  <2>1. reached \subseteq Nat
    BY <1>1
  <2> QED
    BY <2>1, LeastNatural
<1> QED
  BY <1>1, <1>2, <1>3, <1>4

-----------------------------------------------------------------------------
(* Sums of scores.                                                          *)
LEMMA IntervalSize ==
    ASSUME NEW a \in Nat, NEW m \in Nat
    PROVE  IsFiniteSet(a + 1 .. a + m) /\ Cardinality(a + 1 .. a + m) = m
<1>1. a + 1 \in Int /\ a + m \in Int
  OBVIOUS
<1>2. /\ IsFiniteSet(a + 1 .. a + m)
      /\ Cardinality(a + 1 .. a + m) = IF a + 1 > a + m THEN 0 ELSE (a + m) - (a + 1) + 1
  BY <1>1, FS_Interval
<1> QED
  BY <1>2

LEMMA DisjointSizes ==
    ASSUME NEW A, IsFiniteSet(A), NEW B, IsFiniteSet(B), A \cap B = {}
    PROVE  Cardinality(A \cup B) = Cardinality(A) + Cardinality(B)
<1>1. Cardinality(A) \in Nat /\ Cardinality(B) \in Nat
  BY FS_CardinalityType
<1>2. Cardinality(A \cup B) = Cardinality(A) + Cardinality(B) - Cardinality(A \cap B)
  BY FS_Union
<1>3. Cardinality(A \cap B) = 0
  BY FS_EmptySet
<1> QED
  BY <1>1, <1>2, <1>3

LEMMA UnitsOfOne ==
    ASSUME NEW i, NEW m \in Nat
    PROVE  IsFiniteSet({i} \X (1 .. m)) /\ Cardinality({i} \X (1 .. m)) = m
<1>1. IsFiniteSet({i}) /\ Cardinality({i}) = 1
  BY FS_Singleton
<1>2. IsFiniteSet(1 .. m) /\ Cardinality(1 .. m) = m
  <2>1. 0 + 1 .. 0 + m = 1 .. m
    OBVIOUS
  <2> QED
    BY <2>1, IntervalSize
<1>3. /\ IsFiniteSet({i} \X (1 .. m))
      /\ Cardinality({i} \X (1 .. m)) = Cardinality({i}) * Cardinality(1 .. m)
  BY <1>1, <1>2, FS_Product
<1> QED
  BY <1>1, <1>2, <1>3

(* What Total counts.                                                       *)
Units(s, P) == UNION {{i} \X (1 .. s[i].score) : i \in P}

LEMMA UnitsMembers ==
    ASSUME NEW s, NEW P, NEW u
    PROVE  u \in Units(s, P) <=> \E i \in P : u \in {i} \X (1 .. s[i].score)
  BY DEF Units

LEMMA UnitsFinite ==
    ASSUME NEW s, NEW n, IsRanking(s, n), NEW P, P \subseteq 1 .. n
    PROVE  IsFiniteSet(Units(s, P)) /\ Total(s, P) = Cardinality(Units(s, P)) /\ Total(s, P) \in Nat
<1> DEFINE f == [i \in P |-> {i} \X (1 .. s[i].score)]
           T == {{i} \X (1 .. s[i].score) : i \in P}
<1>1. IsFiniteSet(P)
  BY FS_Interval, FS_Subset DEF IsRanking
<1>2. f \in Surjection(P, T)
  BY DEF Surjection
<1>3. IsFiniteSet(T)
  BY <1>1, <1>2, FS_Surjection
<1>4. \A U \in T : IsFiniteSet(U)
  <2>1. ASSUME NEW i \in P PROVE IsFiniteSet({i} \X (1 .. s[i].score))
    <3>1. s[i].score \in Nat
      BY DEF IsRanking
    <3> QED
      BY <3>1, UnitsOfOne
  <2> QED
    BY <2>1
<1> HIDE DEF T
<1>5. IsFiniteSet(UNION T)
  BY <1>3, <1>4, FS_UNION
<1>6. Units(s, P) = UNION T /\ Total(s, P) = Cardinality(UNION T)
  BY DEF T, Units, Total
<1> QED
  BY <1>5, <1>6, FS_CardinalityType

LEMMA TotalOfMore ==
    ASSUME NEW s, NEW n, IsRanking(s, n), NEW P, NEW Q, Q \subseteq 1 .. n, P \subseteq Q
    PROVE  Total(s, P) <= Total(s, Q)
<1>1. Units(s, P) \subseteq Units(s, Q)
  BY DEF Units
<1>2. P \subseteq 1 .. n
  OBVIOUS
<1>3. /\ IsFiniteSet(Units(s, Q)) /\ Total(s, Q) = Cardinality(Units(s, Q))
      /\ Total(s, P) = Cardinality(Units(s, P))
  BY <1>2, UnitsFinite
<1>4. Cardinality(Units(s, P)) <= Cardinality(Units(s, Q))
  BY <1>1, <1>3, FS_Subset
<1> QED
  BY <1>3, <1>4

LEMMA TotalOfOne ==
    ASSUME NEW s, NEW n, IsRanking(s, n), NEW i \in 1 .. n
    PROVE  Total(s, {i}) = s[i].score
<1>1. s[i].score \in Nat
  BY DEF IsRanking
<1>2. UNION {{j} \X (1 .. s[j].score) : j \in {i}} = {i} \X (1 .. s[i].score)
  OBVIOUS
<1> QED
  BY <1>1, <1>2, UnitsOfOne DEF Total

LEMMA TotalOfTwoParts ==
    ASSUME NEW s, NEW n, IsRanking(s, n), NEW P, NEW i \in 1 .. n, P \subseteq 1 .. n, i \notin P
    PROVE  Total(s, P \cup {i}) = Total(s, P) + s[i].score
<1>1. P \cup {i} \subseteq 1 .. n /\ {i} \subseteq 1 .. n
  OBVIOUS
<1>2. Units(s, P \cup {i}) = Units(s, P) \cup Units(s, {i})
  BY DEF Units
<1>3. Units(s, P) \cap Units(s, {i}) = {}
  <2>1. ASSUME NEW u, u \in Units(s, P), u \in Units(s, {i}) PROVE FALSE
    <3>1. PICK j \in P : u \in {j} \X (1 .. s[j].score)
      BY <2>1, UnitsMembers
    <3>2. u \in {i} \X (1 .. s[i].score)
      BY <2>1, UnitsMembers
    <3> QED
      BY <3>1, <3>2
  <2> QED
    BY <2>1
<1>4. Cardinality(Units(s, P \cup {i})) = Cardinality(Units(s, P)) + Cardinality(Units(s, {i}))
  <2>1. IsFiniteSet(Units(s, P)) /\ IsFiniteSet(Units(s, {i}))
    BY <1>1, UnitsFinite
  <2> QED
    BY <1>2, <1>3, <2>1, DisjointSizes
<1> QED
  BY <1>1, <1>4, UnitsFinite, TotalOfOne

-----------------------------------------------------------------------------
(* The share of position i begins where those before it end.                *)
Before(s, i) == Total(s, {j \in Eligible(s) : j < i})

LEMMA RunningSteps ==
    ASSUME NEW s, NEW n, IsRanking(s, n), NEW i \in Eligible(s)
    PROVE  /\ Running(s, i) = Before(s, i) + s[i].score
           /\ Before(s, i) \in Nat /\ Running(s, i) \in Nat /\ s[i].score \in Nat
           /\ Running(s, i) <= Total(s, Eligible(s))
<1> DEFINE P == {j \in Eligible(s) : j < i}
<1>1. /\ n \in Nat /\ Eligible(s) \subseteq 1 .. n /\ i \in 1 .. n
      /\ P \subseteq 1 .. n /\ i \notin P /\ s[i].score \in Nat
  BY DEF Eligible, IsRanking
<1>2. {j \in Eligible(s) : j <= i} = P \cup {i}
  BY <1>1
<1>3. Before(s, i) = Total(s, P) /\ Running(s, i) = Total(s, P \cup {i})
  BY <1>2 DEF Before, Running
<1>4. P \cup {i} \subseteq Eligible(s)
  OBVIOUS
<1> HIDE DEF P
<1>5. Running(s, i) = Before(s, i) + s[i].score
  BY <1>1, <1>3, TotalOfTwoParts
<1>6. Before(s, i) \in Nat
  BY <1>1, <1>3, UnitsFinite
<1>7. Running(s, i) <= Total(s, Eligible(s))
  BY <1>1, <1>3, <1>4, TotalOfMore
<1> QED
  BY <1>1, <1>5, <1>6, <1>7

(* It ends before that of a later one.                                      *)
LEMMA RunningBefore ==
    ASSUME NEW s, NEW n, IsRanking(s, n), NEW i \in Eligible(s), NEW j \in Eligible(s), j < i
    PROVE  Running(s, j) <= Before(s, i)
<1> DEFINE P == {k \in Eligible(s) : k <= j}
           Q == {k \in Eligible(s) : k < i}
<1>1. Eligible(s) \subseteq 1 .. n
  BY DEF Eligible, IsRanking
<1>2. P \subseteq Q /\ Q \subseteq 1 .. n
  BY <1>1 DEF IsRanking
<1>3. Running(s, j) = Total(s, P) /\ Before(s, i) = Total(s, Q)
  BY DEF Running, Before
<1> QED
  BY <1>2, <1>3, TotalOfMore

(* The one before i, if any, ends where i begins.                           *)
LEMMA BeforeIsRunning ==
    ASSUME NEW s, NEW n, IsRanking(s, n), NEW i \in Eligible(s)
    PROVE  Before(s, i) = 0 \/ \E j \in Eligible(s) : j < i /\ Before(s, i) = Running(s, j)
<1> DEFINE P == {j \in Eligible(s) : j < i}
<1>1. n \in Nat /\ Eligible(s) \subseteq 1 .. n /\ P \subseteq 1 .. n /\ i \in 1 .. n
  BY DEF Eligible, IsRanking
<1>2. CASE P = {}
  <2>1. UNION {{j} \X (1 .. s[j].score) : j \in {}} = {}
    OBVIOUS
  <2>2. Total(s, {}) = 0
    BY <2>1, FS_EmptySet DEF Total
  <2> QED
    BY <1>2, <2>2 DEF Before
<1>3. CASE P # {}
  <2>1. Max(P) \in P /\ \A j \in P : j <= Max(P)
    BY <1>1, <1>3, GreatestPosition
  <2>2. {j \in Eligible(s) : j <= Max(P)} = P
    BY <1>1, <2>1
  <2>3. Before(s, i) = Running(s, Max(P))
    BY <2>2 DEF Before, Running
  <2> QED
    BY <2>1, <2>3
<1> QED
  BY <1>2, <1>3

LEMMA Products ==
    ASSUME NEW a \in Nat, NEW b \in Nat, NEW m \in Nat, m > 0
    PROVE  a * m <= b * m <=> a <= b
  OBVIOUS

(* The fraction k of the total falls to i if it lies in its share.          *)
LEMMA PickedInShare ==
    ASSUME NEW s, NEW n, IsRanking(s, n), NEW k \in 1 .. Total(s, Eligible(s)), NEW i \in Eligible(s)
    PROVE  Pick(s, k, Total(s, Eligible(s))) = i <=> k \in Before(s, i) + 1 .. Running(s, i)
<1> DEFINE E       == Eligible(s)
           total   == Total(s, E)
           cursor  == Max({0, Min({k, total})}) * total
           reached == {j \in E : cursor <= Running(s, j) * total}
<1>1. n \in Nat /\ E \subseteq 1 .. n /\ E \subseteq Nat /\ E # {}
  BY DEF Eligible, IsRanking
<1>2. total \in Nat /\ k \in Nat /\ k <= total /\ k > 0
  BY <1>1, UnitsFinite
<1>3. Pick(s, k, total) = IF total = 0 THEN Min(E) ELSE IF reached = {} THEN Max(E) ELSE Min(reached)
  BY DEF Pick
<1>4. cursor = k * total
  <2>1. Min({k, total}) = k
    BY <1>2, LesserOfTwo
  <2>2. Max({0, k}) = k
    BY <1>2, GreaterOfTwo
  <2> QED
    BY <2>1, <2>2
<1>5. \A j \in E : Running(s, j) \in Nat /\ Before(s, j) \in Nat
  BY RunningSteps
<1> HIDE DEF total, cursor
<1>6. \A j \in E : j \in reached <=> k <= Running(s, j)
  BY <1>2, <1>4, <1>5, Products
<1> HIDE DEF E
<1>7. reached # {}
  <2>1. Max(E) \in E /\ \A j \in E : j <= Max(E)
    BY <1>1, GreatestPosition
  <2>2. {j \in E : j <= Max(E)} = E
    BY <2>1
  <2>3. Running(s, Max(E)) = total
    BY <2>2 DEF Running, E, total
  <2> QED
    BY <1>2, <1>6, <2>1, <2>3
<1>8. reached \subseteq E
  OBVIOUS
<1> HIDE DEF reached
<1>9. Min(reached) \in reached /\ \A j \in reached : Min(reached) <= j
  <2>1. reached \subseteq Nat
    BY <1>1, <1>8
  <2> QED
    BY <1>7, <2>1, LeastNatural
<1>10. Pick(s, k, total) = Min(reached)
  BY <1>2, <1>3, <1>7
<1>11. i \in E /\ i \in Nat
  BY <1>1 DEF E
<1>12. ASSUME Min(reached) = i PROVE k \in Before(s, i) + 1 .. Running(s, i)
  <2>1. k <= Running(s, i)
    BY <1>6, <1>9, <1>11, <1>12
  <2>2. \A j \in E : j < i => Running(s, j) < k
    <3>1. TAKE j \in E
    <3>2. HAVE j < i
    <3>3. j \notin reached
      BY <1>1, <1>9, <1>11, <1>12, <3>2
    <3> QED
      BY <1>2, <1>5, <1>6, <3>3
  <2>3. Before(s, i) < k
    BY <1>2, <2>2, BeforeIsRunning DEF E
  <2> QED
    BY <1>2, <1>5, <1>11, <2>1, <2>3
<1>13. ASSUME k \in Before(s, i) + 1 .. Running(s, i) PROVE Min(reached) = i
  <2>1. i \in reached
    BY <1>6, <1>11, <1>13
  <2>2. \A j \in E : j < i => Running(s, j) < k
    <3>1. TAKE j \in E
    <3>2. HAVE j < i
    <3>3. Running(s, j) <= Before(s, i)
      BY <3>2, RunningBefore DEF E
    <3> QED
      BY <1>2, <1>5, <1>11, <1>13, <3>3
  <2>3. Min(reached) \in E /\ k <= Running(s, Min(reached)) /\ Min(reached) <= i
    BY <1>6, <1>8, <1>9, <2>1
  <2>4. ~ Min(reached) < i
    BY <1>2, <1>5, <2>2, <2>3
  <2>5. Min(reached) \in Nat
    BY <1>1, <2>3
  <2> QED
    BY <1>11, <2>3, <2>4, <2>5
<1> QED
  BY <1>10, <1>12, <1>13 DEF total, E

(* Every ranking is walked fairly.                                          *)
LEMMA RankingIsFair ==
    ASSUME NEW s, NEW n, IsRanking(s, n)
    PROVE  FairShares(s)
<1> DEFINE total == Total(s, Eligible(s))
<1> SUFFICES ASSUME total > 0, NEW i \in 1 .. n
             PROVE  Cardinality({k \in 1 .. total : s[Pick(s, k, total)].id = s[i].id}) = s[i].score
  BY DEF FairShares, IsRanking
<1>1. /\ n \in Nat /\ Eligible(s) \subseteq 1 .. n /\ DOMAIN s = 1 .. n
      /\ s[i].score \in Nat /\ (s[i].excluded => s[i].score = 0)
      /\ \A j \in 1 .. n : s[i].id = s[j].id => i = j
  BY DEF Eligible, IsRanking
<1>2. total \in Nat
  BY <1>1, UnitsFinite
<1>3. Eligible(s) # {}
  <2>1. ASSUME Eligible(s) = {} PROVE FALSE
    <3>1. UNION {{j} \X (1 .. s[j].score) : j \in {}} = {}
      OBVIOUS
    <3>2. total = 0
      BY <2>1, <3>1, FS_EmptySet DEF Total
    <3> QED
      BY <3>2
  <2> QED
    BY <2>1
<1>4. \A k \in 1 .. total : Pick(s, k, total) \in Eligible(s)
  BY <1>1, <1>3, PickIsEligible
<1> HIDE DEF total
<1>5. \A k \in 1 .. total : s[Pick(s, k, total)].id = s[i].id <=> Pick(s, k, total) = i
  BY <1>1, <1>4
<1>6. CASE i \in Eligible(s)
  <2>1. \A k \in 1 .. total : Pick(s, k, total) = i <=> k \in Before(s, i) + 1 .. Running(s, i)
    BY <1>6, PickedInShare DEF total
  <2>2. /\ Running(s, i) = Before(s, i) + s[i].score
        /\ Before(s, i) \in Nat /\ Running(s, i) \in Nat /\ Running(s, i) <= total
    BY <1>6, RunningSteps DEF total
  <2>3. {k \in 1 .. total : s[Pick(s, k, total)].id = s[i].id} = Before(s, i) + 1 .. Running(s, i)
    <3>1. \A k \in Before(s, i) + 1 .. Running(s, i) : k \in 1 .. total
      BY <1>2, <2>2
    <3> QED
      BY <1>5, <2>1, <3>1
  <2>4. Cardinality(Before(s, i) + 1 .. Running(s, i)) = s[i].score
    BY <1>1, <2>2, IntervalSize
  <2> QED
    BY <2>3, <2>4
<1>7. CASE i \notin Eligible(s)
  <2>1. s[i].score = 0
    BY <1>1, <1>7 DEF Eligible
  <2>2. {k \in 1 .. total : s[Pick(s, k, total)].id = s[i].id} = {}
    BY <1>4, <1>5, <1>7
  <2> QED
    BY <2>1, <2>2, FS_EmptySet
<1> QED
  BY <1>6, <1>7 DEF total

(* Powers: an induction is the least number without the property.           *)
Recurs(x, n, f) == f = [k \in 0 .. n |-> IF k = 0 THEN 1 ELSE x * f[k - 1]]

(* There is such an f, and only one.                                        *)
LEMMA RecursOnce ==
    ASSUME NEW x, NEW n \in Nat, NEW m \in Nat, n <= m,
           NEW f, Recurs(x, n, f), NEW g, Recurs(x, m, g), NEW k \in 0 .. n
    PROVE  f[k] = g[k]
<1> DEFINE T == {j \in 0 .. n : f[j] # g[j]}
<1> SUFFICES ASSUME T # {} PROVE FALSE
  OBVIOUS
<1>1. T \subseteq Nat
  OBVIOUS
<1>2. PICK j \in T : \A i \in T : j <= i
  BY <1>1, LeastNatural
<1>3. j \in 0 .. n /\ f[j] # g[j]
  BY <1>2
<1>4. /\ f[j] = IF j = 0 THEN 1 ELSE x * f[j - 1]
      /\ g[j] = IF j = 0 THEN 1 ELSE x * g[j - 1]
  BY <1>3 DEF Recurs
<1>5. j # 0 /\ j - 1 \in 0 .. n
  BY <1>3, <1>4
<1>6. f[j - 1] = g[j - 1]
  BY <1>2, <1>3, <1>5
<1> QED
  BY <1>3, <1>4, <1>6

LEMMA RecursExists ==
    ASSUME NEW x, NEW n \in Nat
    PROVE  \E f : Recurs(x, n, f)
<1> DEFINE T == {j \in Nat : ~ \E f : Recurs(x, j, f)}
<1> SUFFICES ASSUME T # {} PROVE FALSE
  OBVIOUS
<1>1. T \subseteq Nat
  OBVIOUS
<1>2. PICK j \in T : \A i \in T : j <= i
  BY <1>1, LeastNatural
<1>3. j \in Nat /\ ~ \E f : Recurs(x, j, f)
  BY <1>2
<1>4. CASE j = 0
  <2>1. Recurs(x, 0, [k \in 0 .. 0 |-> 1])
    BY DEF Recurs
  <2> QED
    BY <1>3, <1>4, <2>1
<1>5. CASE j # 0
  <2>1. PICK f : Recurs(x, j - 1, f)
    BY <1>2, <1>3, <1>5
  <2> DEFINE g == [k \in 0 .. j |-> IF k = j THEN x * f[j - 1] ELSE f[k]]
  <2>2. \A k \in 0 .. j : g[k] = IF k = 0 THEN 1 ELSE x * g[k - 1]
    <3>1. TAKE k \in 0 .. j
    <3>2. CASE k = j
      BY <1>3, <1>5, <3>2
    <3>3. CASE k # j
      <4>1. k \in 0 .. j - 1 /\ f[k] = IF k = 0 THEN 1 ELSE x * f[k - 1]
        BY <1>3, <1>5, <2>1, <3>3 DEF Recurs
      <4> QED
        BY <1>3, <3>3, <4>1
    <3> QED
      BY <3>2, <3>3
  <2>3. g = [k \in 0 .. j |-> g[k]]
    OBVIOUS
  <2> HIDE DEF g
  <2>4. Recurs(x, j, g)
    BY <2>2, <2>3 DEF Recurs
  <2> QED
    BY <1>3, <2>4
<1> QED
  BY <1>4, <1>5

LEMMA PowerSteps ==
    ASSUME NEW x
    PROVE  Power(x, 0) = 1 /\ \A n \in Nat \ {0} : Power(x, n) = x * Power(x, n - 1)
<1> DEFINE P(n) == CHOOSE f : f = [k \in 0 .. n |-> IF k = 0 THEN 1 ELSE x * f[k - 1]]
<1>1. \A n : Power(x, n) = P(n)[n]
  BY DEF Power
<1>2. \A n \in Nat : Recurs(x, n, P(n))
  BY RecursExists DEF Recurs
<1> HIDE DEF P
<1>3. \A n \in Nat : P(n)[n] = IF n = 0 THEN 1 ELSE x * P(n)[n - 1]
  BY <1>2 DEF Recurs
<1>4. \A n \in Nat \ {0} : P(n)[n - 1] = P(n - 1)[n - 1]
  BY <1>2, RecursOnce
<1> QED
  BY <1>1, <1>3, <1>4

LEMMA Multiplied ==
    ASSUME NEW a \in Nat, NEW b \in Nat, NEW c \in Nat, NEW d \in Nat, a <= b, c <= d
    PROVE  a * c \in Nat /\ b * d \in Nat /\ a * c <= b * d
<1>1. a * c <= b * c
  OBVIOUS
<1>2. b * c <= b * d
  OBVIOUS
<1> QED
  BY <1>1, <1>2

LEMMA PowerMonotone ==
    ASSUME NEW x \in Nat, NEW y \in Nat, x <= y, NEW n \in Nat
    PROVE  Power(x, n) \in Nat /\ Power(y, n) \in Nat /\ Power(x, n) <= Power(y, n)
<1> DEFINE Good(j) == Power(x, j) \in Nat /\ Power(y, j) \in Nat /\ Power(x, j) <= Power(y, j)
           T       == {j \in Nat : ~ Good(j)}
<1> SUFFICES ASSUME T # {} PROVE FALSE
  OBVIOUS
<1>1. T \subseteq Nat
  OBVIOUS
<1>2. PICK j \in T : \A i \in T : j <= i
  BY <1>1, LeastNatural
<1>3. j \in Nat /\ ~ Good(j)
  BY <1>2
<1>4. j # 0
  BY <1>3, PowerSteps
<1>5. Good(j - 1) /\ j - 1 \in Nat
  BY <1>2, <1>3, <1>4
<1>6. j \in Nat \ {0}
  BY <1>3, <1>4
<1>7. Power(x, j) = x * Power(x, j - 1)
  BY <1>6, PowerSteps
<1>8. Power(y, j) = y * Power(y, j - 1)
  BY <1>6, PowerSteps
<1> QED
  BY <1>3, <1>5, <1>7, <1>8, Multiplied

LEMMA PowerNatural ==
    ASSUME NEW x \in Nat, NEW n \in Nat
    PROVE  Power(x, n) \in Nat
<1>1. x <= x
  OBVIOUS
<1> QED
  BY <1>1, PowerMonotone

LEMMA PowerPositive ==
    ASSUME NEW x \in Nat \ {0}, NEW n \in Nat
    PROVE  Power(x, n) \in Nat \ {0}
<1> DEFINE T == {j \in Nat : Power(x, j) \notin Nat \ {0}}
<1> SUFFICES ASSUME T # {} PROVE FALSE
  OBVIOUS
<1>1. T \subseteq Nat
  OBVIOUS
<1>2. PICK j \in T : \A i \in T : j <= i
  BY <1>1, LeastNatural
<1>3. j \in Nat /\ Power(x, j) \notin Nat \ {0}
  BY <1>2
<1>4. j # 0
  BY <1>3, PowerSteps
<1>5. Power(x, j - 1) \in Nat \ {0} /\ j - 1 \in Nat
  BY <1>2, <1>3, <1>4
<1>6. Power(x, j) = x * Power(x, j - 1)
  BY <1>5, PowerSteps
<1>7. x * Power(x, j - 1) \in Nat \ {0}
  BY <1>5
<1> QED
  BY <1>3, <1>6, <1>7

-----------------------------------------------------------------------------
(* Roundings.                                                               *)
LEMMA RoundedNear ==
    ASSUME NEW num \in Nat, NEW den \in Nat \ {0}
    PROVE  LET r == Round(num, den)
           IN  /\ r \in Nat
               /\ (2 * r - 1) * den <= 2 * num /\ 2 * num <= (2 * r + 1) * den
               /\ r % 2 # 0 => (2 * r - 1) * den < 2 * num /\ 2 * num < (2 * r + 1) * den
<1> DEFINE q == num \div den
           m == num % den
           r == Round(num, den)
<1>1. q \in Nat /\ m \in 0 .. den - 1 /\ num = q * den + m
  OBVIOUS
<1>2. r = IF 2 * m < den \/ (2 * m = den /\ q % 2 = 0) THEN q ELSE q + 1
  BY DEF Round
<1> HIDE DEF q, m, r
<1>3. (q * den) \in Int /\ (2 * q - 1) * den = 2 * (q * den) - den /\ (2 * q + 1) * den = 2 * (q * den) + den
      /\ (2 * (q + 1) - 1) * den = 2 * (q * den) + den
      /\ (2 * (q + 1) + 1) * den = 2 * (q * den) + 3 * den
  BY <1>1
<1>4. CASE 2 * m < den
  BY <1>1, <1>2, <1>3, <1>4 DEF r
<1>5. CASE 2 * m = den
  <2>1. q % 2 # 0 => (q + 1) % 2 = 0
    BY <1>1
  <2> QED
    BY <1>1, <1>2, <1>3, <1>5, <2>1 DEF r
<1>6. CASE 2 * m > den
  BY <1>1, <1>2, <1>3, <1>6 DEF r
<1> QED
  BY <1>1, <1>4, <1>5, <1>6

(* Of the smaller ratio the rounding is not greater.                        *)
LEMMA RoundMonotone ==
    ASSUME NEW n1 \in Nat, NEW d1 \in Nat \ {0}, NEW n2 \in Nat, NEW d2 \in Nat \ {0},
           n1 * d2 <= n2 * d1
    PROVE  Round(n1, d1) <= Round(n2, d2)
<1> DEFINE r1 == Round(n1, d1)
           r2 == Round(n2, d2)
<1>1. /\ r1 \in Nat /\ r2 \in Nat
      /\ (2 * r1 - 1) * d1 <= 2 * n1 /\ (r1 % 2 # 0 => (2 * r1 - 1) * d1 < 2 * n1)
      /\ 2 * n2 <= (2 * r2 + 1) * d2 /\ (r2 % 2 # 0 => 2 * n2 < (2 * r2 + 1) * d2)
  BY RoundedNear
<1> HIDE DEF r1, r2
<1> SUFFICES ASSUME r1 > r2 PROVE FALSE
  BY <1>1 DEF r1, r2
<1>2. (2 * r1 - 1) * d1 * d2 <= 2 * n1 * d2 /\ 2 * n2 * d1 <= (2 * r2 + 1) * d2 * d1
  <2>1. ((2 * r1 - 1) * d1) * d2 <= (2 * n1) * d2
    BY <1>1
  <2>2. (2 * n2) * d1 <= ((2 * r2 + 1) * d2) * d1
    BY <1>1
  <2> QED
    BY <1>1, <2>1, <2>2
<1>3. 2 * n1 * d2 <= 2 * n2 * d1
  OBVIOUS
<1> DEFINE d == d1 * d2
<1>4. d \in Nat \ {0} /\ (2 * r1 - 1) * d1 * d2 = (2 * r1 - 1) * d /\ (2 * r2 + 1) * d2 * d1 = (2 * r2 + 1) * d
  BY <1>1
<1> HIDE DEF d
<1>5. (2 * r1 - 1) * d <= (2 * r2 + 1) * d
  BY <1>1, <1>2, <1>3, <1>4
<1>6. 2 * r1 - 1 <= 2 * r2 + 1
  BY <1>1, <1>4, <1>5
<1>7. r1 = r2 + 1
  BY <1>1, <1>6
<1>8. r1 % 2 # 0 \/ r2 % 2 # 0
  BY <1>1, <1>7
<1>9. (2 * r1 - 1) * d1 * d2 = (2 * r2 + 1) * d2 * d1
  BY <1>1, <1>4, <1>7
<1>10. CASE r1 % 2 # 0
  <2>1. ((2 * r1 - 1) * d1) * d2 < (2 * n1) * d2
    BY <1>1, <1>10
  <2> QED
    BY <1>1, <1>2, <1>3, <1>9, <2>1
<1>11. CASE r2 % 2 # 0
  <2>1. (2 * n2) * d1 < ((2 * r2 + 1) * d2) * d1
    BY <1>1, <1>11
  <2> QED
    BY <1>1, <1>2, <1>3, <1>9, <2>1
<1> QED
  BY <1>8, <1>10, <1>11

(* A ratio up to a limit is rounded to a number up to it.                   *)
LEMMA RoundBounded ==
    ASSUME NEW num \in Nat, NEW den \in Nat \ {0}, NEW limit \in Nat, num <= limit * den
    PROVE  Round(num, den) \in 0 .. limit
<1>1. (limit * den) \div den = limit /\ (limit * den) % den = 0 /\ limit * den \in Nat
  OBVIOUS
<1>2. Round(limit * den, den) = limit
  BY <1>1 DEF Round
<1>3. num * den <= (limit * den) * den
  BY <1>1, Multiplied
<1>4. Round(num, den) <= limit
  BY <1>1, <1>2, <1>3, RoundMonotone
<1> QED
  BY <1>4, RoundedNear

-----------------------------------------------------------------------------
(* n is the integer next to the root of num / den; of two the even one.     *)
Nearest(num, den, n) ==
    /\ n = 0 \/ Square(2 * n - 1) * den < 4 * num \/ (Square(2 * n - 1) * den = 4 * num /\ n % 2 = 0)
    /\ 4 * num < Square(2 * n + 1) * den \/ (4 * num = Square(2 * n + 1) * den /\ n % 2 = 0)

LEMMA NearestIsChosen ==
    ASSUME NEW num \in Nat, NEW den \in Nat \ {0}, NEW limit \in Nat, NEW n \in 0 .. limit,
           Nearest(num, den, n)
    PROVE  /\ RoundRoot(num, den, limit) \in 0 .. limit
           /\ Nearest(num, den, RoundRoot(num, den, limit))
<1> DEFINE P(m) == LET low  == IF m = 0 THEN -1 ELSE Square(2 * m - 1) * den
                       high == Square(2 * m + 1) * den
                   IN  \/ low < 4 * num /\ 4 * num < high
                       \/ 4 * num \in {low, high} /\ m % 2 = 0
<1>1. ASSUME NEW m \in 0 .. limit PROVE P(m) <=> Nearest(num, den, m)
  <2>1. Square(2 * m - 1) * den \in Int /\ Square(2 * m + 1) * den \in Int
    BY DEF Square
  <2>2. m # 0 => Square(2 * m - 1) * den < Square(2 * m + 1) * den
    <3>1. HAVE m # 0
    <3>2. Square(2 * m - 1) < Square(2 * m + 1) /\ Square(2 * m - 1) \in Int /\ Square(2 * m + 1) \in Int
      BY <3>1 DEF Square
    <3> QED
      BY <3>2
  <2>3. m = 0 => Square(2 * m + 1) * den > 0
    BY DEF Square
  <2> QED
    BY <2>1, <2>2, <2>3 DEF Nearest
<1>2. RoundRoot(num, den, limit) = CHOOSE m \in 0 .. limit : P(m)
  BY DEF RoundRoot
<1> HIDE DEF P
<1>3. \E m \in 0 .. limit : P(m)
  BY <1>1
<1>4. RoundRoot(num, den, limit) \in 0 .. limit /\ P(RoundRoot(num, den, limit))
  BY <1>2, <1>3
<1> QED
  BY <1>1, <1>4

LEMMA NearestExists ==
    ASSUME NEW num \in Nat, NEW den \in Nat \ {0}, NEW limit \in Nat,
           num <= Square(limit) * den
    PROVE  /\ RoundRoot(num, den, limit) \in 0 .. limit
           /\ Nearest(num, den, RoundRoot(num, den, limit))
<1> DEFINE Below(n) == \/ 4 * num < Square(2 * n + 1) * den
                       \/ 4 * num = Square(2 * n + 1) * den /\ n % 2 = 0
           T        == {n \in Nat : Below(n)}
<1>1. limit \in T
  <2>1. /\ Square(limit) * den \in Nat /\ limit * den \in Nat
        /\ Square(2 * limit + 1) * den = 4 * (Square(limit) * den) + 4 * (limit * den) + den
    BY DEF Square
  <2> QED
    BY <2>1
<1>2. PICK n \in T : \A m \in T : n <= m
  <2>1. T \subseteq Nat /\ T # {}
    BY <1>1
  <2> QED
    BY <2>1, LeastNatural
<1>3. n \in 0 .. limit /\ Below(n)
  BY <1>1, <1>2
<1>4. CASE n = 0
  BY <1>3, <1>4, NearestIsChosen DEF Nearest
<1>5. CASE n # 0
  <2>1. n - 1 \in Nat /\ ~ Below(n - 1)
    BY <1>2, <1>3, <1>5
  <2>2. 2 * (n - 1) + 1 = 2 * n - 1
    BY <1>3
  <2>3. Square(2 * n - 1) * den \in Int
    BY <1>3 DEF Square
  <2>4. (n - 1) % 2 = 0 \/ n % 2 = 0
    BY <1>3
  <2>5. Square(2 * n - 1) * den < 4 * num \/ (Square(2 * n - 1) * den = 4 * num /\ n % 2 = 0)
    BY <2>1, <2>2, <2>3, <2>4
  <2> QED
    BY <1>3, <2>5, NearestIsChosen DEF Nearest
<1> QED
  BY <1>4, <1>5

(* Of the smaller number the rounded root is not greater.                   *)
LEMMA RootMonotone ==
    ASSUME NEW num1 \in Nat, NEW num2 \in Nat, NEW den \in Nat \ {0}, num1 <= num2,
           NEW r1 \in Nat, NEW r2 \in Nat, Nearest(num1, den, r1), Nearest(num2, den, r2)
    PROVE  r1 <= r2
<1> SUFFICES ASSUME r1 > r2 PROVE FALSE
  OBVIOUS
<1>1. Square(2 * r2 + 1) <= Square(2 * r1 - 1) /\ (r1 # r2 + 1 => Square(2 * r2 + 1) < Square(2 * r1 - 1))
  BY DEF Square
<1>2. Square(2 * r2 + 1) \in Int /\ Square(2 * r1 - 1) \in Int
  BY DEF Square
<1>3. /\ Square(2 * r2 + 1) * den <= Square(2 * r1 - 1) * den
      /\ (r1 # r2 + 1 => Square(2 * r2 + 1) * den < Square(2 * r1 - 1) * den)
      /\ Square(2 * r2 + 1) * den \in Int /\ Square(2 * r1 - 1) * den \in Int
  BY <1>1, <1>2
<1>4. /\ Square(2 * r1 - 1) * den <= 4 * num1 /\ 4 * num2 <= Square(2 * r2 + 1) * den
      /\ Square(2 * r1 - 1) * den < 4 * num1 \/ r1 % 2 = 0
      /\ 4 * num2 < Square(2 * r2 + 1) * den \/ r2 % 2 = 0
  BY <1>3 DEF Nearest
<1>5. r1 = r2 + 1 /\ r1 % 2 = 0 /\ r2 % 2 = 0
  BY <1>3, <1>4
<1> QED
  BY <1>5

-----------------------------------------------------------------------------
(* The factors.                                                             *)
LEMMA LatencyFactorFacts ==
    ASSUME NEW l \in Nat \cup {Unmeasured}
    PROVE  /\ LatencyFactor(l) \in 0 .. Parts
           /\ \A m \in Nat : l # Unmeasured /\ l <= m => LatencyFactor(m) <= LatencyFactor(l)
<1> USE ScaleAssumption
<1> DEFINE B      == 10 * LatencyBaseline
           num(m) == (B - 6 * Min({m, LatencyBaseline})) * Parts
<1>1. B \in Nat \ {0}
  OBVIOUS
<1>2. \A m \in Nat : LatencyFactor(m) = Round(num(m), B)
  BY DEF LatencyFactor, Unmeasured
<1>3. \A m \in Nat : num(m) \in Nat /\ num(m) <= Parts * B
  <2>1. TAKE m \in Nat
  <2>2. Min({m, LatencyBaseline}) \in 0 .. LatencyBaseline
    BY LesserOfTwo
  <2> QED
    BY <2>2
<1>4. \A m, k \in Nat : m <= k => num(k) <= num(m)
  <2>1. TAKE m, k \in Nat
  <2>2. HAVE m <= k
  <2>3. /\ Min({m, LatencyBaseline}) \in 0 .. LatencyBaseline
        /\ Min({k, LatencyBaseline}) \in 0 .. LatencyBaseline
        /\ Min({m, LatencyBaseline}) <= Min({k, LatencyBaseline})
    BY <2>2, LesserOfTwo
  <2> QED
    BY <2>3
<1> HIDE DEF B, num
<1>5. \A m \in Nat : LatencyFactor(m) \in 0 .. Parts
  <2>1. TAKE m \in Nat
  <2>2. Round(num(m), B) \in 0 .. Parts
    BY <1>1, <1>3, RoundBounded
  <2> QED
    BY <1>2, <2>2
<1>6. \A m, k \in Nat : m <= k => LatencyFactor(k) <= LatencyFactor(m)
  <2>1. TAKE m, k \in Nat
  <2>2. HAVE m <= k
  <2>3. num(k) * B <= num(m) * B
    BY <1>1, <1>3, <1>4, <2>2
  <2>4. Round(num(k), B) <= Round(num(m), B)
    BY <1>1, <1>3, <2>3, RoundMonotone
  <2> QED
    BY <1>2, <2>4
<1>7. LatencyFactor(Unmeasured) \in 0 .. Parts
  BY DEF LatencyFactor
<1> QED
  BY <1>5, <1>6, <1>7

LEMMA CostFactorFacts ==
    ASSUME NEW c \in Nat
    PROVE  /\ CostFactor(c) \in 0 .. Parts
           /\ \A d \in Nat : c <= d => CostFactor(d) <= CostFactor(c)
<1> USE ScaleAssumption
<1> DEFINE num(d) == Min({CostBaseline, d}) * Parts
<1>1. \A d \in Nat : CostFactor(d) = IF d = 0 THEN Parts ELSE Round(num(d), d)
  BY DEF CostFactor
<1>2. \A d \in Nat : num(d) \in Nat /\ num(d) <= Parts * d
  <2>1. TAKE d \in Nat
  <2>2. Min({CostBaseline, d}) \in 0 .. d
    BY LesserOfTwo
  <2> QED
    BY <2>2
<1>3. \A d, e \in Nat : d <= e => num(e) * d <= num(d) * e
  <2>1. TAKE d, e \in Nat
  <2>2. HAVE d <= e
  <2>3. /\ Min({CostBaseline, d}) \in Nat /\ Min({CostBaseline, e}) \in Nat
        /\ Min({CostBaseline, e}) * d <= Min({CostBaseline, d}) * e
    BY <2>2, LesserOfTwo
  <2>4. (Min({CostBaseline, e}) * d) * Parts <= (Min({CostBaseline, d}) * e) * Parts
    <3>1. /\ Min({CostBaseline, e}) * d \in Nat /\ Min({CostBaseline, d}) * e \in Nat
          /\ Parts \in Nat /\ Parts <= Parts
      BY <2>3
    <3> QED
      BY <2>3, <3>1, Multiplied
  <2> QED
    BY <2>3, <2>4
<1> HIDE DEF num
<1>4. \A d \in Nat : CostFactor(d) \in 0 .. Parts
  <2>1. TAKE d \in Nat
  <2>2. CASE d = 0
    BY <1>1, <2>2
  <2>3. CASE d # 0
    <3>1. Round(num(d), d) \in 0 .. Parts
      BY <1>2, <2>3, RoundBounded
    <3> QED
      BY <1>1, <2>3, <3>1
  <2> QED
    BY <2>2, <2>3
<1>5. \A d \in Nat : c <= d => CostFactor(d) <= CostFactor(c)
  <2>1. TAKE d \in Nat
  <2>2. HAVE c <= d
  <2>3. CASE c = 0
    BY <1>1, <1>4, <2>3
  <2>4. CASE c # 0
    <3>1. num(d) * c <= num(c) * d
      BY <1>3, <2>2
    <3>2. c \in Nat \ {0} /\ d \in Nat \ {0}
      BY <2>2, <2>4
    <3>3. num(c) \in Nat /\ num(d) \in Nat
      BY <1>2
    <3>4. Round(num(d), d) <= Round(num(c), c)
      BY <3>1, <3>2, <3>3, RoundMonotone
    <3> QED
      BY <1>1, <3>2, <3>4
  <2> QED
    BY <2>3, <2>4
<1> QED
  BY <1>4, <1>5

-----------------------------------------------------------------------------
(* What the API and the database let a candidate be.                        *)
Scorable(c) ==
    /\ c.id \in Int /\ c.weight \in Nat \ {0} /\ c.cost \in Nat
    /\ c.health \in DOMAIN HEALTH_FACTOR /\ c.latency \in Nat \cup {Unmeasured}

(* A score is the root of Num / Den, rounded.                               *)
Num(policy, c) ==
    Square(c.weight * HEALTH_FACTOR[c.health] * Parts)
        * (Power(LatencyFactor(c.latency), POLICY_FACTORS[policy].latency)
           * Power(CostFactor(c.cost), POLICY_FACTORS[policy].cost))

Den(policy) ==
    4 * (Power(Parts, POLICY_FACTORS[policy].latency) * Power(Parts, POLICY_FACTORS[policy].cost))

LEMMA SquareMonotone ==
    ASSUME NEW a \in Nat, NEW b \in Nat, a <= b
    PROVE  Square(a) \in Nat /\ Square(b) \in Nat /\ Square(a) <= Square(b)
  BY Multiplied DEF Square

LEMMA DenPositive ==
    ASSUME NEW policy \in DOMAIN POLICY_FACTORS
    PROVE  /\ Den(policy) \in Nat \ {0}
           /\ POLICY_FACTORS[policy].latency \in Nat /\ POLICY_FACTORS[policy].cost \in Nat
<1>1. POLICY_FACTORS[policy].latency \in Nat /\ POLICY_FACTORS[policy].cost \in Nat
  BY DEF POLICY_FACTORS
<1>2. /\ Power(Parts, POLICY_FACTORS[policy].latency) \in Nat \ {0}
      /\ Power(Parts, POLICY_FACTORS[policy].cost) \in Nat \ {0}
  BY <1>1, ScaleAssumption, PowerPositive
<1>3. \A a, b \in Nat \ {0} : 4 * (a * b) \in Nat \ {0}
  OBVIOUS
<1> QED
  BY <1>1, <1>2, <1>3 DEF Den

LEMMA HealthInHalves ==
    ASSUME NEW h \in DOMAIN HEALTH_FACTOR
    PROVE  HEALTH_FACTOR[h] \in 0 .. 2
  BY DEF HEALTH_FACTOR

LEMMA FactorsInRange ==
    ASSUME NEW c, Scorable(c)
    PROVE  /\ LatencyFactor(c.latency) \in Nat /\ LatencyFactor(c.latency) <= Parts
           /\ CostFactor(c.cost) \in Nat /\ CostFactor(c.cost) <= Parts
<1>1. c.latency \in Nat \cup {Unmeasured} /\ c.cost \in Nat /\ Parts \in Nat
  BY ScaleAssumption DEF Scorable
<1>2. LatencyFactor(c.latency) \in 0 .. Parts
  BY <1>1, LatencyFactorFacts
<1>3. CostFactor(c.cost) \in 0 .. Parts
  BY <1>1, CostFactorFacts
<1> QED
  BY <1>1, <1>2, <1>3

(* The numerator is in the range of the root, and grows with what is better. *)
LEMMA NumBounded ==
    ASSUME NEW policy \in DOMAIN POLICY_FACTORS, NEW c, Scorable(c)
    PROVE  /\ Num(policy, c) \in Nat
           /\ c.weight * Parts \in Nat
           /\ Num(policy, c) <= Square(c.weight * Parts) * Den(policy)
<1> DEFINE a  == POLICY_FACTORS[policy].latency
           b  == POLICY_FACTORS[policy].cost
           h  == HEALTH_FACTOR[c.health]
           X  == Power(LatencyFactor(c.latency), a) * Power(CostFactor(c.cost), b)
           Y  == Power(Parts, a) * Power(Parts, b)
           w  == c.weight * Parts
<1>1. a \in Nat /\ b \in Nat
  BY DenPositive
<1>2. /\ h \in 0 .. 2 /\ w \in Nat /\ c.weight \in Nat /\ Parts \in Nat
  BY ScaleAssumption, HealthInHalves DEF Scorable
<1>3. /\ LatencyFactor(c.latency) \in Nat /\ LatencyFactor(c.latency) <= Parts
      /\ CostFactor(c.cost) \in Nat /\ CostFactor(c.cost) <= Parts
  BY FactorsInRange
<1>4. X \in Nat /\ Y \in Nat /\ X <= Y
  <2>1. /\ Power(LatencyFactor(c.latency), a) \in Nat /\ Power(Parts, a) \in Nat
        /\ Power(LatencyFactor(c.latency), a) <= Power(Parts, a)
    BY <1>1, <1>2, <1>3, PowerMonotone
  <2>2. /\ Power(CostFactor(c.cost), b) \in Nat /\ Power(Parts, b) \in Nat
        /\ Power(CostFactor(c.cost), b) <= Power(Parts, b)
    BY <1>1, <1>2, <1>3, PowerMonotone
  <2> QED
    BY <2>1, <2>2, Multiplied
<1>5. /\ Num(policy, c) = Square(c.weight * h * Parts) * X /\ Den(policy) = 4 * Y
  BY DEF Num, Den
<1> HIDE DEF X, Y
<1>6. c.weight * h * Parts \in Nat /\ c.weight * h * Parts <= 2 * w
  <2>1. c.weight * h * Parts = h * w
    BY <1>2
  <2>2. h * w \in Nat /\ h * w <= 2 * w
    BY <1>2, Multiplied
  <2> QED
    BY <2>1, <2>2
<1> HIDE DEF w
<1>7. Square(c.weight * h * Parts) \in Nat /\ Square(c.weight * h * Parts) <= Square(2 * w)
  BY <1>2, <1>6, SquareMonotone
<1>8. Square(2 * w) = 4 * Square(w) /\ Square(w) \in Nat
  BY <1>2 DEF Square
<1>9. Num(policy, c) \in Nat /\ Num(policy, c) <= (4 * Square(w)) * Y
  BY <1>4, <1>5, <1>7, <1>8, Multiplied
<1>10. (4 * Square(w)) * Y = Square(w) * (4 * Y)
  BY <1>4, <1>8
<1> QED
  BY <1>2, <1>5, <1>9, <1>10 DEF w

LEMMA NumMonotone ==
    ASSUME NEW policy \in DOMAIN POLICY_FACTORS, NEW c, Scorable(c), NEW d, Scorable(d), NoWorse(c, d)
    PROVE  Num(policy, d) <= Num(policy, c)
<1> DEFINE a    == POLICY_FACTORS[policy].latency
           b    == POLICY_FACTORS[policy].cost
           h(e) == HEALTH_FACTOR[e.health]
           W(e) == e.weight * h(e) * Parts
           X(e) == Power(LatencyFactor(e.latency), a) * Power(CostFactor(e.cost), b)
<1>1. a \in Nat /\ b \in Nat
  BY DenPositive
<1>2. LatencyFactor(c.latency) \in Nat /\ LatencyFactor(d.latency) \in Nat
  BY FactorsInRange
<1>3. LatencyFactor(d.latency) <= LatencyFactor(c.latency)
  <2>1. CASE c.latency = Unmeasured
    BY <1>2, <2>1 DEF NoWorse
  <2>2. CASE c.latency # Unmeasured
    <3>1. c.latency \in Nat /\ d.latency \in Nat /\ c.latency <= d.latency
      BY <2>2 DEF NoWorse, Scorable
    <3> QED
      BY <2>2, <3>1, LatencyFactorFacts
  <2> QED
    BY <2>1, <2>2
<1>4. /\ CostFactor(c.cost) \in Nat /\ CostFactor(d.cost) \in Nat
      /\ CostFactor(d.cost) <= CostFactor(c.cost)
  BY CostFactorFacts DEF Scorable, NoWorse
<1>5. X(d) \in Nat /\ X(c) \in Nat /\ X(d) <= X(c)
  <2>1. /\ Power(LatencyFactor(d.latency), a) \in Nat /\ Power(LatencyFactor(c.latency), a) \in Nat
        /\ Power(LatencyFactor(d.latency), a) <= Power(LatencyFactor(c.latency), a)
    BY <1>1, <1>2, <1>3, PowerMonotone
  <2>2. /\ Power(CostFactor(d.cost), b) \in Nat /\ Power(CostFactor(c.cost), b) \in Nat
        /\ Power(CostFactor(d.cost), b) <= Power(CostFactor(c.cost), b)
    BY <1>1, <1>4, PowerMonotone
  <2> QED
    BY <2>1, <2>2, Multiplied
<1>6. W(d) \in Nat /\ W(c) \in Nat /\ W(d) <= W(c)
  <2>1. /\ h(c) \in Nat /\ h(d) \in Nat /\ h(d) <= h(c) /\ Parts \in Nat /\ Parts <= Parts
        /\ c.weight \in Nat /\ d.weight \in Nat /\ d.weight <= c.weight
    BY ScaleAssumption, HealthInHalves DEF Scorable, NoWorse
  <2> HIDE DEF h
  <2>2. d.weight * h(d) \in Nat /\ c.weight * h(c) \in Nat /\ d.weight * h(d) <= c.weight * h(c)
    BY <2>1, Multiplied
  <2> QED
    BY <2>1, <2>2, Multiplied
<1>7. Num(policy, d) = Square(W(d)) * X(d) /\ Num(policy, c) = Square(W(c)) * X(c)
  BY DEF Num
<1> HIDE DEF W, X
<1>8. Square(W(d)) \in Nat /\ Square(W(c)) \in Nat /\ Square(W(d)) <= Square(W(c))
  BY <1>6, SquareMonotone
<1> QED
  BY <1>5, <1>7, <1>8, Multiplied

(* What a score is worth: a number of parts, none for those that are left   *)
(* out, and of two candidates not less for the one that is no worse.        *)
LEMMA ScoreIsNearest ==
    ASSUME NEW policy \in DOMAIN POLICY_FACTORS, NEW c, Scorable(c)
    PROVE  Score(policy, c) \in Nat /\ Nearest(Num(policy, c), Den(policy), Score(policy, c))
<1>1. Score(policy, c) = RoundRoot(Num(policy, c), Den(policy), c.weight * Parts)
  BY DEF Score, Num, Den
<1>2. Den(policy) \in Nat \ {0}
  BY DenPositive
<1> QED
  BY <1>1, <1>2, NumBounded, NearestExists

LEMMA ScoreOfExcluded ==
    ASSUME NEW policy \in DOMAIN POLICY_FACTORS, NEW c, Scorable(c), HEALTH_FACTOR[c.health] = 0
    PROVE  Score(policy, c) = 0
<1> DEFINE n == Score(policy, c)
<1>1. n \in Nat /\ Nearest(Num(policy, c), Den(policy), n)
  BY ScoreIsNearest
<1>2. Num(policy, c) = 0
  <2> DEFINE X == Power(LatencyFactor(c.latency), POLICY_FACTORS[policy].latency)
                     * Power(CostFactor(c.cost), POLICY_FACTORS[policy].cost)
  <2>1. c.weight * 0 * Parts = 0
    BY ScaleAssumption DEF Scorable
  <2>2. X \in Int
    <3>1. LatencyFactor(c.latency) \in Nat /\ CostFactor(c.cost) \in Nat
      BY FactorsInRange
    <3>2. POLICY_FACTORS[policy].latency \in Nat /\ POLICY_FACTORS[policy].cost \in Nat
      BY DenPositive
    <3>3. Power(LatencyFactor(c.latency), POLICY_FACTORS[policy].latency) \in Nat
      BY <3>1, <3>2, PowerNatural
    <3>4. Power(CostFactor(c.cost), POLICY_FACTORS[policy].cost) \in Nat
      BY <3>1, <3>2, PowerNatural
    <3> QED
      BY <3>3, <3>4
  <2>3. Num(policy, c) = Square(0) * X
    BY <2>1 DEF Num
  <2> HIDE DEF X
  <2> QED
    BY <2>2, <2>3 DEF Square
<1>3. Den(policy) \in Nat \ {0}
  BY DenPositive
<1> HIDE DEF n
<1>4. ASSUME n # 0 PROVE FALSE
  <2>1. \A m \in Nat \ {0} : Square(2 * m - 1) \in Nat \ {0}
    BY DEF Square
  <2>2. Square(2 * n - 1) \in Nat \ {0}
    BY <1>1, <1>4, <2>1
  <2>3. \A k, m \in Nat \ {0} : k * m \in Nat \ {0}
    OBVIOUS
  <2>4. Square(2 * n - 1) * Den(policy) > 0 /\ Square(2 * n - 1) * Den(policy) \in Nat
    BY <1>3, <2>2, <2>3
  <2> QED
    BY <1>1, <1>2, <1>4, <2>4 DEF Nearest
<1> QED
  BY <1>4 DEF n

LEMMA ScoreMonotone ==
    ASSUME NEW policy \in DOMAIN POLICY_FACTORS, NEW c, Scorable(c), NEW d, Scorable(d), NoWorse(c, d)
    PROVE  Score(policy, d) <= Score(policy, c)
<1>1. Den(policy) \in Nat \ {0}
  BY DenPositive
<1>2. Num(policy, d) \in Nat /\ Num(policy, c) \in Nat /\ Num(policy, d) <= Num(policy, c)
  BY NumBounded, NumMonotone
<1>3. /\ Score(policy, c) \in Nat /\ Nearest(Num(policy, c), Den(policy), Score(policy, c))
      /\ Score(policy, d) \in Nat /\ Nearest(Num(policy, d), Den(policy), Score(policy, d))
  BY ScoreIsNearest
<1> QED
  BY <1>1, <1>2, <1>3, RootMonotone

(* Candidates of a ranking: no two have the same id.                        *)
Rankable(policy, C) ==
    /\ policy \in DOMAIN POLICY_FACTORS /\ IsFiniteSet(C)
    /\ \A c \in C : Scorable(c)
    /\ \A c, d \in C : c.id = d.id => c = d

LEMMA ScoredFacts ==
    ASSUME NEW policy, NEW C, Rankable(policy, C), NEW c \in C
    PROVE  /\ Scored(policy, c).id = c.id /\ Scored(policy, c).id \in Int
           /\ Scored(policy, c).score = Score(policy, c) /\ Scored(policy, c).score \in Nat
           /\ Scored(policy, c).excluded = (HEALTH_FACTOR[c.health] = 0)
           /\ Scored(policy, c).excluded => Scored(policy, c).score = 0
<1>1. Score(policy, c) \in Nat /\ (HEALTH_FACTOR[c.health] = 0 => Score(policy, c) = 0)
  BY ScoreIsNearest, ScoreOfExcluded DEF Rankable
<1> QED
  BY <1>1 DEF Scored, Rankable, Scorable

LEMMA ScoredEntries ==
    ASSUME NEW policy, NEW C, Rankable(policy, C)
    PROVE  Entries({Scored(policy, c) : c \in C})
<1> DEFINE S == {Scored(policy, c) : c \in C}
           f == [c \in C |-> Scored(policy, c)]
<1>1. f \in Surjection(C, S)
  BY DEF Surjection
<1>2. IsFiniteSet(S)
  BY <1>1, FS_Surjection DEF Rankable
<1>3. \A x \in S : x.score \in Int /\ x.id \in Int
  BY ScoredFacts
<1>4. \A x, y \in S : x.id = y.id => x = y
  BY ScoredFacts DEF Rankable
<1> QED
  BY <1>2, <1>3, <1>4 DEF Entries

(* A ranking holds each candidate once, in order.                           *)
LEMMA RankedFacts ==
    ASSUME NEW policy, NEW C, Rankable(policy, C), NEW s, s = Ranked(policy, C)
    PROVE  /\ \E n \in Nat : IsRanking(s, n)
           /\ \A i \in DOMAIN s : \E c \in C : s[i] = Scored(policy, c)
           /\ \A c \in C : \E i \in DOMAIN s : s[i] = Scored(policy, c)
           /\ \A i, j \in DOMAIN s : i < j => Precedes(s[i], s[j])
<1> DEFINE S == {Scored(policy, c) : c \in C}
           n == Cardinality(S)
<1>1. Entries(S) /\ IsFiniteSet(S)
  BY ScoredEntries DEF Entries
<1>2. s = CHOOSE t \in SetToSeqs(S) : \A i, j \in DOMAIN t : i < j => Precedes(t[i], t[j])
  BY DEF Ranked
<1>3. \A x \in S : \E c \in C : x = Scored(policy, c)
  OBVIOUS
<1>4. \A c \in C : Scored(policy, c) \in S
  OBVIOUS
<1> HIDE DEF S
<1>5. s \in SetToSeqs(S) /\ \A i, j \in DOMAIN s : i < j => Precedes(s[i], s[j])
  BY <1>1, <1>2, AnOrderExists
<1>6. s \in [1 .. n -> S] /\ \A i, j \in 1 .. n : i # j => s[i] # s[j]
  BY <1>5 DEF SetToSeqs
<1>7. n \in Nat
  BY <1>1, FS_CardinalityType
<1>8. \A x \in S : \E i \in 1 .. n : s[i] = x
  <2>1. IsFiniteSet(1 .. n) /\ Cardinality(1 .. n) = n
    BY <1>7, FS_Interval
  <2>2. s \in Injection(1 .. n, S)
    BY <1>6 DEF Injection, IsInjective
  <2>3. s \in Surjection(1 .. n, S)
    BY <1>1, <2>1, <2>2, FS_Injection
  <2> QED
    BY <2>3 DEF Surjection
<1> HIDE DEF n
<1>9. \A x \in S : x.score \in Nat /\ (x.excluded => x.score = 0)
  BY <1>3, ScoredFacts
<1>10. \A x, y \in S : x.id = y.id => x = y
  BY <1>1 DEF Entries
<1>11. IsRanking(s, n)
  BY <1>6, <1>7, <1>9, <1>10 DEF IsRanking
<1> QED
  BY <1>3, <1>4, <1>5, <1>6, <1>7, <1>8, <1>11

LEMMA RankedIsFair ==
    ASSUME NEW policy, NEW C, Rankable(policy, C)
    PROVE  FairShares(Ranked(policy, C))
  BY RankedFacts, RankingIsFair

(* One that is no worse than another one comes first or has the same score, *)
(* and then the smaller id.                                                 *)
LEMMA BetterIsBefore ==
    ASSUME NEW policy, NEW C, Rankable(policy, C), NEW s, s = Ranked(policy, C),
           NEW c \in C, NEW d \in C, NoWorse(c, d),
           NEW i \in DOMAIN s, s[i].id = c.id, NEW j \in DOMAIN s, s[j].id = d.id, j < i
    PROVE  s[i].score = s[j].score /\ d.id < c.id
<1>1. PICK x \in C : s[i] = Scored(policy, x)
  BY RankedFacts
<1>2. PICK y \in C : s[j] = Scored(policy, y)
  BY RankedFacts
<1>3. x = c /\ y = d
  BY <1>1, <1>2, ScoredFacts DEF Rankable
<1>4. /\ s[i].score = Score(policy, c) /\ s[j].score = Score(policy, d)
      /\ Score(policy, c) \in Nat /\ Score(policy, d) \in Nat /\ c.id \in Int /\ d.id \in Int
  BY <1>1, <1>2, <1>3, ScoredFacts
<1>5. Score(policy, d) <= Score(policy, c)
  BY ScoreMonotone DEF Rankable
<1>6. Precedes(s[j], s[i])
  BY RankedFacts
<1> QED
  BY <1>4, <1>5, <1>6 DEF Precedes

-----------------------------------------------------------------------------
(* The inductive invariant of the specification.                           *)

(* A request is where its kind leads, and has a report only if it has not   *)
(* failed.                                                                  *)
ControlOK(r) ==
    /\ r \in Reporters => pc[r] \in {"idle", "report", "commit"} \cup Ended
    /\ r \in Rankers => /\ pc[r] \in {"idle", "candidates", "health", "commit"} \cup Ended
                        /\ report[r] = NoReport
    /\ pc[r] = "report" => call[r] \in ReportCalls /\ call[r].at \in Instants
    /\ report[r] # NoReport => pc[r] \in {"commit", "committed"}
    /\ pc[r] \in {"idle", "candidates", "health"} => DOMAIN health[r] = {}
    /\ \A p \in known[r] : p \in Reporters /\ pc[p] = "committed"
    /\ \A b \in DOMAIN candidates[r] : candidates[r][b] \in Offers
    /\ r \in Rankers /\ pc[r] \in {"health", "commit", "committed"}
          => call[r].policy \in DOMAIN POLICY_FACTORS

(* What a ranking has read of a backend is a report that was committed, and *)
(* none of those it had to know is newer.                                   *)
ReadOK(r, b) ==
    /\ health[r][b] = NoReport \/ \E p \in Visible(b) : health[r][b] = report[p]
    /\ \A p \in known[r] : report[p] # NoReport /\ report[p].backend = b
          => health[r][b] # NoReport /\ report[p].at <= health[r][b].at

IInv ==
    /\ TypeOK
    /\ DOMAIN candidates = Requests /\ DOMAIN health = Requests /\ DOMAIN known = Requests
    /\ \A r \in Requests : ControlOK(r)
    /\ \A r \in Rankings : /\ DOMAIN health[r] = DOMAIN candidates[r]
                           /\ \A b \in DOMAIN candidates[r] : ReadOK(r, b)

-----------------------------------------------------------------------------
USE RoutingAssumption

LEMMA InitInv == Init => IInv
<1> SUFFICES ASSUME Init PROVE IInv
  OBVIOUS
<1>1. TypeOK
  BY DEF Init, TypeOK, Instants
<1>2. \A r \in Requests : DOMAIN health[r] = {}
  BY DEF Init
<1>3. \A r \in Requests : ControlOK(r)
  BY <1>2 DEF Init, ControlOK
<1> QED
  BY <1>1, <1>3 DEF Init, IInv, Rankings, Requests

-----------------------------------------------------------------------------
(* A step of request r that has not ended yet.                              *)
Own(r) ==
    /\ pc[r] \notin Ended
    /\ \A s \in Requests \ {r} :
          /\ pc'[s] = pc[s] /\ call'[s] = call[s] /\ report'[s] = report[s]
          /\ candidates'[s] = candidates[s] /\ health'[s] = health[s] /\ known'[s] = known[s]
    /\ DOMAIN candidates' = Requests /\ DOMAIN health' = Requests /\ DOMAIN known' = Requests

(* What has been committed stays visible.                                   *)
LEMMA VisibleStays ==
    ASSUME NEW r \in Requests, Own(r), NEW b
    PROVE  \A p \in Visible(b) : p \in Visible(b)' /\ report'[p] = report[p]
  BY DEF Own, Visible, Requests, Ended

LEMMA ReadStays ==
    ASSUME IInv, NEW r \in Requests, Own(r), NEW s \in Requests, NEW b, ReadOK(s, b),
           health'[s] = health[s], known'[s] = known[s]
    PROVE  ReadOK(s, b)'
<1>1. \A p \in known[s] : report'[p] = report[p]
  BY DEF IInv, ControlOK, Own, Ended, Requests
<1>2. health[s][b] = NoReport \/ \E p \in Visible(b)' : health[s][b] = report'[p]
  BY VisibleStays DEF ReadOK
<1> QED
  BY <1>1, <1>2 DEF ReadOK

LEMMA OwnStep ==
    ASSUME IInv, TypeOK', NEW r \in Requests, Own(r), ControlOK(r)',
           r \in Rankers /\ pc'[r] \in {"commit", "committed"} =>
              /\ DOMAIN health'[r] = DOMAIN candidates'[r]
              /\ \A b \in DOMAIN candidates'[r] : ReadOK(r, b)'
    PROVE  IInv'
<1>1. ASSUME NEW s \in Requests PROVE ControlOK(s)'
  <2>1. \A p \in known[s] : p \in Reporters /\ pc'[p] = "committed"
    BY DEF IInv, ControlOK, Own, Ended, Requests
  <2> QED
    BY <2>1 DEF IInv, ControlOK, Own
<1>2. ASSUME NEW s \in Rankings'
      PROVE  /\ DOMAIN health'[s] = DOMAIN candidates'[s]
             /\ \A b \in DOMAIN candidates'[s] : ReadOK(s, b)'
  <2>1. s \in Rankers /\ s \in Requests /\ pc'[s] \in {"commit", "committed"}
    BY DEF Rankings, Requests
  <2>2. CASE s # r
    <3>1. /\ s \in Rankings /\ health'[s] = health[s] /\ known'[s] = known[s]
          /\ candidates'[s] = candidates[s]
      BY <2>1, <2>2 DEF Own, Rankings
    <3> QED
      BY <2>1, <3>1, ReadStays DEF IInv
  <2> QED
    BY <2>1, <2>2
<1> QED
  BY <1>1, <1>2 DEF IInv, Own

-----------------------------------------------------------------------------
(* What a step of r does to its variables.                                  *)
LEMMA TypeFacts ==
    ASSUME IInv
    PROVE  /\ pc \in [Requests -> {"idle"} \cup InFlight \cup Ended]
           /\ call \in [Requests -> ReportCalls \cup RankCalls \cup {NoCall}]
           /\ report \in [Requests -> Reports \cup {NoReport}]
           /\ reply \in [Requests -> {0, 200, 201, 404, 422, 500}]
           /\ now \in Instants
           /\ DOMAIN candidates = Requests /\ DOMAIN health = Requests /\ DOMAIN known = Requests
           /\ \A r \in Requests : ControlOK(r)
  BY DEF IInv, TypeOK

LEMMA FailStep ==
    ASSUME IInv, NEW r \in Requests, NEW code \in {0, 200, 201, 404, 422, 500}, Fail(r, code),
           pc[r] \in InFlight,
           UNCHANGED <<now, serving, call, candidates, health, known>>
    PROVE  IInv'
<1> USE TypeFacts
<1>1. Own(r)
  BY DEF Own, Fail, GoTo, InFlight, Ended
<1>2. TypeOK'
  BY DEF IInv, TypeOK, Fail, GoTo, Ended
<1>3. pc'[r] = "rolledBack" /\ report'[r] = NoReport
  BY DEF Fail, GoTo
<1>4. \A p \in known[r] : p \in Reporters /\ pc'[p] = "committed"
  BY <1>1 DEF ControlOK, Own, Requests, Ended
<1>5. ControlOK(r)'
  BY <1>3, <1>4 DEF ControlOK, Ended
<1> QED
  BY <1>1, <1>2, <1>3, <1>5, OwnStep

LEMMA BeginReportStep ==
    ASSUME IInv, NEW r \in Reporters, NEW c \in ReportCalls, BeginReport(r, c)
    PROVE  IInv'
<1> USE TypeFacts
<1> DEFINE d == [c EXCEPT !.at = IF @ = Now THEN now ELSE @]
<1>1. r \in Requests /\ r \notin Rankers /\ ControlOK(r) /\ pc[r] = "idle"
  BY DEF Requests, BeginReport
<1>2. d \in ReportCalls /\ d.at \in Instants
  BY DEF ReportCalls, Now, Instants
<1> HIDE DEF d
<1>3. call' = [call EXCEPT ![r] = d] /\ pc' = [pc EXCEPT ![r] = "report"]
  BY DEF BeginReport, GoTo, d
<1>4. UNCHANGED <<now, serving, report, candidates, health, reply, known>>
  BY DEF BeginReport
<1>5. Own(r)
  BY <1>1, <1>3, <1>4 DEF Own, Ended
<1>6. TypeOK'
  BY <1>1, <1>2, <1>3, <1>4 DEF IInv, TypeOK, InFlight
<1>7. pc'[r] = "report" /\ call'[r] = d /\ \A p \in known[r] : p \in Reporters /\ pc'[p] = "committed"
  BY <1>1, <1>3 DEF ControlOK, Requests
<1>8. ControlOK(r)'
  BY <1>1, <1>2, <1>4, <1>7 DEF ControlOK
<1> QED
  BY <1>1, <1>5, <1>6, <1>7, <1>8, OwnStep

LEMMA ReportStep ==
    ASSUME IInv, NEW r \in Reporters, Report(r)
    PROVE  IInv'
<1> USE TypeFacts
<1>1. /\ r \in Requests /\ r \notin Rankers /\ ControlOK(r) /\ pc[r] = "report"
      /\ call[r] \in ReportCalls /\ call[r].at \in Instants
      /\ UNCHANGED <<now, serving, call, candidates, health, known>>
  BY DEF Requests, Report, ControlOK
<1>2. CASE Fail(r, 404)
  BY <1>1, <1>2, FailStep DEF InFlight
<1>3. CASE /\ call[r].backend # NoBackend
           /\ report' = [report EXCEPT
                 ![r] = Row(call[r], IF call[r].healthy THEN call[r].latency ELSE Unmeasured)]
           /\ Answer(r, 201)
  <2>1. PICK row : row = Row(call[r], IF call[r].healthy THEN call[r].latency ELSE Unmeasured)
    OBVIOUS
  <2>2. row \in Reports
    <3>1. /\ call[r].backend \in Backends /\ call[r].healthy \in BOOLEAN
          /\ call[r].latency \in Latencies /\ call[r].at \in Instants
      BY <1>1, <1>3 DEF ReportCalls
    <3>2. CASE call[r].healthy
      BY <2>1, <3>1, <3>2 DEF Row, Reports
    <3>3. CASE ~ call[r].healthy
      BY <2>1, <3>1, <3>3 DEF Row, Reports
    <3> QED
      BY <3>2, <3>3
  <2>3. report' = [report EXCEPT ![r] = row] /\ pc' = [pc EXCEPT ![r] = "commit"]
    BY <1>3, <2>1 DEF Answer, GoTo
  <2>4. Own(r)
    BY <1>1, <2>3 DEF Own, Ended
  <2>5. TypeOK'
    BY <1>1, <1>3, <2>2, <2>3 DEF IInv, TypeOK, InFlight, Answer
  <2>6. pc'[r] = "commit" /\ \A p \in known[r] : p \in Reporters /\ pc'[p] = "committed"
    BY <1>1, <2>3 DEF ControlOK, Requests
  <2>7. ControlOK(r)'
    BY <1>1, <2>6 DEF ControlOK
  <2> QED
    BY <1>1, <2>4, <2>5, <2>7, OwnStep
<1> QED
  BY <1>2, <1>3 DEF Report

LEMMA BeginRankStep ==
    ASSUME IInv, NEW r \in Rankers, NEW c \in RankCalls, BeginRank(r, c)
    PROVE  IInv'
<1> USE TypeFacts
<1>1. /\ r \in Requests /\ r \notin Reporters /\ ControlOK(r) /\ pc[r] = "idle"
      /\ call' = [call EXCEPT ![r] = c] /\ pc' = [pc EXCEPT ![r] = "candidates"]
      /\ known' = [known EXCEPT ![r] = {p \in Reporters : pc[p] = "committed"}]
      /\ UNCHANGED <<now, serving, report, candidates, health, reply>>
  BY DEF Requests, BeginRank, GoTo
<1>2. Own(r)
  BY <1>1 DEF Own, Ended
<1>3. known'[r] = {p \in Reporters : pc[p] = "committed"} /\ pc'[r] = "candidates"
  BY <1>1
<1>4. TypeOK'
  BY <1>1, <1>3 DEF IInv, TypeOK, InFlight, Requests
<1>5. \A p \in known'[r] : p \in Reporters /\ pc'[p] = "committed"
  BY <1>1, <1>3 DEF Requests
<1>6. ControlOK(r)'
  BY <1>1, <1>3, <1>5 DEF ControlOK
<1> QED
  BY <1>1, <1>2, <1>3, <1>4, <1>6, OwnStep

LEMMA ListCandidatesStep ==
    ASSUME IInv, NEW r \in Rankers, ListCandidates(r)
    PROVE  IInv'
<1> USE TypeFacts
<1> DEFINE found == {b \in Backends : serving[b] # NotServing}
<1>1. /\ r \in Requests /\ r \notin Reporters /\ ControlOK(r) /\ pc[r] = "candidates"
      /\ DOMAIN health[r] = {}
      /\ UNCHANGED <<now, serving, call, health, known>>
  BY DEF Requests, ListCandidates, ControlOK
<1>2. CASE Fail(r, 422) /\ UNCHANGED candidates
  BY <1>1, <1>2, FailStep DEF InFlight
<1>3. CASE /\ call[r].policy \in DOMAIN POLICY_FACTORS
           /\ candidates' = [candidates EXCEPT ![r] = [b \in found |-> serving[b]]]
           /\ \/ found = {} /\ Answer(r, 200)
              \/ found # {} /\ GoTo(r, "health") /\ UNCHANGED reply
           /\ UNCHANGED report
  <2>1. DOMAIN candidates'[r] = found /\ \A s \in Requests \ {r} : candidates'[s] = candidates[s]
    BY <1>1, <1>3
  <2>2. pc' = [pc EXCEPT ![r] = IF found = {} THEN "commit" ELSE "health"]
    BY <1>3 DEF Answer, GoTo
  <2>3. Own(r)
    BY <1>1, <1>3, <2>1, <2>2 DEF Own, Ended
  <2>4. \A s \in Requests : /\ DOMAIN candidates'[s] \subseteq Backends
                            /\ DOMAIN health'[s] \in {{}, DOMAIN candidates'[s]}
    <3>1. ASSUME NEW s \in Requests \ {r}
          PROVE  /\ DOMAIN candidates'[s] \subseteq Backends
                 /\ DOMAIN health'[s] \in {{}, DOMAIN candidates'[s]}
      BY <1>1, <2>1 DEF IInv, TypeOK
    <3>2. DOMAIN candidates'[r] \subseteq Backends /\ DOMAIN health'[r] = {}
      BY <1>1, <2>1
    <3> QED
      BY <3>1, <3>2
  <2>5. TypeOK'
    <3>1. pc' \in [Requests -> {"idle"} \cup InFlight \cup Ended]
      BY <2>2 DEF InFlight
    <3>2. reply' \in [Requests -> {0, 200, 201, 404, 422, 500}]
      BY <1>3 DEF Answer
    <3>3. \A s \in Requests : known'[s] \subseteq Requests
      BY <1>1 DEF IInv, TypeOK
    <3> HIDE DEF found
    <3> QED
      BY <1>1, <1>3, <2>4, <3>1, <3>2, <3>3 DEF IInv, TypeOK
  <2>6. \A p \in known'[r] : p \in Reporters /\ pc'[p] = "committed"
    BY <1>1, <2>2 DEF ControlOK, Requests
  <2>7. ControlOK(r)'
    <3>1. \A b \in DOMAIN candidates'[r] : candidates'[r][b] \in Offers
      <4>1. candidates'[r] = [b \in found |-> serving[b]]
        BY <1>1, <1>3
      <4>2. \A b \in found : serving[b] \in Offers
        BY DEF IInv, TypeOK
      <4> HIDE DEF found
      <4> QED
        BY <4>1, <4>2
    <3>2. pc'[r] \in {"commit", "health"}
      BY <1>1, <2>2
    <3> HIDE DEF found
    <3> QED
      BY <1>1, <1>3, <2>6, <3>1, <3>2 DEF ControlOK
  <2>8. pc'[r] \in {"commit", "committed"} => DOMAIN candidates'[r] = {}
    BY <1>1, <2>1, <2>2
  <2> QED
    BY <1>1, <2>3, <2>5, <2>7, <2>8, OwnStep
<1> QED
  BY <1>2, <1>3 DEF ListCandidates

(* The reports of a backend that a ranking finds.                           *)
LEMMA LatestFacts ==
    ASSUME NEW b, NEW found \in Latest(b)
    PROVE  /\ found = NoReport \/ \E p \in Visible(b) : found = report[p]
           /\ \A p \in Visible(b) : found # NoReport /\ report[p].at <= found.at
<1>1. CASE Visible(b) = {}
  BY <1>1 DEF Latest
<1>2. CASE Visible(b) # {}
  <2>1. PICK m \in Visible(b) : found = report[m] /\ \A q \in Visible(b) : report[q].at <= report[m].at
    BY <1>2 DEF Latest
  <2> QED
    BY <2>1 DEF Visible
<1> QED
  BY <1>1, <1>2

LEMMA ReadHealthStep ==
    ASSUME IInv, NEW r \in Rankers, ReadHealth(r)
    PROVE  IInv'
<1> USE TypeFacts
<1>1. /\ r \in Requests /\ r \notin Reporters /\ ControlOK(r) /\ pc[r] = "health"
      /\ pc' = [pc EXCEPT ![r] = "commit"] /\ reply' = [reply EXCEPT ![r] = 200]
      /\ UNCHANGED <<now, serving, report, call, candidates, known>>
  BY DEF Requests, ReadHealth, Answer, GoTo
<1>2. PICK map : /\ DOMAIN map = DOMAIN candidates[r]
                 /\ \A b \in DOMAIN map : map[b] \in Latest(b)
                 /\ health' = [health EXCEPT ![r] = map]
  BY DEF ReadHealth
<1>3. health'[r] = map /\ \A s \in Requests \ {r} : health'[s] = health[s]
  BY <1>1, <1>2
<1>4. Own(r)
  BY <1>1, <1>2, <1>3 DEF Own, Ended
<1>5. \A s \in Requests : DOMAIN health'[s] \in {{}, DOMAIN candidates'[s]}
  BY <1>1, <1>2, <1>3 DEF IInv, TypeOK
<1>6. TypeOK'
  BY <1>1, <1>5 DEF IInv, TypeOK, InFlight
<1>7. \A p \in known'[r] : p \in Reporters /\ pc'[p] = "committed" /\ pc[p] = "committed"
  BY <1>1 DEF ControlOK, Requests
<1>8. ControlOK(r)'
  BY <1>1, <1>7 DEF ControlOK
<1>9. ASSUME NEW b \in DOMAIN candidates[r] PROVE ReadOK(r, b)'
  <2>1. map[b] \in Latest(b)
    BY <1>2
  <2>2. map[b] = NoReport \/ \E p \in Visible(b) : map[b] = report[p]
    BY <2>1, LatestFacts
  <2>3. map[b] = NoReport \/ \E p \in Visible(b)' : map[b] = report'[p]
    BY <1>1, <1>4, <2>2, VisibleStays
  <2>4. \A p \in known[r] : report[p] # NoReport /\ report[p].backend = b => p \in Visible(b)
    BY <1>1, <1>7 DEF Visible
  <2>5. \A p \in known[r] : report[p] # NoReport /\ report[p].backend = b
                               => map[b] # NoReport /\ report[p].at <= map[b].at
    BY <2>1, <2>4, LatestFacts
  <2>6. health'[r][b] = map[b]
    BY <1>3
  <2> QED
    BY <1>1, <2>3, <2>5, <2>6 DEF ReadOK
<1> QED
  BY <1>1, <1>2, <1>3, <1>4, <1>6, <1>8, <1>9, OwnStep

LEMMA CommitStep ==
    ASSUME IInv, NEW r \in Requests, Commit(r)
    PROVE  IInv'
<1> USE TypeFacts
<1>1. /\ ControlOK(r) /\ pc[r] = "commit" /\ pc' = [pc EXCEPT ![r] = "committed"]
      /\ UNCHANGED <<now, serving, report, call, candidates, health, reply, known>>
  BY DEF Commit, GoTo
<1>2. Own(r)
  BY <1>1 DEF Own, Ended
<1>3. TypeOK'
  BY <1>1 DEF IInv, TypeOK, Ended
<1>4. pc'[r] = "committed" /\ \A p \in known'[r] : p \in Reporters /\ pc'[p] = "committed"
  BY <1>1 DEF ControlOK, Requests
<1>5. ControlOK(r)'
  BY <1>1, <1>4 DEF ControlOK, Ended
<1>6. ASSUME r \in Rankers
      PROVE  DOMAIN health[r] = DOMAIN candidates[r] /\ \A b \in DOMAIN candidates[r] : ReadOK(r, b)'
  <2>1. r \in Rankings
    BY <1>1, <1>6 DEF Rankings
  <2> QED
    BY <1>1, <1>2, <2>1, ReadStays DEF IInv
<1> QED
  BY <1>1, <1>2, <1>3, <1>5, <1>6, OwnStep

LEMMA AbortedStep ==
    ASSUME IInv, NEW r \in Requests, Aborted(r)
    PROVE  IInv'
<1>1. (IF pc[r] = "commit" THEN reply[r] ELSE 500) \in {0, 200, 201, 404, 422, 500}
  BY TypeFacts
<1> QED
  BY <1>1, FailStep DEF Aborted

(* A change of what is served, or of the clock, is nothing to them.         *)
LEMMA OtherStep ==
    ASSUME IInv, TypeOK', UNCHANGED <<report, pc, call, candidates, health, reply, known>>
    PROVE  IInv'
  BY DEF IInv, ControlOK, ReadOK, Visible, Rankings

LEMMA NextInv ==
    ASSUME IInv, [Next]_vars
    PROVE  IInv'
<1>1. CASE UNCHANGED vars
  <2>1. TypeOK'
    BY <1>1 DEF vars, IInv, TypeOK
  <2> QED
    BY <1>1, <2>1, OtherStep DEF vars
<1>2. ASSUME NEW b \in Backends, NEW offer \in Offers \cup {NotServing}, Change(b, offer) PROVE IInv'
  <2>1. TypeOK'
    BY <1>2 DEF Change, IInv, TypeOK
  <2> QED
    BY <1>2, <2>1, OtherStep DEF Change
<1>3. CASE Tick
  <2>1. TypeOK'
    BY <1>3 DEF Tick, IInv, TypeOK, Instants
  <2> QED
    BY <1>3, <2>1, OtherStep DEF Tick
<1> QED
  BY <1>1, <1>2, <1>3, BeginReportStep, ReportStep, BeginRankStep, ListCandidatesStep,
     ReadHealthStep, CommitStep, AbortedStep DEF Next

LEMMA SpecInv == Spec => []IInv
  BY InitInv, NextInv, PTL DEF Spec

-----------------------------------------------------------------------------
THEOREM TypeCorrect == Spec => []TypeOK
<1>1. IInv => TypeOK
  BY DEF IInv
<1> QED
  BY <1>1, SpecInv, PTL

(* A report that was committed before a ranking began is used by it, unless *)
(* one with no earlier instant is, in whatever order reports arrive and     *)
(* however late (BackendRepository.latest_health_map).                      *)
THEOREM ReportsAreUsed == Spec => []ReportsCount
<1>1. IInv => ReportsCount
  BY DEF IInv, ReportsCount, ReadOK
<1> QED
  BY <1>1, SpecInv, PTL

(* The scores leave out a backend that has been reported unhealthy, and not *)
(* healthy with the same or a later instant since (HEALTH_FACTOR is 0).     *)
FailingExcluded ==
    \A r \in Rankings : \A c \in Payload(r) : Failing(r, c.id) => HEALTH_FACTOR[c.health] = 0

THEOREM FailingIsExcluded == Spec => []FailingExcluded
<1>1. ASSUME IInv, NEW r \in Rankings, NEW c \in Payload(r), Failing(r, c.id)
      PROVE  HEALTH_FACTOR[c.health] = 0
  <2>1. PICK b \in DOMAIN candidates[r] : c.id = b /\ c.health = health[r][b].health
    BY DEF Payload
  <2>2. ReadOK(r, b) /\ r \in Requests
    BY <1>1 DEF IInv, Rankings, Requests
  <2>3. PICK p \in known[r] :
           /\ report[p] # NoReport /\ report[p].backend = b
           /\ \A q \in Reporters : report[q] # NoReport /\ report[q].backend = b
                                     /\ report[q].at >= report[p].at => report[q].health = "unhealthy"
    BY <1>1, <2>1 DEF Failing
  <2>4. PICK q \in Visible(b) : health[r][b] = report[q] /\ report[p].at <= report[q].at
    BY <2>2, <2>3 DEF ReadOK
  <2>5. q \in Reporters /\ report[q] # NoReport /\ report[q].backend = b
    BY <2>4 DEF Visible
  <2>6. p \in Requests /\ q \in Requests
    BY <1>1, <2>2, <2>3, <2>5 DEF IInv, ControlOK, Requests
  <2>7. report[p].at \in Int /\ report[q].at \in Int
    BY <1>1, <2>3, <2>5, <2>6, TypeFacts DEF Reports, Instants
  <2>8. report[q].health = "unhealthy"
    BY <2>3, <2>4, <2>5, <2>7
  <2> QED
    BY <2>1, <2>4, <2>8 DEF HEALTH_FACTOR
<1>2. IInv => FailingExcluded
  BY <1>1 DEF FailingExcluded
<1> QED
  BY <1>2, SpecInv, PTL
-----------------------------------------------------------------------------
(* The candidates of a ranking can be scored, whatever they are.            *)
LEMMA PayloadIsRankable ==
    ASSUME IInv, NEW r \in Rankings
    PROVE  Rankable(call[r].policy, Payload(r))
<1> DEFINE entry(b) == [id |-> b, weight |-> candidates[r][b].weight, cost |-> candidates[r][b].cost,
                        health |-> health[r][b].health, latency |-> health[r][b].latency]
<1>1. /\ r \in Requests /\ r \in Rankers /\ ControlOK(r) /\ pc[r] \in {"commit", "committed"}
      /\ DOMAIN candidates[r] \subseteq Backends
  BY DEF IInv, TypeOK, Rankings, Requests
<1>2. Payload(r) = {entry(b) : b \in DOMAIN candidates[r]}
  BY DEF Payload
<1>3. call[r].policy \in DOMAIN POLICY_FACTORS
  BY <1>1 DEF ControlOK
<1>4. IsFiniteSet(Payload(r))
  <2> DEFINE f == [b \in DOMAIN candidates[r] |-> entry(b)]
  <2>1. IsFiniteSet(DOMAIN candidates[r])
    BY <1>1, FS_Subset
  <2>2. f \in Surjection(DOMAIN candidates[r], Payload(r))
    BY <1>2 DEF Surjection
  <2> QED
    BY <2>1, <2>2, FS_Surjection
<1>5. ASSUME NEW b \in DOMAIN candidates[r] PROVE Scorable(entry(b))
  <2>1. b \in Int /\ candidates[r][b].weight \in Nat \ {0} /\ candidates[r][b].cost \in Nat
    <3>1. candidates[r][b] \in Offer /\ b \in Nat
      BY <1>1 DEF ControlOK
    <3> QED
      BY <3>1 DEF Offer
  <2>2. ReadOK(r, b)
    BY DEF IInv
  <2>3. health[r][b] \in Reports \cup {NoReport}
    BY <2>2, TypeFacts DEF ReadOK, Visible, Requests
  <2>4. /\ health[r][b].health \in DOMAIN HEALTH_FACTOR
        /\ health[r][b].latency \in Nat \cup {Unmeasured}
    <3>1. CASE health[r][b] = NoReport
      BY <3>1 DEF NoReport, HEALTH_FACTOR
    <3>2. CASE health[r][b] \in Reports
      <4>1. /\ health[r][b].health \in {"healthy", "unhealthy"}
            /\ health[r][b].latency \in Latencies \cup {Unmeasured}
        BY <3>2 DEF Reports
      <4> QED
        BY <4>1 DEF HEALTH_FACTOR
    <3> QED
      BY <2>3, <3>1, <3>2
  <2> QED
    BY <2>1, <2>4 DEF Scorable
<1>6. \A c \in Payload(r) : Scorable(c)
  BY <1>2, <1>5
<1>7. \A c, d \in Payload(r) : c.id = d.id => c = d
  BY <1>2
<1> QED
  BY <1>3, <1>4, <1>6, <1>7 DEF Rankable

(* A backend that is failing is never chosen, whatever the fraction, for    *)
(* any number of candidates (pick_by_weight over rank_candidates).          *)
THEOREM FailingIsNeverChosen == Spec => []FailingNeverChosen
<1>1. ASSUME IInv, FailingExcluded, NEW r \in Rankings, NEW b \in Chosen(r), Failing(r, b)
      PROVE  FALSE
  <2> DEFINE s     == Ranking(r)
             total == Total(s, Eligible(s))
  <2>1. Rankable(call[r].policy, Payload(r)) /\ s = Ranked(call[r].policy, Payload(r))
    BY <1>1, PayloadIsRankable DEF Ranking
  <2> HIDE DEF s
  <2>2. Eligible(s) # {} /\ \E k \in 0 .. total : b = s[Pick(s, k, total)].id
    BY DEF Chosen, s
  <2>3. PICK k : b = s[Pick(s, k, total)].id
    BY <2>2
  <2>4. PICK n \in Nat : IsRanking(s, n)
    BY <2>1, RankedFacts
  <2>5. Pick(s, k, total) \in Eligible(s)
    BY <2>2, <2>4, PickIsEligible DEF IsRanking
  <2>6. PICK i \in DOMAIN s : s[i].id = b /\ ~ s[i].excluded
    BY <2>3, <2>5 DEF Eligible
  <2>7. PICK c \in Payload(r) : s[i] = Scored(call[r].policy, c)
    BY <2>1, RankedFacts
  <2>8. c.id = b /\ HEALTH_FACTOR[c.health] # 0
    <3>1. /\ Scored(call[r].policy, c).id = c.id
          /\ Scored(call[r].policy, c).excluded = (HEALTH_FACTOR[c.health] = 0)
      BY <2>1, ScoredFacts
    <3> QED
      BY <2>6, <2>7, <3>1
  <2> QED
    BY <1>1, <2>8 DEF FailingExcluded
<1>2. IInv /\ FailingExcluded => FailingNeverChosen
  BY <1>1 DEF FailingNeverChosen
<1> QED
  BY <1>2, SpecInv, FailingIsExcluded, PTL

(* The candidates that the run scores.                                      *)
LEMMA PairIsRankable ==
    ASSUME NEW policy \in DOMAIN POLICY_FACTORS, NEW x \in Candidates(1), NEW y \in Candidates(2)
    PROVE  Rankable(policy, {x, y}) /\ x.id = 1 /\ y.id = 2
<1>1. ASSUME NEW id \in Int, NEW c \in Candidates(id) PROVE Scorable(c) /\ c.id = id
  <2>1. PICK w \in Weights, k \in Costs, h \in Healths :
            c = [id |-> id, weight |-> w, cost |-> k, health |-> h.health, latency |-> h.latency]
    BY DEF Candidates
  <2>2. h.health \in DOMAIN HEALTH_FACTOR /\ h.latency \in Nat \cup {Unmeasured}
    BY ScaleAssumption DEF Healths, HEALTH_FACTOR
  <2>3. w \in Nat \ {0} /\ k \in Nat
    BY ScaleAssumption
  <2> QED
    BY <2>1, <2>2, <2>3 DEF Scorable
<1>2. Scorable(x) /\ x.id = 1 /\ Scorable(y) /\ y.id = 2
  BY <1>1
<1>3. IsFiniteSet({x, y})
  <2>1. IsFiniteSet({x} \cup {y})
    BY FS_Singleton, FS_AddElement
  <2>2. {x} \cup {y} = {x, y}
    OBVIOUS
  <2> QED
    BY <2>1, <2>2
<1> QED
  BY <1>2, <1>3 DEF Rankable

(* The choice is fair: the fractions that fall to a candidate are its share *)
(* of the scores, and one that is excluded has none (pick_by_weight).       *)
THEOREM SharesAreFair == Spec => []SharesAreScores
<1>1. SharesAreScores
  BY PairIsRankable, RankedIsFair DEF SharesAreScores
<1> QED
  BY <1>1, PTL

(* The same for the ranking of a request, for any number of candidates.     *)
RankingsFair == \A r \in Rankings : FairShares(Ranking(r))

THEOREM RankingsAreFair == Spec => []RankingsFair
<1>1. IInv => RankingsFair
  BY PayloadIsRankable, RankedIsFair DEF RankingsFair, Ranking
<1> QED
  BY <1>1, SpecInv, PTL

(* Of two candidates the one that is no worse in anything comes first, in   *)
(* spite of all roundings, unless the scores are equal; then the smaller id *)
(* does (score_candidates).                                                 *)
THEOREM BetterIsRankedFirst == Spec => []BetterRanksFirst
<1>1. ASSUME NEW policy \in DOMAIN POLICY_FACTORS, NEW x \in Candidates(1), NEW y \in Candidates(2)
      PROVE  WellRanked(policy, x, y)
  <2> DEFINE s == Ranked(policy, {x, y})
  <2>1. Rankable(policy, {x, y}) /\ x.id = 1 /\ y.id = 2
    BY PairIsRankable
  <2>2. PICK i \in DOMAIN s : s[i].id = 1
    BY <2>1, RankedFacts, ScoredFacts
  <2>3. PICK j \in DOMAIN s : s[j].id = 2
    BY <2>1, RankedFacts, ScoredFacts
  <2>4. \A k \in DOMAIN s : s[k].id \in {1, 2} /\ s[k].score \in Nat
    BY <2>1, RankedFacts, ScoredFacts
  <2>5. PICK n \in Nat : IsRanking(s, n)
    BY <2>1, RankedFacts
  <2>6. \A k, m \in DOMAIN s : k < m => Precedes(s[k], s[m])
    BY <2>1, RankedFacts
  <2>7. ASSUME NoWorse(x, y), j < i PROVE FALSE
    <3>1. y.id < x.id
      BY <2>1, <2>2, <2>3, <2>7, BetterIsBefore
    <3> QED
      BY <2>1, <3>1
  <2>8. ASSUME NoWorse(y, x), i < j PROVE s[i].score = s[j].score
    BY <2>1, <2>2, <2>3, <2>8, BetterIsBefore
  <2> HIDE DEF s
  <2>9. \A k \in DOMAIN s : k \in {i, j}
    BY <2>2, <2>3, <2>4, <2>5 DEF IsRanking
  <2>10. i # j /\ i \in 1 .. n /\ j \in 1 .. n /\ DOMAIN s = 1 .. n
    BY <2>2, <2>3, <2>5 DEF IsRanking
  <2>11. 1 \in DOMAIN s /\ 2 \in DOMAIN s
    BY <2>10
  <2>12. (i = 1 /\ j = 2) \/ (i = 2 /\ j = 1)
    BY <2>9, <2>10, <2>11
  <2>13. ASSUME s[1].score = s[2].score PROVE s[1].id = 1
    <3>1. Precedes(s[1], s[2])
      BY <2>6, <2>11
    <3> QED
      BY <2>2, <2>3, <2>4, <2>11, <2>12, <2>13, <3>1 DEF Precedes
  <2>14. NoWorse(x, y) => s[1].id = 1
    BY <2>2, <2>7, <2>12
  <2>15. NoWorse(y, x) => s[1].id = 2 \/ s[1].score = s[2].score
    BY <2>3, <2>8, <2>12
  <2> QED
    BY <2>1, <2>13, <2>14, <2>15 DEF WellRanked, s
<1>2. BetterRanksFirst
  BY <1>1 DEF BetterRanksFirst
<1> QED
  BY <1>2, PTL

(* The same for the ranking of a request: it holds exactly its candidates,  *)
(* and one that stands behind another one is worse in something, or has the *)
(* same score and the greater id.                                           *)
Holds(r) == {Ranking(r)[i].id : i \in DOMAIN Ranking(r)} = DOMAIN candidates[r]

BetterFirst(r) ==
    \A c, d \in Payload(r) : \A i, j \in DOMAIN Ranking(r) :
        Ranking(r)[i].id = c.id /\ Ranking(r)[j].id = d.id /\ j < i /\ NoWorse(c, d)
            => Ranking(r)[i].score = Ranking(r)[j].score /\ d.id < c.id

RankingsInOrder == \A r \in Rankings : Holds(r) /\ BetterFirst(r)

THEOREM RankingsAreInOrder == Spec => []RankingsInOrder
<1>1. ASSUME IInv, NEW r \in Rankings
      PROVE  Holds(r)
  <2>1. Rankable(call[r].policy, Payload(r)) /\ Ranking(r) = Ranked(call[r].policy, Payload(r))
    BY <1>1, PayloadIsRankable DEF Ranking
  <2>2. ASSUME NEW i \in DOMAIN Ranking(r) PROVE Ranking(r)[i].id \in DOMAIN candidates[r]
    <3>1. PICK c \in Payload(r) : Ranking(r)[i] = Scored(call[r].policy, c)
      BY <2>1, RankedFacts
    <3>2. Ranking(r)[i].id = c.id
      BY <2>1, <3>1, ScoredFacts
    <3> QED
      BY <3>2 DEF Payload
  <2>3. ASSUME NEW b \in DOMAIN candidates[r] PROVE \E i \in DOMAIN Ranking(r) : Ranking(r)[i].id = b
    <3> DEFINE entry == [id |-> b, weight |-> candidates[r][b].weight, cost |-> candidates[r][b].cost,
                         health |-> health[r][b].health, latency |-> health[r][b].latency]
    <3>0. entry \in Payload(r) /\ entry.id = b
      BY DEF Payload
    <3>1. PICK c \in Payload(r) : c.id = b
      BY <3>0
    <3>2. PICK i \in DOMAIN Ranking(r) : Ranking(r)[i] = Scored(call[r].policy, c)
      BY <2>1, RankedFacts
    <3> QED
      BY <2>1, <3>1, <3>2, ScoredFacts
  <2> QED
    BY <2>2, <2>3 DEF Holds
<1>2. ASSUME IInv, NEW r \in Rankings, NEW c \in Payload(r), NEW d \in Payload(r),
             NEW i \in DOMAIN Ranking(r), NEW j \in DOMAIN Ranking(r),
             Ranking(r)[i].id = c.id, Ranking(r)[j].id = d.id, j < i, NoWorse(c, d)
      PROVE  Ranking(r)[i].score = Ranking(r)[j].score /\ d.id < c.id
  <2>1. Rankable(call[r].policy, Payload(r)) /\ Ranking(r) = Ranked(call[r].policy, Payload(r))
    BY <1>2, PayloadIsRankable DEF Ranking
  <2> QED
    BY <1>2, <2>1, BetterIsBefore
<1>3. ASSUME IInv, NEW r \in Rankings PROVE BetterFirst(r)
  BY <1>2, <1>3 DEF BetterFirst
<1>4. IInv => RankingsInOrder
  BY <1>1, <1>3 DEF RankingsInOrder
<1> QED
  BY <1>4, SpecInv, PTL
=============================================================================
