--------------------------- MODULE EvaluatorRun_proofs --------------------------
(***************************************************************************)
(* A Protocol 2.2 run and its drivers, for any proposals, answers, limits, *)
(* drivers and interruptions: the sealed baseline shows what was ruled, no *)
(* call is issued twice, a run that ended graded everything once, and      *)
(* drivers that race for a run neither disturb it nor misreport the race.  *)
(***************************************************************************)
EXTENDS EvaluatorDrivers, FiniteSetTheorems, TLAPS

(***************************************************************************)
(* Dividing, and ranking the numbers of a finite set.                      *)
(***************************************************************************)
LEMMA Division ==
    ASSUME NEW a \in Nat, NEW d \in Nat, d > 0
    PROVE  \E q, r \in Nat : r < d /\ a = (q * d) + r
<1>1. /\ a \div d \in Nat /\ a % d \in Nat /\ a % d < d
      /\ a = (d * (a \div d)) + (a % d)
  OBVIOUS
<1>2. d * (a \div d) = (a \div d) * d
  BY <1>1
<1> QED BY <1>1, <1>2

(* The quotient and the remainder are the only numbers of their kind. *)
LEMMA DivisionIs ==
    ASSUME NEW d \in Nat, NEW q \in Nat, NEW r \in Nat, r < d
    PROVE  ((q * d) + r) \div d = q /\ ((q * d) + r) % d = r
<1> DEFINE a == (q * d) + r
           p == a \div d
           s == a % d
<1>0. a \in Nat
  OBVIOUS
<1>1. p \in Nat /\ s \in Nat /\ s < d /\ a = (d * p) + s
  <2> HIDE DEF a
  <2> QED BY <1>0
<1>2. a = (q * d) + r
  OBVIOUS
<1> HIDE DEF p, s, a
<1>3. d * p = p * d
  BY <1>1
<1>4. ~(p < q)
  <2> SUFFICES ASSUME p < q PROVE FALSE
    OBVIOUS
  <2>1. PICK e \in Nat : q = p + 1 + e
    <3>1. q - p - 1 \in Nat /\ q = p + 1 + (q - p - 1)
      BY <1>1
    <3> QED BY <3>1
  <2>2. q * d = (p * d) + d + (e * d) /\ e * d \in Nat
    BY <1>1, <2>1
  <2> QED BY <1>1, <1>2, <1>3, <2>2
<1>5. ~(q < p)
  <2> SUFFICES ASSUME q < p PROVE FALSE
    OBVIOUS
  <2>1. PICK e \in Nat : p = q + 1 + e
    <3>1. p - q - 1 \in Nat /\ p = q + 1 + (p - q - 1)
      BY <1>1
    <3> QED BY <3>1
  <2>2. p * d = (q * d) + d + (e * d) /\ e * d \in Nat
    BY <1>1, <2>1
  <2> QED BY <1>1, <1>2, <1>3, <2>2
<1>6. p = q
  BY <1>1, <1>4, <1>5
<1>7. s = r
  BY <1>1, <1>2, <1>3, <1>6
<1> QED BY <1>6, <1>7 DEF p, s, a

Rank(S, x) == Cardinality({y \in S : y <= x})

(* Ranks start at one and end at the size of the set. *)
LEMMA RankIsBounded ==
    ASSUME NEW S \in SUBSET Nat, IsFiniteSet(S), NEW x \in S
    PROVE  Rank(S, x) \in 1..Cardinality(S)
<1> DEFINE below == {y \in S : y <= x}
<1>1. IsFiniteSet(below) /\ Cardinality(below) <= Cardinality(S)
  BY FS_Subset
<1>2. x \in below
  OBVIOUS
<1>3. Cardinality(below) # 0 /\ Cardinality(below) \in Nat /\ Cardinality(S) \in Nat
  BY <1>1, <1>2, FS_EmptySet, FS_CardinalityType
<1> QED BY <1>1, <1>3 DEF Rank

(* No two elements have the same rank. *)
LEMMA RankIsInjective ==
    ASSUME NEW S \in SUBSET Nat, IsFiniteSet(S), NEW x \in S, NEW z \in S,
           Rank(S, x) = Rank(S, z)
    PROVE  x = z
<1>1. ASSUME NEW u \in S, NEW v \in S, u < v
      PROVE  Rank(S, u) # Rank(S, v)
  <2> DEFINE low == {y \in S : y <= u}
             high == {y \in S : y <= v}
  <2>0. S \subseteq Nat /\ u \in Nat /\ v \in Nat
    OBVIOUS
  <2>a. v \in high /\ v \notin low
    BY <1>1, <2>0
  <2>b. \A y \in Nat : y <= u => y <= v
    BY <1>1, <2>0
  <2>1. low \subseteq high /\ v \in high /\ v \notin low
    BY <2>0, <2>a, <2>b
  <2>2. IsFiniteSet(high)
    BY FS_Subset
  <2>3. low # high
    BY <2>1
  <2> HIDE DEF low, high
  <2>4. Cardinality(low) # Cardinality(high)
    BY <2>1, <2>2, <2>3, FS_Subset
  <2> QED BY <2>4 DEF Rank, low, high
<1>2. x < z \/ z < x \/ x = z
  OBVIOUS
<1> QED BY <1>1, <1>2

(* Every rank up to the size of the set is the rank of an element. *)
LEMMA RankIsOnto ==
    ASSUME NEW S \in SUBSET Nat, IsFiniteSet(S), NEW k \in 1..Cardinality(S)
    PROVE  \E x \in S : Rank(S, x) = k
<1> DEFINE n == Cardinality(S)
           f == [x \in S |-> Rank(S, x)]
<1>1. n \in Nat
  BY FS_CardinalityType
<1>2. f \in Injection(S, 1..n)
  BY RankIsBounded, RankIsInjective DEF Injection, IsInjective
<1>3. IsFiniteSet(1..n) /\ Cardinality(1..n) = n
  BY <1>1, FS_Interval
<1>4. f \in Surjection(S, 1..n)
  <2> HIDE DEF f
  <2> QED BY <1>2, <1>3, FS_Injection
<1>5. \E x \in S : f[x] = k
  BY <1>4 DEF Surjection
<1> QED BY <1>5

(* Greater by one, greater by a whole factor. *)
LEMMA TimesIsMonotone ==
    ASSUME NEW m \in Nat, NEW n \in Nat, NEW d \in Nat, m < n
    PROVE  (m * d) + d <= n * d
<1>1. n - m - 1 \in Nat /\ n = m + 1 + (n - m - 1)
  OBVIOUS
<1>2. PICK e \in Nat : n = m + 1 + e
  BY <1>1
<1>3. n * d = (m * d) + d + (e * d) /\ e * d \in Nat /\ m * d \in Nat
  BY <1>2
<1> QED BY <1>3

(***************************************************************************)
(* Batches: each requirement is in one of them, and none is empty.         *)
(***************************************************************************)
LEMMA InBatch ==
    ASSUME NEW S, NEW r \in S, NEW k \in Nat \ {0}, Rank(S, r) \in Nat
    PROVE  r \in Batch(S, k) <=>
               ((k - 1) * BatchSize) + 1 <= Rank(S, r) /\ Rank(S, r) <= k * BatchSize
<1>1. BatchSize \in Nat \ {0}
  BY BatchAssumption
<1>2. k * BatchSize \in Nat /\ (k - 1) * BatchSize \in Nat
  BY <1>1
<1>3. r \in Batch(S, k) <=> Rank(S, r) \in ((k - 1) * BatchSize) + 1 .. k * BatchSize
  BY DEF Batch, Rank
<1> QED BY <1>2, <1>3

(* No requirement is in two batches. *)
LEMMA OneBatchEach ==
    ASSUME NEW S \in SUBSET Nat, IsFiniteSet(S), NEW r \in S,
           NEW k \in Nat \ {0}, NEW m \in Nat \ {0}, r \in Batch(S, k), r \in Batch(S, m)
    PROVE  k = m
<1>1. BatchSize \in Nat \ {0} /\ Rank(S, r) \in Nat
  BY BatchAssumption, RankIsBounded
<1>2. /\ ((k - 1) * BatchSize) + 1 <= Rank(S, r) /\ Rank(S, r) <= k * BatchSize
      /\ ((m - 1) * BatchSize) + 1 <= Rank(S, r) /\ Rank(S, r) <= m * BatchSize
  BY <1>1, InBatch
<1>3. ASSUME NEW a \in Nat \ {0}, NEW c \in Nat \ {0}, a < c
      PROVE  a * BatchSize <= (c - 1) * BatchSize
  <2>1. CASE a = c - 1
    BY <1>1, <2>1
  <2>2. CASE a < c - 1
    <3>1. (a * BatchSize) + BatchSize <= (c - 1) * BatchSize
      BY <1>1, <2>2, TimesIsMonotone
    <3>2. a * BatchSize \in Nat /\ (c - 1) * BatchSize \in Nat
      BY <1>1
    <3> QED BY <1>1, <3>1, <3>2
  <2> QED BY <1>3, <2>1, <2>2
<1>4. /\ k * BatchSize \in Nat /\ (k - 1) * BatchSize \in Nat
      /\ m * BatchSize \in Nat /\ (m - 1) * BatchSize \in Nat
  BY <1>1
<1>5. ~(k < m)
  BY <1>1, <1>2, <1>3, <1>4
<1>6. ~(m < k)
  BY <1>1, <1>2, <1>3, <1>4
<1> QED BY <1>5, <1>6

(* A batch is counted when its first place is taken. *)
LEMMA BatchCountIs ==
    ASSUME NEW S, IsFiniteSet(S)
    PROVE  /\ BatchCount(S) \in Nat
           /\ \A k \in Nat \ {0} :
                  k <= BatchCount(S) <=> ((k - 1) * BatchSize) + 1 <= Cardinality(S)
<1> DEFINE n == Cardinality(S)
           a == n + BatchSize - 1
<1>1. BatchSize \in Nat \ {0} /\ BatchSize \in Nat /\ BatchSize > 0 /\ n \in Nat
  BY BatchAssumption, FS_CardinalityType
<1>2. a \in Nat
  BY <1>1
<1> HIDE DEF n
<1>3. PICK q \in Nat, r \in Nat : r < BatchSize /\ a = (q * BatchSize) + r
  <2> HIDE DEF a
  <2> QED BY <1>1, <1>2, Division
<1>4. BatchCount(S) = q
  <2>1. ((q * BatchSize) + r) \div BatchSize = q
    BY <1>1, <1>3, DivisionIs
  <2>2. BatchCount(S) = a \div BatchSize
    BY DEF BatchCount, n
  <2> QED BY <1>3, <2>1, <2>2
<1>5. ASSUME NEW k \in Nat \ {0}
      PROVE  k <= q <=> ((k - 1) * BatchSize) + 1 <= n
  <2>1. ((k - 1) * BatchSize) + BatchSize = k * BatchSize /\ k * BatchSize \in Nat
        /\ (k - 1) * BatchSize \in Nat /\ q * BatchSize \in Nat
    BY <1>1
  <2>2. CASE k <= q
    <3>1. k * BatchSize <= q * BatchSize
      <4>1. CASE k = q
        BY <2>1, <4>1
      <4>2. CASE k < q
        BY <1>1, <2>1, <4>2, TimesIsMonotone
      <4> QED BY <2>2, <4>1, <4>2
    <3> QED BY <1>1, <1>3, <2>1, <2>2, <3>1
  <2>3. CASE q < k
    <3>1. (q * BatchSize) + BatchSize <= k * BatchSize
      BY <1>1, <2>3, TimesIsMonotone
    <3> QED BY <1>1, <1>3, <2>1, <2>3, <3>1
  <2> QED BY <2>2, <2>3
<1> QED BY <1>4, <1>5 DEF n

(* Every requirement is in a batch that is counted, and such a batch is not empty. *)
LEMMA BatchesCover ==
    ASSUME NEW S \in SUBSET Nat, IsFiniteSet(S)
    PROVE  /\ \A r \in S : \E k \in 1..BatchCount(S) : r \in Batch(S, k)
           /\ \A k \in 1..BatchCount(S) : Batch(S, k) # {}
<1>1. /\ BatchSize \in Nat \ {0} /\ BatchSize \in Nat /\ BatchSize > 0
      /\ Cardinality(S) \in Nat /\ BatchCount(S) \in Nat
  BY BatchAssumption, FS_CardinalityType, BatchCountIs
<1>2. ASSUME NEW r \in S
      PROVE  \E k \in 1..BatchCount(S) : r \in Batch(S, k)
  <2>1. Rank(S, r) \in 1..Cardinality(S)
    BY RankIsBounded
  <2> DEFINE a == Rank(S, r) - 1
  <2>2. a \in Nat
    BY <1>1, <2>1
  <2>3. PICK q \in Nat, t \in Nat : t < BatchSize /\ a = (q * BatchSize) + t
    <3> HIDE DEF a
    <3> QED BY <1>1, <2>2, Division
  <2>4. ((q + 1) - 1) * BatchSize = q * BatchSize /\ q * BatchSize \in Nat
        /\ (q + 1) * BatchSize = (q * BatchSize) + BatchSize
        /\ q + 1 \in Nat \ {0}
    BY <1>1
  <2>5. /\ (q * BatchSize) + 1 <= Rank(S, r) /\ Rank(S, r) <= (q * BatchSize) + BatchSize
        /\ (q * BatchSize) + 1 <= Cardinality(S)
    BY <1>1, <2>1, <2>3, <2>4
  <2>6. r \in Batch(S, q + 1)
    BY <1>1, <2>1, <2>4, <2>5, InBatch
  <2>7. q + 1 <= BatchCount(S)
    BY <2>4, <2>5, BatchCountIs
  <2> QED BY <1>1, <2>4, <2>6, <2>7
<1>3. ASSUME NEW k \in 1..BatchCount(S)
      PROVE  Batch(S, k) # {}
  <2>1. k \in Nat \ {0}
    BY <1>1
  <2>2. ((k - 1) * BatchSize) + 1 <= Cardinality(S)
    BY <1>1, <2>1, BatchCountIs
  <2>3. /\ (k - 1) * BatchSize \in Nat
        /\ k * BatchSize = ((k - 1) * BatchSize) + BatchSize
    BY <1>1, <2>1
  <2>4. PICK r \in S : Rank(S, r) = ((k - 1) * BatchSize) + 1
    BY <1>1, <2>2, <2>3, RankIsOnto
  <2>5. r \in Batch(S, k)
    BY <1>1, <2>1, <2>3, <2>4, InBatch
  <2> QED BY <2>5
<1> QED BY <1>2, <1>3

(***************************************************************************)
(* The grading steps visit every label, lane and item of a lane once.      *)
(***************************************************************************)
Countable(b) ==
    /\ b.requirements \in SUBSET Nat /\ IsFiniteSet(b.requirements)
    /\ DOMAIN b.contested \in SUBSET Nat /\ IsFiniteSet(DOMAIN b.contested)

(* The steps of one lane. *)
LEMMA LaneStepsAre ==
    ASSUME NEW b, Countable(b)
    PROVE  /\ BatchCount(b.requirements) \in Nat
           /\ Cardinality(DOMAIN b.contested) \in Nat
           /\ LaneSteps(b) \in Nat
           /\ LaneSteps(b) = BatchCount(b.requirements) + Cardinality(DOMAIN b.contested)
<1>1. BatchCount(b.requirements) \in Nat
  BY BatchCountIs DEF Countable
<1>2. Cardinality(DOMAIN b.contested) \in Nat
  BY FS_CardinalityType DEF Countable
<1> QED BY <1>1, <1>2 DEF LaneSteps

(* The k-th dispute is a dispute, and the k-th. *)
LEMMA ContestedItemIs ==
    ASSUME NEW b, Countable(b), NEW k \in 1..Cardinality(DOMAIN b.contested)
    PROVE  /\ ContestedItem(b, k) \in DOMAIN b.contested
           /\ Rank(DOMAIN b.contested, ContestedItem(b, k)) = k
<1>1. \E i \in DOMAIN b.contested : Rank(DOMAIN b.contested, i) = k
  BY RankIsOnto DEF Countable
<1>2. ContestedItem(b, k) =
          CHOOSE i \in DOMAIN b.contested : Rank(DOMAIN b.contested, i) = k
  BY DEF ContestedItem, Rank
<1> QED BY <1>1, <1>2

(* What call the k-th step of a lane makes. *)
LEMMA LaneStepIs ==
    ASSUME NEW b, Countable(b), NEW label, NEW lane, NEW k \in 1..LaneSteps(b)
    PROVE  /\ LaneStep(b, label, lane, k).label = label
           /\ LaneStep(b, label, lane, k).lane = lane
           /\ k <= BatchCount(b.requirements) =>
                  LaneStep(b, label, lane, k) = Call("ordinary_grade_fragment", label, lane, k)
           /\ ~(k <= BatchCount(b.requirements)) =>
                  /\ k - BatchCount(b.requirements) \in 1..Cardinality(DOMAIN b.contested)
                  /\ LaneStep(b, label, lane, k) =
                        Call("contested_grade_fragment", label, lane,
                             ContestedItem(b, k - BatchCount(b.requirements)))
<1>1. k \in Nat /\ k <= LaneSteps(b)
  BY LaneStepsAre
<1>2. ~(k <= BatchCount(b.requirements)) =>
          k - BatchCount(b.requirements) \in 1..Cardinality(DOMAIN b.contested)
  BY <1>1, LaneStepsAre
<1> QED BY <1>2 DEF LaneStep, Call

(* Two steps of a lane make two calls. *)
LEMMA LaneStepsDiffer ==
    ASSUME NEW b, Countable(b), NEW label, NEW lane, NEW k \in 1..LaneSteps(b),
           NEW m \in 1..LaneSteps(b),
           LaneStep(b, label, lane, k) = LaneStep(b, label, lane, m)
    PROVE  k = m
<1> DEFINE n == BatchCount(b.requirements)
<1>1. k \in Nat /\ m \in Nat /\ n \in Nat
  BY LaneStepsAre
<1>2. LaneStep(b, label, lane, k).operation = LaneStep(b, label, lane, m).operation
      /\ LaneStep(b, label, lane, k).item = LaneStep(b, label, lane, m).item
  OBVIOUS
<1>3. CASE k <= n /\ m <= n
  BY <1>2, <1>3, LaneStepIs DEF Call
<1>4. CASE k <= n /\ ~(m <= n)
  BY <1>2, <1>4, LaneStepIs DEF Call
<1>5. CASE ~(k <= n) /\ m <= n
  BY <1>2, <1>5, LaneStepIs DEF Call
<1>6. CASE ~(k <= n) /\ ~(m <= n)
  <2>1. ContestedItem(b, k - n) = ContestedItem(b, m - n)
    BY <1>2, <1>6, LaneStepIs DEF Call
  <2>2. /\ k - n \in 1..Cardinality(DOMAIN b.contested)
        /\ m - n \in 1..Cardinality(DOMAIN b.contested)
    BY <1>6, LaneStepIs
  <2> HIDE DEF n
  <2>3. k - n = m - n
    BY <2>1, <2>2, ContestedItemIs
  <2> QED BY <1>1, <2>3
<1> QED BY <1>3, <1>4, <1>5, <1>6

(* Where the k-th step of a lane of the a-th label comes in the run. *)
At(b, a, lane, k) == ((((a - 1) * 2) + (lane - 1)) * LaneSteps(b)) + k

(* The step at that place of the run is that step of that lane. *)
LEMMA StepAt ==
    ASSUME NEW b, Countable(b), NEW a \in DOMAIN Labels, NEW lane \in Lanes,
           NEW k \in 1..LaneSteps(b)
    PROVE  /\ At(b, a, lane, k) \in 1..GradeSteps(b)
           /\ GradeStep(b, At(b, a, lane, k)) = LaneStep(b, Labels[a], lane, k)
<1> DEFINE s == LaneSteps(b)
           n == At(b, a, lane, k)
<1>1. s \in Nat /\ k \in Nat /\ k - 1 \in Nat /\ k - 1 < s /\ 1 <= k
  BY LaneStepsAre
<1>2. Len(Labels) \in {1, 2} /\ a \in 1..Len(Labels)
  BY LabelsAssumption
<1>3. a = 1 \/ a = 2
  BY <1>2
<1>4. lane = 1 \/ lane = 2
  BY DEF Lanes
<1>5. GradeSteps(b) = Len(Labels) * 2 * s
  BY DEF GradeSteps
<1>6. n = ((((a - 1) * 2) + (lane - 1)) * s) + k
  BY DEF At
<1>7. GradeStep(b, n) =
          LaneStep(b, Labels[((n - 1) \div (2 * s)) + 1],
                   (((n - 1) \div s) % 2) + 1, ((n - 1) % s) + 1)
  BY DEF GradeStep
<1> HIDE DEF s, n
<1>8. ASSUME NEW j \in 0..3, n - 1 = (j * s) + (k - 1)
      PROVE  (n - 1) \div s = j /\ (n - 1) % s = k - 1
  <2>1. j \in Nat
    OBVIOUS
  <2>2. ((j * s) + (k - 1)) \div s = j /\ ((j * s) + (k - 1)) % s = k - 1
    BY <1>1, <2>1, DivisionIs
  <2> QED BY <1>8, <2>2
<1>9. ASSUME NEW q \in 0..1, NEW t \in Nat, t < 2 * s, n - 1 = (q * (2 * s)) + t
      PROVE  (n - 1) \div (2 * s) = q
  <2>1. 2 * s \in Nat /\ q \in Nat
    BY <1>1
  <2> QED BY <1>9, <2>1, DivisionIs
<1>10. CASE a = 1 /\ lane = 1
  <2>1. n = k /\ n - 1 = (0 * s) + (k - 1) /\ n - 1 = (0 * (2 * s)) + (k - 1)
        /\ k - 1 < 2 * s
    BY <1>1, <1>6, <1>10
  <2>2. n \in 1..GradeSteps(b)
    BY <1>1, <1>2, <1>5, <2>1
  <2>3. (n - 1) \div s = 0 /\ (n - 1) % s = k - 1 /\ (n - 1) \div (2 * s) = 0
    BY <1>1, <1>8, <1>9, <2>1
  <2> QED BY <1>1, <1>7, <1>10, <2>2, <2>3 DEF n
<1>11. CASE a = 1 /\ lane = 2
  <2>1. n = s + k /\ n - 1 = (1 * s) + (k - 1) /\ n - 1 = (0 * (2 * s)) + (s + (k - 1))
        /\ s + (k - 1) < 2 * s /\ s + (k - 1) \in Nat
    BY <1>1, <1>6, <1>11
  <2>2. n \in 1..GradeSteps(b)
    BY <1>1, <1>2, <1>5, <2>1
  <2>3. (n - 1) \div s = 1 /\ (n - 1) % s = k - 1 /\ (n - 1) \div (2 * s) = 0
    BY <1>1, <1>8, <1>9, <2>1
  <2> QED BY <1>1, <1>7, <1>11, <2>2, <2>3 DEF n
<1>12. CASE a = 2 /\ lane = 1
  <2>1. n = (2 * s) + k /\ n - 1 = (2 * s) + (k - 1) /\ n - 1 = (1 * (2 * s)) + (k - 1)
        /\ k - 1 < 2 * s
    BY <1>1, <1>6, <1>12
  <2>2. n \in 1..GradeSteps(b)
    BY <1>1, <1>2, <1>5, <1>12, <2>1
  <2>3. (n - 1) \div s = 2 /\ (n - 1) % s = k - 1 /\ (n - 1) \div (2 * s) = 1
    BY <1>1, <1>8, <1>9, <2>1
  <2> QED BY <1>1, <1>7, <1>12, <2>2, <2>3 DEF n
<1>13. CASE a = 2 /\ lane = 2
  <2>1. n = (3 * s) + k /\ n - 1 = (3 * s) + (k - 1)
        /\ n - 1 = (1 * (2 * s)) + (s + (k - 1))
        /\ s + (k - 1) < 2 * s /\ s + (k - 1) \in Nat
    BY <1>1, <1>6, <1>13
  <2>2. n \in 1..GradeSteps(b)
    BY <1>1, <1>2, <1>5, <1>13, <2>1
  <2>3. (n - 1) \div s = 3 /\ (n - 1) % s = k - 1 /\ (n - 1) \div (2 * s) = 1
    BY <1>1, <1>8, <1>9, <2>1
  <2> QED BY <1>1, <1>7, <1>13, <2>2, <2>3 DEF n
<1> QED BY <1>3, <1>4, <1>10, <1>11, <1>12, <1>13

(* Every step has its place. *)
LEMMA StepIs ==
    ASSUME NEW b, Countable(b), NEW n \in 1..GradeSteps(b)
    PROVE  \E a \in DOMAIN Labels, lane \in Lanes, k \in 1..LaneSteps(b) :
               n = At(b, a, lane, k)
<1> DEFINE s == LaneSteps(b)
<1>1. s \in Nat /\ Len(Labels) \in {1, 2} /\ DOMAIN Labels = 1..Len(Labels)
  BY LaneStepsAre, LabelsAssumption
<1>2. GradeSteps(b) = Len(Labels) * 2 * s /\ n \in Nat /\ 1 <= n /\ n <= GradeSteps(b)
  <2>1. GradeSteps(b) = Len(Labels) * 2 * s
    BY DEF GradeSteps
  <2>2. GradeSteps(b) \in Nat
    BY <1>1, <2>1
  <2> QED BY <2>1, <2>2
<1>3. \A a, lane, k : At(b, a, lane, k) = ((((a - 1) * 2) + (lane - 1)) * s) + k
  BY DEF At
<1> HIDE DEF s
<1>4. CASE n <= s
  <2>1. n = At(b, 1, 1, n)
    BY <1>1, <1>2, <1>3
  <2>2. 1 \in DOMAIN Labels /\ 1 \in Lanes /\ n \in 1..s
    BY <1>1, <1>2, <1>4 DEF Lanes
  <2> QED BY <2>1, <2>2 DEF s
<1>5. CASE s < n /\ n <= 2 * s
  <2>1. n = At(b, 1, 2, n - s)
    BY <1>1, <1>2, <1>3
  <2>2. 1 \in DOMAIN Labels /\ 2 \in Lanes /\ n - s \in 1..s
    BY <1>1, <1>2, <1>5 DEF Lanes
  <2> QED BY <2>1, <2>2 DEF s
<1>6. CASE 2 * s < n /\ n <= 3 * s
  <2>1. n = At(b, 2, 1, n - (2 * s))
    BY <1>1, <1>2, <1>3
  <2>2. 2 \in DOMAIN Labels /\ 1 \in Lanes /\ n - (2 * s) \in 1..s
    BY <1>1, <1>2, <1>6 DEF Lanes
  <2> QED BY <2>1, <2>2 DEF s
<1>7. CASE 3 * s < n
  <2>1. n = At(b, 2, 2, n - (3 * s))
    BY <1>1, <1>2, <1>3
  <2>2. 2 \in DOMAIN Labels /\ 2 \in Lanes /\ n - (3 * s) \in 1..s
    BY <1>1, <1>2, <1>7 DEF Lanes
  <2> QED BY <2>1, <2>2 DEF s
<1> QED BY <1>1, <1>2, <1>4, <1>5, <1>6, <1>7

(* No grading call is issued twice. *)
LEMMA GradeStepsDiffer ==
    ASSUME NEW b, Countable(b), NEW n \in 1..GradeSteps(b), NEW m \in 1..GradeSteps(b),
           GradeStep(b, n) = GradeStep(b, m)
    PROVE  n = m
<1>1. PICK a \in DOMAIN Labels, lane \in Lanes, k \in 1..LaneSteps(b) : n = At(b, a, lane, k)
  BY StepIs
<1>2. PICK c \in DOMAIN Labels, side \in Lanes, j \in 1..LaneSteps(b) : m = At(b, c, side, j)
  BY StepIs
<1>3. LaneStep(b, Labels[a], lane, k) = LaneStep(b, Labels[c], side, j)
  BY <1>1, <1>2, StepAt
<1>4. Labels[a] = Labels[c] /\ lane = side
  <2>1. /\ LaneStep(b, Labels[a], lane, k).label = Labels[a]
        /\ LaneStep(b, Labels[a], lane, k).lane = lane
    BY LaneStepIs
  <2>2. /\ LaneStep(b, Labels[c], side, j).label = Labels[c]
        /\ LaneStep(b, Labels[c], side, j).lane = side
    BY LaneStepIs
  <2> QED BY <1>3, <2>1, <2>2
<1>5. a = c
  BY <1>4, LabelsAssumption
<1>6. k = j
  BY <1>3, <1>4, LaneStepsDiffer
<1> QED BY <1>1, <1>2, <1>4, <1>5, <1>6

--------------------------------------------------------------------------------
(***************************************************************************)
(* What the sealed baseline shows.                                         *)
(***************************************************************************)
GradeOperations == {"ordinary_grade_fragment", "contested_grade_fragment"}

(* Until the baseline is sealed the accepted source answers grow, each phase over the
   finished inventories of those before it; the seal is made of all of them. *)
SealedContests(ps, cs, ds) ==
    [i \in Decided(ds, "unresolved") |->
        [side \in Alternatives |-> ImportanceOf(Contested(ps, cs, ds)[i][side])]]

SealInv ==
    /\ proposals \in Seq(Proposals) /\ concerns \in Seq(Concern) /\ decisions \in Seq(Decision)
    /\ pending.operation \in Operations
    /\ pending.operation = "source_review_fragment" => concerns = <<>>
    /\ pending.operation \in {"source_review_fragment", "source_audit_fragment"} =>
           decisions = <<>>
    /\ \A k \in DOMAIN concerns : concerns[k].target <= Len(proposals)
    /\ pending.operation = "source_referee_fragment" =>
           Len(decisions) < Len(concerns) /\ pending.item = Len(decisions) + 1
    /\ pending.operation \in {"source_review_fragment", "source_audit_fragment",
                              "source_referee_fragment"} => baseline = NoBaseline
    /\ pending.operation \in GradeOperations \cup {"none"} =>
           /\ Len(decisions) = Len(concerns)
           /\ baseline.requirements = Requirements(proposals, concerns, decisions)
           /\ baseline.contested = SealedContests(proposals, concerns, decisions)
           /\ \A t \in DOMAIN proposals : \A i, j \in Replacements(concerns, decisions, t) : i = j

--------------------------------------------------------------------------------
(* A grading step is a grading call. *)
LEMMA GradeStepsGrade ==
    ASSUME NEW b, NEW n
    PROVE  GradeStep(b, n).operation \in GradeOperations
  BY DEF GradeStep, LaneStep, Call, GradeOperations

(* What may be answered to each source call. *)
LEMMA SourceAnswers ==
    ASSUME NEW call, NEW answer \in Answers(call)
    PROVE  /\ call.operation = "source_review_fragment" => answer.items \in Seq(Proposals)
           /\ call.operation = "source_audit_fragment" => answer.items \in Seq(Concern)
           /\ call.operation = "source_referee_fragment" => answer \in Decision
<1>1. /\ \A s \in ReviewItems : s \in Seq(Proposals)
      /\ \A s \in AuditItems : s \in Seq(Concern)
  BY AnswersAssumption
<1>2. CASE call.operation = "source_review_fragment"
  <2>1. answer \in {Fragment(s, c) : s \in ReviewItems, c \in BOOLEAN}
    BY <1>2 DEF Answers
  <2> QED BY <1>1, <1>2, <2>1 DEF Fragment
<1>3. CASE call.operation = "source_audit_fragment"
  <2>1. answer \in {Fragment(s, c) : s \in AuditItems, c \in BOOLEAN}
    BY <1>3 DEF Answers
  <2> QED BY <1>1, <1>3, <2>1 DEF Fragment
<1>4. CASE call.operation = "source_referee_fragment"
  BY <1>4 DEF Answers
<1> QED BY <1>2, <1>3, <1>4

(* The seal's parts. *)
LEMMA SealIs ==
    ASSUME NEW cs, NEW ds, SealBaseline(cs, ds)
    PROVE  /\ baseline'.requirements = Requirements(proposals, cs, ds)
           /\ baseline'.contested = SealedContests(proposals, cs, ds)
<1>1. baseline' = Seal(cs, ds)
  BY DEF SealBaseline
<1>2. Baseline(proposals, cs, ds).requirements = Requirements(proposals, cs, ds)
      /\ Baseline(proposals, cs, ds).contested = Contested(proposals, cs, ds)
  BY DEF Baseline
<1>3. DOMAIN Contested(proposals, cs, ds) = Decided(ds, "unresolved")
  BY DEF Contested
<1> QED BY <1>1, <1>2, <1>3 DEF Seal, SealedContests

(* What compiles replaces each proposal at most once. *)
LEMMA OneReplacement ==
    ASSUME NEW ps, NEW cs, NEW ds \in Seq(Decision), Compiles(ps, cs, ds),
           NEW t \in DOMAIN ps, NEW i \in Replacements(cs, ds, t), NEW j \in Replacements(cs, ds, t)
    PROVE  i = j
<1> DEFINE S == Replacements(cs, ds, t)
<1>1. Cardinality(S) <= 1
  BY DEF Compiles
<1>2. S \subseteq 1..Len(ds)
  BY DEF Replacements, Decided
<1>3. IsFiniteSet(S)
  <2> HIDE DEF S
  <2>1. IsFiniteSet(1..Len(ds))
    BY FS_Interval
  <2> QED BY <1>2, <2>1, FS_Subset
<1>4. i \in S /\ j \in S
  OBVIOUS
<1> HIDE DEF S
<1>5. SUFFICES ASSUME i # j PROVE FALSE
  OBVIOUS
<1>6. Cardinality({i, j}) = 2
  <2>1. IsFiniteSet({i}) /\ Cardinality({i}) = 1
    BY FS_Singleton
  <2>2. Cardinality({i} \cup {j}) = 2
    <3>1. j \notin {i}
      BY <1>5
    <3> DEFINE T == {i}
    <3>2. IsFiniteSet(T) /\ j \notin T /\ Cardinality(T) = 1
      BY <2>1, <3>1
    <3> HIDE DEF T
    <3>3. Cardinality(T \cup {j}) = Cardinality(T) + 1
      BY <3>2, FS_AddElement
    <3> QED BY <3>2, <3>3 DEF T
  <2>3. {i, j} = {i} \cup {j}
    OBVIOUS
  <2> QED BY <2>2, <2>3
<1>7. {i, j} \subseteq S
  BY <1>4
<1>8. Cardinality({i, j}) <= Cardinality(S)
  BY <1>3, <1>7, FS_Subset
<1>9. Cardinality(S) \in Nat
  BY <1>3, FS_CardinalityType
<1> QED BY <1>1, <1>6, <1>8, <1>9

(* What an accepted answer does to the source phase. *)
LEMMA SealInvStep ==
    ASSUME SealInv, RunNext
    PROVE  SealInv'
<1>0. PICK answer \in Answers(pending) : Advance(answer) /\ Accepts(pending, answer)
  BY DEF RunNext, Submit
<1>1. CASE AcceptReview(answer)
  <2>1. answer.items \in Seq(Proposals) /\ proposals' \in Seq(Proposals)
    BY <1>1, SourceAnswers DEF AcceptReview, SealInv
  <2>2. pending'.operation \in {"source_review_fragment", "source_audit_fragment"}
    BY <1>1 DEF AcceptReview, AuditCall, ReviewCall, Call
  <2>3. concerns' = <<>>
    BY <1>1 DEF AcceptReview, SealInv
  <2> QED BY <1>1, <2>1, <2>2, <2>3 DEF AcceptReview, SealInv, Operations, GradeOperations
<1>2. CASE AcceptAudit(answer)
  <2>1. /\ answer.items \in Seq(Concern) /\ concerns' = concerns \o answer.items
        /\ concerns' \in Seq(Concern) /\ UNCHANGED <<proposals, decisions>> /\ decisions = <<>>
        /\ baseline = NoBaseline
    BY <1>2, SourceAnswers DEF AcceptAudit, SealInv
  <2>0. \A k \in DOMAIN concerns' : concerns'[k].target <= Len(proposals')
    <3>1. \A k \in DOMAIN answer.items : answer.items[k].target <= Len(proposals)
      BY <1>0, <1>2 DEF Accepts, Refused, Preflight, AcceptAudit
    <3>2. concerns \in Seq(Concern) /\ \A k \in DOMAIN concerns : concerns[k].target <= Len(proposals)
      BY DEF SealInv
    <3>3. ASSUME NEW k \in DOMAIN concerns' PROVE concerns'[k].target <= Len(proposals)
      <4>1. CASE k <= Len(concerns)
        <5>1. k \in DOMAIN concerns /\ concerns'[k] = concerns[k]
          BY <2>1, <3>2, <4>1
        <5> QED BY <3>2, <5>1
      <4>2. CASE k > Len(concerns)
        <5>1. k - Len(concerns) \in DOMAIN answer.items
              /\ concerns'[k] = answer.items[k - Len(concerns)]
          BY <2>1, <3>2, <4>2
        <5> QED BY <3>1, <5>1
      <4>3. k \in Nat /\ Len(concerns) \in Nat
        BY <2>1, <3>2
      <4> QED BY <4>1, <4>2, <4>3
    <3> QED BY <2>1, <3>3
  <2>2. CASE answer.complete /\ concerns' = <<>>
    <3>1. SealBaseline(<<>>, <<>>)
      BY <1>2, <2>2 DEF AcceptAudit
    <3>2. pending'.operation \in GradeOperations \cup {"none"}
      BY <3>1, GradeStepsGrade DEF SealBaseline, NoCall, Call
    <3>3. /\ baseline'.requirements = Requirements(proposals, <<>>, <<>>)
          /\ baseline'.contested = SealedContests(proposals, <<>>, <<>>)
      BY <3>1, SealIs
    <3>4. \A t : Replacements(<<>>, <<>>, t) = {}
      BY DEF Replacements, Decided
    <3>5. concerns' = <<>> /\ decisions' = <<>>
      BY <2>1, <2>2
    <3> QED BY <2>0, <2>1, <3>2, <3>3, <3>4, <3>5 DEF SealInv, Operations, GradeOperations
  <2>3. CASE ~(answer.complete /\ concerns' = <<>>)
    <3>1. /\ baseline' = baseline
          /\ pending' = IF answer.complete THEN RefereeCall(1) ELSE AuditCall(pending.item + 1)
      BY <1>2, <2>3 DEF AcceptAudit
    <3>2. CASE answer.complete
      <4>1. concerns' # <<>> /\ Len(concerns') \in Nat /\ Len(concerns') > 0
        BY <2>1, <2>3, <3>2
      <4>2. pending'.operation = "source_referee_fragment" /\ Len(decisions') = 0
            /\ pending'.item = 1
        BY <2>1, <3>1, <3>2 DEF RefereeCall, Call
      <4> QED BY <2>0, <2>1, <3>1, <4>1, <4>2 DEF SealInv, Operations, GradeOperations
    <3>3. CASE ~answer.complete
      <4>1. pending'.operation = "source_audit_fragment"
        BY <3>1, <3>3 DEF AuditCall, Call
      <4> QED BY <2>0, <2>1, <3>1, <4>1 DEF SealInv, Operations, GradeOperations
    <3> QED BY <3>2, <3>3
  <2> QED BY <2>2, <2>3
<1>3. CASE AcceptDecision(answer)
  <2>1. /\ answer \in Decision /\ decisions' = Append(decisions, answer)
        /\ decisions' \in Seq(Decision) /\ UNCHANGED <<proposals, concerns>>
        /\ baseline = NoBaseline /\ Len(decisions) < Len(concerns)
        /\ Len(decisions') = Len(decisions) + 1
        /\ Len(decisions) \in Nat /\ Len(concerns) \in Nat
        /\ pending.operation = "source_referee_fragment" /\ pending.item = Len(decisions) + 1
    BY <1>3, SourceAnswers DEF AcceptDecision, SealInv
  <2>2. CASE Len(decisions') < Len(concerns)
    <3>1. /\ baseline' = baseline /\ pending'.operation = "source_referee_fragment"
          /\ pending'.item = Len(decisions') + 1
      BY <1>3, <2>2 DEF AcceptDecision, RefereeCall, Call
    <3> QED BY <2>1, <2>2, <3>1 DEF SealInv, Operations, GradeOperations
  <2>3. CASE ~(Len(decisions') < Len(concerns))
    <3>1. SealBaseline(concerns, decisions')
      BY <1>3, <2>3 DEF AcceptDecision
    <3>2. pending'.operation \in GradeOperations \cup {"none"}
      BY <3>1, GradeStepsGrade DEF SealBaseline, NoCall, Call
    <3>3. /\ baseline'.requirements = Requirements(proposals, concerns, decisions')
          /\ baseline'.contested = SealedContests(proposals, concerns, decisions')
      BY <3>1, SealIs
    <3>4. Len(decisions') = Len(concerns')
      BY <2>1, <2>3
    <3>5. Compiles(proposals, concerns, Append(decisions, answer))
      <4>1. pending.item = Len(concerns)
        BY <2>1, <3>4
      <4> QED BY <1>0, <2>1, <4>1 DEF Accepts, CompilerRaises
    <3>6. \A t \in DOMAIN proposals : \A i, j \in Replacements(concerns, decisions', t) : i = j
      BY <2>1, <3>5, OneReplacement
    <3> QED BY <2>1, <3>2, <3>3, <3>4, <3>6 DEF SealInv, Operations, GradeOperations
  <2> QED BY <2>2, <2>3
<1>4. CASE AcceptGrade(answer)
  <2>1. UNCHANGED sourceVars /\ pending.operation \in GradeOperations
    BY <1>4 DEF AcceptGrade, GradeOperations
  <2>2. pending'.operation \in GradeOperations \cup {"none"}
    BY <1>4, GradeStepsGrade DEF AcceptGrade, NoCall, Call
  <2> QED BY <2>1, <2>2 DEF SealInv, sourceVars, Operations, GradeOperations
<1> QED BY <1>0, <1>1, <1>2, <1>3, <1>4 DEF Advance

(* The sealed requirements are what the proposals became under the rulings. *)
LEMMA RulingsOfRequirements ==
    ASSUME SealInv, pending.operation \in GradeOperations \cup {"none"}
    PROVE  Requirements(proposals, concerns, decisions) =
             {proposals[t] : t \in {u \in DOMAIN proposals : Upheld(u)}}
             \cup {concerns[i].correction : i \in {k \in DOMAIN concerns : RuledIn(k)}}
<1> DEFINE ps == proposals
           cs == concerns
           ds == decisions
           kept == DOMAIN ps \ Withdrawn(cs, ds)
           Became(t) == IF Replacements(cs, ds, t) = {} THEN ps[t]
                        ELSE cs[CHOOSE i \in Replacements(cs, ds, t) : TRUE].correction
           omitted == {k \in Decided(ds, "accept_auditor") : cs[k].target = NoTarget}
           upheld == {ps[t] : t \in {u \in DOMAIN ps : Upheld(u)}}
           ruledIn == {cs[i].correction : i \in {k \in DOMAIN cs : RuledIn(k)}}
<1>0. /\ DOMAIN ds = DOMAIN cs /\ ps \in Seq(Proposals) /\ cs \in Seq(Concern)
      /\ ds \in Seq(Decision) /\ \A k \in DOMAIN cs : cs[k].target <= Len(ps)
      /\ \A t \in DOMAIN ps : \A i, j \in Replacements(cs, ds, t) : i = j
  BY DEF SealInv
<1>1. CommonItems(ps, cs, ds) = {<<"proposal", t, Became(t)>> : t \in kept}
                                \cup {<<"omission", i, cs[i].correction>> : i \in omitted}
  BY DEF CommonItems
<1>2. \A t \in DOMAIN ps : Replacements(cs, ds, t) # {} =>
          (CHOOSE i \in Replacements(cs, ds, t) : TRUE) \in Replacements(cs, ds, t)
  OBVIOUS
<1>3. \A t : \A i : i \in Replacements(cs, ds, t) <=>
          /\ i \in DOMAIN cs /\ cs[i].target = t /\ ds[i] = "accept_auditor"
          /\ cs[i].correction # NoProposal
  BY <1>0 DEF Replacements, Decided
<1>4. \A t \in DOMAIN ps : t \in Withdrawn(cs, ds) <=> OpenOrGone(t)
  BY <1>0 DEF Withdrawn, Decided, OpenOrGone, Ruled
<1>5. \A t \in DOMAIN ps : Upheld(t) <=> t \in kept /\ Replacements(cs, ds, t) = {}
  BY <1>3, <1>4 DEF Upheld, OpenOrGone, Ruled
<1>6. \A t \in DOMAIN ps : t # NoTarget
  BY <1>0 DEF NoTarget
<1>7. \A i \in DOMAIN cs : RuledIn(i) <=>
          \/ i \in omitted
          \/ cs[i].target \in kept /\ i \in Replacements(cs, ds, cs[i].target)
  <2> SUFFICES ASSUME NEW i \in DOMAIN cs
               PROVE  RuledIn(i) <=> \/ i \in omitted
                                     \/ cs[i].target \in kept
                                        /\ i \in Replacements(cs, ds, cs[i].target)
    OBVIOUS
  <2>1. CASE cs[i].target = NoTarget
    BY <1>0, <1>6, <2>1 DEF RuledIn, Decided
  <2>2. CASE cs[i].target # NoTarget
    <3>1. cs[i].target \in DOMAIN ps
      <4>1. cs[i] \in Concern /\ DOMAIN ps = 1..Len(ps) /\ Len(ps) \in Nat
        BY <1>0
      <4>2. cs[i].target \in Nat /\ cs[i].target <= Len(ps)
        BY <1>0, <4>1 DEF Concern
      <4> QED BY <2>2, <4>1, <4>2 DEF NoTarget
    <3> QED BY <1>0, <1>3, <1>4, <2>2, <3>1 DEF RuledIn, Decided
  <2> QED BY <2>1, <2>2
<1> HIDE DEF kept, omitted
<1>8. Requirements(ps, cs, ds) = {Became(t) : t \in kept} \cup {cs[i].correction : i \in omitted}
  <2> HIDE DEF Became
  <2>1. ASSUME NEW t \in kept PROVE Became(t) \in Requirements(ps, cs, ds)
    <3> DEFINE item == <<"proposal", t, Became(t)>>
    <3>1. item \in CommonItems(ps, cs, ds) /\ item[3] = Became(t)
      BY <1>1
    <3> QED BY <3>1 DEF Requirements
  <2>2. ASSUME NEW i \in omitted PROVE cs[i].correction \in Requirements(ps, cs, ds)
    <3> DEFINE item == <<"omission", i, cs[i].correction>>
    <3>1. item \in CommonItems(ps, cs, ds) /\ item[3] = cs[i].correction
      BY <1>1
    <3> QED BY <3>1 DEF Requirements
  <2>3. ASSUME NEW x \in Requirements(ps, cs, ds)
        PROVE  (\E t \in kept : x = Became(t)) \/ (\E i \in omitted : x = cs[i].correction)
    <3>1. PICK item \in CommonItems(ps, cs, ds) : x = item[3]
      BY DEF Requirements
    <3>2. CASE item \in {<<"proposal", t, Became(t)>> : t \in kept}
      <4>1. PICK t \in kept : item = <<"proposal", t, Became(t)>>
        BY <3>2
      <4> QED BY <3>1, <4>1
    <3>3. CASE item \in {<<"omission", i, cs[i].correction>> : i \in omitted}
      <4>1. PICK i \in omitted : item = <<"omission", i, cs[i].correction>>
        BY <3>3
      <4> QED BY <3>1, <4>1
    <3> QED BY <1>1, <3>1, <3>2, <3>3
  <2> QED BY <2>1, <2>2, <2>3
<1>9. \A t \in kept : t \in DOMAIN ps
  BY DEF kept
<1>10. \A i \in omitted : i \in DOMAIN cs
  BY <1>0 DEF omitted, Decided
<1>11. {Became(t) : t \in kept} \cup {cs[i].correction : i \in omitted} \subseteq upheld \cup ruledIn
  <2>1. ASSUME NEW t \in kept PROVE Became(t) \in upheld \cup ruledIn
    <3>1. CASE Replacements(cs, ds, t) = {}
      BY <1>5, <1>9, <3>1
    <3>2. CASE Replacements(cs, ds, t) # {}
      <4> DEFINE i == CHOOSE k \in Replacements(cs, ds, t) : TRUE
      <4>1. i \in Replacements(cs, ds, t) /\ Became(t) = cs[i].correction
        BY <1>2, <1>9, <3>2
      <4> HIDE DEF i
      <4>2. i \in DOMAIN cs /\ cs[i].target = t
        BY <1>3, <4>1
      <4>3. RuledIn(i)
        BY <1>7, <4>1, <4>2
      <4> QED BY <4>1, <4>2, <4>3
    <3> QED BY <3>1, <3>2
  <2>2. ASSUME NEW i \in omitted PROVE cs[i].correction \in ruledIn
    BY <1>7, <1>10
  <2> HIDE DEF Became, upheld, ruledIn
  <2> QED BY <2>1, <2>2
<1>12. upheld \cup ruledIn \subseteq {Became(t) : t \in kept} \cup {cs[i].correction : i \in omitted}
  <2>1. ASSUME NEW t \in DOMAIN ps, Upheld(t) PROVE t \in kept /\ ps[t] = Became(t)
    BY <1>5, <2>1
  <2>2. ASSUME NEW i \in DOMAIN cs, RuledIn(i), i \notin omitted
        PROVE  cs[i].target \in kept /\ cs[i].correction = Became(cs[i].target)
    <3> DEFINE t == cs[i].target
    <3>1. t \in kept /\ i \in Replacements(cs, ds, t)
      BY <1>7, <2>2
    <3>2. (CHOOSE k \in Replacements(cs, ds, t) : TRUE) = i
      BY <1>0, <1>2, <1>9, <3>1
    <3> QED BY <3>1, <3>2
  <2> HIDE DEF Became
  <2> QED BY <2>1, <2>2
<1> QED BY <1>8, <1>11, <1>12

(* Every ruling shows in the sealed baseline, however many there are about one proposal
   (_apply_fragmented_decisions of the V2.1 compiler, under the calls of _advance). *)
THEOREM RulingsAreShown == RunSpec => []RulingsShow
<1>1. RunInit => SealInv
  BY DEF RunInit, SealInv, ReviewCall, Call, Operations, GradeOperations
<1>2. SealInv /\ [RunNext]_runVars => SealInv'
  <2>1. SealInv /\ UNCHANGED runVars => SealInv'
    BY DEF SealInv, runVars, sourceVars
  <2> QED BY <2>1, SealInvStep
<1>3. SealInv => RulingsShow
  <2> SUFFICES ASSUME SealInv, baseline.sealed PROVE RulingsShow
    BY DEF RulingsShow
  <2>1. baseline # NoBaseline
    BY DEF NoBaseline
  <2>2. pending.operation \in GradeOperations \cup {"none"}
    BY <2>1 DEF SealInv, Operations, GradeOperations
  <2>3. /\ baseline.requirements = Requirements(proposals, concerns, decisions)
        /\ baseline.contested = SealedContests(proposals, concerns, decisions)
        /\ DOMAIN decisions = DOMAIN concerns
        /\ proposals \in Seq(Proposals) /\ concerns \in Seq(Concern)
        /\ \A k \in DOMAIN concerns : concerns[k].target <= Len(proposals)
    BY <2>2 DEF SealInv
  <2>4. DOMAIN baseline.contested = {i \in DOMAIN concerns : decisions[i] = "unresolved"}
    BY <2>3 DEF SealedContests, Decided
  <2>5. ASSUME NEW i \in DOMAIN baseline.contested
        PROVE  /\ concerns[i].target # NoTarget =>
                    baseline.contested[i]["reviewer"] = Importance[proposals[concerns[i].target]]
               /\ concerns[i].target = NoTarget => baseline.contested[i]["reviewer"] = "none"
               /\ concerns[i].correction # NoProposal =>
                    baseline.contested[i]["auditor"] = Importance[concerns[i].correction]
               /\ concerns[i].correction = NoProposal => baseline.contested[i]["auditor"] = "none"
    <3>1. i \in Decided(decisions, "unresolved") /\ i \in DOMAIN concerns
      BY <2>3, <2>4 DEF Decided
    <3>2. baseline.contested[i] =
            [side \in Alternatives |->
                ImportanceOf(Contested(proposals, concerns, decisions)[i][side])]
      BY <2>3, <3>1 DEF SealedContests
    <3>3. Contested(proposals, concerns, decisions)[i] =
            [reviewer |-> IF concerns[i].target = NoTarget THEN NoProposal
                          ELSE proposals[concerns[i].target],
             auditor |-> concerns[i].correction]
      BY <3>1 DEF Contested
    <3>4. concerns[i].target # NoTarget => proposals[concerns[i].target] # NoProposal
      <4>1. concerns[i].target # NoTarget => concerns[i].target \in DOMAIN proposals
        <5>1. concerns[i] \in Concern /\ DOMAIN proposals = 1..Len(proposals)
              /\ Len(proposals) \in Nat
          BY <2>3, <3>1
        <5>2. concerns[i].target \in Nat /\ concerns[i].target <= Len(proposals)
          BY <2>3, <3>1, <5>1 DEF Concern
        <5> QED BY <5>1, <5>2 DEF NoTarget
      <4> QED BY <2>3, <4>1, ProposalsAssumption DEF NoProposal
    <3> QED BY <3>2, <3>3, <3>4 DEF ImportanceOf, Alternatives
  <2>6. baseline.requirements =
          {proposals[t] : t \in {u \in DOMAIN proposals : Upheld(u)}}
          \cup {concerns[i].correction : i \in {k \in DOMAIN concerns : RuledIn(k)}}
    BY <2>2, <2>3, RulingsOfRequirements
  <2> QED BY <2>4, <2>5, <2>6 DEF RulingsShow
<1> QED BY <1>1, <1>2, <1>3, PTL DEF RunSpec

--------------------------------------------------------------------------------
(***************************************************************************)
(* The calls of a run.                                                     *)
(***************************************************************************)
SourceOperations ==
    {"source_review_fragment", "source_audit_fragment", "source_referee_fragment"}

(* The source call c is answered by the time p is issued. *)
Behind(c, p) ==
    \/ /\ c.operation = "source_review_fragment"
       /\ p.operation = "source_review_fragment" => c.item < p.item
    \/ /\ c.operation = "source_audit_fragment"
       /\ p.operation # "source_review_fragment"
       /\ p.operation = "source_audit_fragment" => c.item < p.item
    \/ /\ c.operation = "source_referee_fragment"
       /\ p.operation \notin {"source_review_fragment", "source_audit_fragment"}
       /\ p.operation = "source_referee_fragment" => c.item < p.item

OrderInv ==
    /\ accepted \in Seq(Calls) /\ pending \in Calls
    /\ \A i, j \in DOMAIN accepted : accepted[i] = accepted[j] => i = j
    /\ \A i \in DOMAIN accepted :
        /\ accepted[i].operation # "none"
        /\ Behind(accepted[i], pending) \/ accepted[i] \in DOMAIN grades
    /\ pending.operation = "source_referee_fragment" => pending.item = Len(decisions) + 1

StepsTaken == Cardinality(DOMAIN grades)
NextStep(b, g) == IF g < GradeSteps(b) THEN GradeStep(b, g + 1) ELSE NoCall

(* Once the baseline is sealed, the grades are the answers to the first steps, and the
   next one is pending. *)
GradingInv ==
    /\ Countable(baseline)
    /\ IsFiniteSet(DOMAIN grades) /\ StepsTaken <= GradeSteps(baseline)
    /\ DOMAIN grades = {GradeStep(baseline, n) : n \in 1..StepsTaken}
    /\ pending = NextStep(baseline, StepsTaken)
    /\ Ended <=> pending = NoCall
    /\ \A c \in DOMAIN grades : c.operation = "ordinary_grade_fragment" =>
           DOMAIN grades[c] = Batch(baseline.requirements, c.item)

GradesInv ==
    /\ pending.operation \in SourceOperations => grades = Nothing /\ result = NoResult
    /\ pending.operation \notin SourceOperations => GradingInv

(* Omissions name a correction, so that every requirement is a proposal. *)
Corrected(cs) == \A i \in DOMAIN cs : cs[i].target = NoTarget => cs[i].correction # NoProposal
Formed(b, cs) == b.requirements \subseteq Proposals /\ DOMAIN b.contested \subseteq DOMAIN cs

RunInv == SealInv /\ Corrected(concerns) /\ Formed(baseline, concerns) /\ OrderInv /\ GradesInv

(* The number of steps, and what a step is. *)
LEMMA GradeStepsAre ==
    ASSUME NEW b, Countable(b)
    PROVE  /\ GradeSteps(b) \in Nat
           /\ GradeSteps(b) = 0 <=> b.requirements = {} /\ DOMAIN b.contested = {}
<1> DEFINE n == BatchCount(b.requirements)
           c == Cardinality(DOMAIN b.contested)
           r == Cardinality(b.requirements)
<1>1. n \in Nat /\ c \in Nat /\ LaneSteps(b) = n + c
  BY LaneStepsAre
<1>2. r \in Nat /\ (r = 0 <=> b.requirements = {}) /\ (c = 0 <=> DOMAIN b.contested = {})
  BY FS_CardinalityType, FS_EmptySet DEF Countable
<1>3. 1 <= n <=> ((1 - 1) * BatchSize) + 1 <= r
  BY BatchCountIs DEF Countable
<1>4. (1 - 1) * BatchSize = 0
  BY BatchAssumption
<1>5. GradeSteps(b) = Len(Labels) * 2 * (n + c) /\ Len(Labels) \in {1, 2}
  BY <1>1, LabelsAssumption DEF GradeSteps
<1> HIDE DEF n, c, r
<1>6. n = 0 <=> r = 0
  BY <1>1, <1>2, <1>3, <1>4
<1>7. n + c \in Nat /\ (n + c = 0 <=> n = 0 /\ c = 0)
  BY <1>1
<1>8. GradeSteps(b) = 2 * (n + c) \/ GradeSteps(b) = 4 * (n + c)
  <2>1. CASE Len(Labels) = 1
    BY <1>5, <1>7, <2>1
  <2>2. CASE Len(Labels) = 2
    BY <1>5, <1>7, <2>2
  <2> QED BY <1>5, <2>1, <2>2
<1>9. GradeSteps(b) \in Nat /\ (GradeSteps(b) = 0 <=> n + c = 0)
  BY <1>7, <1>8
<1> QED BY <1>2, <1>6, <1>7, <1>9

(* A grading step is a call. *)
LEMMA GradeStepIsCall ==
    ASSUME NEW b, Countable(b), NEW n \in 1..GradeSteps(b)
    PROVE  GradeStep(b, n) \in Calls /\ GradeStep(b, n).operation \in GradeOperations
<1>1. PICK a \in DOMAIN Labels, lane \in Lanes, k \in 1..LaneSteps(b) : n = At(b, a, lane, k)
  BY StepIs
<1>2. GradeStep(b, n) = LaneStep(b, Labels[a], lane, k)
  BY <1>1, StepAt
<1>3. Labels[a] \in Reports /\ lane \in 0..2 /\ k \in Nat
  BY LaneStepsAre DEF Reports, Lanes
<1>4. CASE k <= BatchCount(b.requirements)
  BY <1>2, <1>3, <1>4, LaneStepIs DEF Call, Calls, Operations, GradeOperations
<1>5. CASE ~(k <= BatchCount(b.requirements))
  <2> DEFINE i == ContestedItem(b, k - BatchCount(b.requirements))
  <2>1. k - BatchCount(b.requirements) \in 1..Cardinality(DOMAIN b.contested)
    BY <1>5, LaneStepIs
  <2>2. i \in Nat
    BY <2>1, ContestedItemIs DEF Countable
  <2>3. GradeStep(b, n) = Call("contested_grade_fragment", Labels[a], lane, i)
    BY <1>2, <1>5, LaneStepIs
  <2> HIDE DEF i
  <2> QED BY <1>3, <2>2, <2>3 DEF Call, Calls, Operations, GradeOperations
<1> QED BY <1>4, <1>5

(* The missing call is one of its own kind. *)
LEMMA NoCallIsCall == NoCall \in Calls /\ NoCall.operation = "none"
  BY DEF NoCall, Call, Calls, Operations

(* A call that is pending has not been answered. *)
LEMMA PendingIsNew ==
    ASSUME OrderInv, GradesInv
    PROVE  /\ \A i \in DOMAIN accepted : accepted[i] # pending
           /\ pending \notin DOMAIN grades
<1>1. pending \notin DOMAIN grades
  <2>1. CASE pending.operation \in SourceOperations
    BY <2>1 DEF GradesInv, Nothing
  <2>2. CASE pending.operation \notin SourceOperations
    <3> DEFINE g == StepsTaken
    <3>1. /\ Countable(baseline) /\ g \in Nat /\ g <= GradeSteps(baseline)
          /\ DOMAIN grades = {GradeStep(baseline, n) : n \in 1..g}
          /\ pending = NextStep(baseline, g)
      BY <2>2, FS_CardinalityType DEF GradesInv, GradingInv, StepsTaken
    <3>2. GradeSteps(baseline) \in Nat
      BY <3>1, GradeStepsAre
    <3> HIDE DEF g
    <3>3. CASE g < GradeSteps(baseline)
      <4>1. g + 1 \in 1..GradeSteps(baseline) /\ \A n \in 1..g : n \in 1..GradeSteps(baseline)
        BY <3>1, <3>2, <3>3
      <4>2. \A n \in 1..g : n # g + 1
        BY <3>1
      <4>3. \A n \in 1..g : GradeStep(baseline, n) # GradeStep(baseline, g + 1)
        BY <3>1, <4>1, <4>2, GradeStepsDiffer
      <4>4. pending = GradeStep(baseline, g + 1)
        BY <3>1, <3>3 DEF NextStep
      <4> QED BY <3>1, <4>3, <4>4
    <3>4. CASE ~(g < GradeSteps(baseline))
      <4>1. pending.operation = "none"
        BY <3>1, <3>4, NoCallIsCall DEF NextStep
      <4>2. \A n \in 1..g : GradeStep(baseline, n).operation # "none"
        BY GradeStepsGrade DEF GradeOperations
      <4> QED BY <3>1, <4>1, <4>2
    <3> QED BY <3>3, <3>4
  <2> QED BY <2>1, <2>2
<1>2. pending.item \in Nat
  BY DEF OrderInv, Calls
<1>3. ~Behind(pending, pending)
  BY <1>2 DEF Behind
<1> QED BY <1>1, <1>3 DEF OrderInv

(* What an accepted answer leaves of the order. *)
LEMMA OrderStep ==
    ASSUME OrderInv, GradesInv, accepted' = Append(accepted, pending),
           pending.operation # "none", pending' \in Calls,
           \A c \in Calls : Behind(c, pending) => Behind(c, pending'),
           Behind(pending, pending') \/ pending \in DOMAIN grades',
           DOMAIN grades \subseteq DOMAIN grades',
           pending'.operation = "source_referee_fragment" => pending'.item = Len(decisions') + 1
    PROVE  OrderInv'
<1>1. accepted \in Seq(Calls) /\ pending \in Calls
  BY DEF OrderInv
<1>2. /\ accepted' \in Seq(Calls) /\ DOMAIN accepted' = 1..Len(accepted) + 1
      /\ DOMAIN accepted = 1..Len(accepted) /\ Len(accepted) \in Nat
      /\ \A i \in 1..Len(accepted) : accepted'[i] = accepted[i]
      /\ accepted'[Len(accepted) + 1] = pending
  BY <1>1
<1>3. \A i \in DOMAIN accepted' : i \in DOMAIN accepted \/ i = Len(accepted) + 1
  BY <1>2
<1>4. \A i, j \in DOMAIN accepted' : accepted'[i] = accepted'[j] => i = j
  BY <1>2, <1>3, PendingIsNew DEF OrderInv
<1>5. \A i \in DOMAIN accepted' :
          /\ accepted'[i].operation # "none"
          /\ Behind(accepted'[i], pending') \/ accepted'[i] \in DOMAIN grades'
  <2>1. \A i \in DOMAIN accepted : accepted[i] \in Calls
    BY <1>1
  <2> QED BY <1>2, <1>3, <2>1 DEF OrderInv
<1>6. \A i \in DOMAIN accepted' : Behind(accepted'[i], pending') = Behind(accepted[i], pending)'
  BY DEF Behind
<1> QED BY <1>2, <1>4, <1>5, <1>6 DEF OrderInv

(* The sealed baseline is made of proposals and of disputes. *)
LEMMA SealIsFormed ==
    ASSUME NEW cs \in Seq(Concern), NEW ds \in Seq(Decision), Len(ds) = Len(cs),
           proposals \in Seq(Proposals), Corrected(cs)
    PROVE  Formed(Seal(cs, ds), cs)
<1>1. \A p \in Seq(Proposals) : \A t \in DOMAIN p : p[t] \in Proposals
  OBVIOUS
<1>2. /\ \A i \in DOMAIN cs : cs[i] \in Concern
      /\ DOMAIN ds = DOMAIN cs
  OBVIOUS
<1>3. \A i \in DOMAIN cs : cs[i].correction \in Proposals \cup {NoProposal}
  BY <1>2 DEF Concern
<1>4. ASSUME NEW r \in Requirements(proposals, cs, ds)
      PROVE  r \in Proposals
  <2>1. \/ \E t \in DOMAIN proposals : proposals[t] = r
        \/ \E i \in DOMAIN cs : /\ cs[i].correction = r
                                /\ cs[i].target = NoTarget \/ cs[i].correction # NoProposal
    <3> DEFINE kept == DOMAIN proposals \ Withdrawn(cs, ds)
               Became(t) == IF Replacements(cs, ds, t) = {} THEN proposals[t]
                            ELSE cs[CHOOSE i \in Replacements(cs, ds, t) : TRUE].correction
               omitted == {k \in Decided(ds, "accept_auditor") : cs[k].target = NoTarget}
    <3>1. CommonItems(proposals, cs, ds) =
              {<<"proposal", t, Became(t)>> : t \in kept}
              \cup {<<"omission", i, cs[i].correction>> : i \in omitted}
      BY DEF CommonItems
    <3>2. PICK item \in CommonItems(proposals, cs, ds) : r = item[3]
      BY DEF Requirements
    <3>3. CASE item \in {<<"proposal", t, Became(t)>> : t \in kept}
      <4>1. PICK t \in kept : r = Became(t)
        BY <3>2, <3>3
      <4>2. CASE Replacements(cs, ds, t) = {}
        BY <4>1, <4>2
      <4>3. CASE Replacements(cs, ds, t) # {}
        <5>1. PICK i \in Replacements(cs, ds, t) : r = cs[i].correction
          BY <4>1, <4>3
        <5>2. i \in DOMAIN cs /\ cs[i].correction # NoProposal
          BY <1>2, <5>1 DEF Replacements, Decided
        <5> QED BY <5>1, <5>2
      <4> QED BY <4>2, <4>3
    <3>4. CASE item \in {<<"omission", i, cs[i].correction>> : i \in omitted}
      <4>1. PICK i \in omitted : r = cs[i].correction
        BY <3>2, <3>4
      <4>2. i \in DOMAIN cs /\ cs[i].target = NoTarget
        BY <1>2, <4>1 DEF Decided
      <4> QED BY <4>1, <4>2
    <3> QED BY <3>1, <3>2, <3>3, <3>4
  <2> QED BY <1>1, <1>3, <2>1 DEF Corrected
<1>5. Seal(cs, ds).requirements = Requirements(proposals, cs, ds)
  BY DEF Seal, Baseline
<1>6. DOMAIN Seal(cs, ds).contested = Decided(ds, "unresolved")
  BY DEF Seal, Baseline, Contested
<1>7. Decided(ds, "unresolved") \subseteq DOMAIN cs
  BY <1>2 DEF Decided
<1> QED BY <1>4, <1>5, <1>6, <1>7 DEF Formed

(* A formed baseline can be counted. *)
LEMMA FormedIsCountable ==
    ASSUME NEW b, NEW cs \in Seq(Concern), Formed(b, cs)
    PROVE  Countable(b)
<1>1. Proposals \in SUBSET Nat /\ IsFiniteSet(Proposals)
  BY ProposalsAssumption
<1>2. IsFiniteSet(b.requirements) /\ b.requirements \in SUBSET Nat
  BY <1>1, FS_Subset DEF Formed
<1>3. DOMAIN cs = 1..Len(cs) /\ Len(cs) \in Nat
  OBVIOUS
<1>4. IsFiniteSet(1..Len(cs))
  BY <1>3, FS_Interval
<1>5. IsFiniteSet(DOMAIN b.contested) /\ DOMAIN b.contested \in SUBSET Nat
  BY <1>3, <1>4, FS_Subset DEF Formed
<1> QED BY <1>2, <1>5 DEF Countable

(* A result is never the missing one. *)
LEMMA ResultIsResult ==
    ASSUME NEW records
    PROVE  /\ Result(records) # NoResult
           /\ Result(records).status \in {"COMPLETED", "INCONCLUSIVE"}
  BY DEF Result, NoResult

(* Sealing issues the first grading step, or ends the run. *)
LEMMA SealStarts ==
    ASSUME NEW cs, NEW ds, SealBaseline(cs, ds), Countable(baseline'),
           grades' = Nothing, result = NoResult
    PROVE  GradingInv' /\ pending' \in Calls /\ pending'.operation \notin SourceOperations
<1>1. DOMAIN grades' = {} /\ IsFiniteSet({}) /\ Cardinality({}) = 0
  BY FS_EmptySet DEF Nothing
<1>2. StepsTaken' = 0
  BY <1>1 DEF StepsTaken
<1>3. /\ GradeSteps(baseline') \in Nat
      /\ GradeSteps(baseline') = 0 <=>
             baseline'.requirements = {} /\ DOMAIN baseline'.contested = {}
  BY GradeStepsAre
<1>4. {GradeStep(baseline', n) : n \in 1..0} = {}
  OBVIOUS
<1>5. CASE baseline'.requirements = {} /\ DOMAIN baseline'.contested = {}
  <2>1. pending' = NoCall /\ result' # NoResult
    BY <1>5, ResultIsResult DEF SealBaseline
  <2>2. pending' = NextStep(baseline', 0)
    BY <1>3, <1>5, <2>1 DEF NextStep
  <2>3. Ended' /\ pending' = NoCall
    BY <2>1 DEF Ended
  <2>4. pending' \in Calls /\ pending'.operation \notin SourceOperations
    BY <2>1, NoCallIsCall DEF SourceOperations
  <2> QED BY <1>1, <1>2, <1>3, <1>4, <2>2, <2>3, <2>4 DEF GradingInv, StepsTaken
<1>6. CASE ~(baseline'.requirements = {} /\ DOMAIN baseline'.contested = {})
  <2>1. pending' = GradeStep(baseline', 1) /\ result' = NoResult
    BY <1>6 DEF SealBaseline
  <2>2. pending' = NextStep(baseline', 0) /\ 1 \in 1..GradeSteps(baseline')
    BY <1>3, <1>6, <2>1 DEF NextStep
  <2>3. pending' \in Calls /\ pending'.operation \in GradeOperations
    BY <2>1, <2>2, GradeStepIsCall
  <2>4. ~Ended' /\ pending' # NoCall
    BY <2>1, <2>3, NoCallIsCall DEF Ended, GradeOperations
  <2>5. pending'.operation \notin SourceOperations
    BY <2>3 DEF GradeOperations, SourceOperations
  <2> QED BY <1>1, <1>2, <1>3, <1>4, <2>2, <2>3, <2>4, <2>5 DEF GradingInv, StepsTaken
<1> QED BY <1>5, <1>6

(* An accepted proposal fragment. *)
LEMMA ReviewKeeps ==
    ASSUME RunInv, NEW answer \in Answers(pending), AcceptReview(answer),
           accepted' = Append(accepted, pending)
    PROVE  Corrected(concerns') /\ Formed(baseline', concerns') /\ OrderInv' /\ GradesInv'
<1>1. /\ pending \in Calls /\ pending.operation = "source_review_fragment" /\ pending.item \in Nat
      /\ UNCHANGED <<concerns, decisions, baseline, grades, result>>
  BY DEF RunInv, OrderInv, AcceptReview, gradeVars, Calls
<1>2. pending' = AuditCall(1) \/ pending' = ReviewCall(pending.item + 1)
  BY DEF AcceptReview
<1>3. /\ pending' \in Calls
      /\ pending'.operation \in {"source_review_fragment", "source_audit_fragment"}
      /\ pending'.operation = "source_review_fragment" => pending'.item = pending.item + 1
  BY <1>1, <1>2 DEF AuditCall, ReviewCall, Call, Calls, Operations
<1>4. Behind(pending, pending') /\ \A c \in Calls : Behind(c, pending) => Behind(c, pending')
  <2>1. Behind(pending, pending')
    BY <1>1, <1>3 DEF Behind
  <2>2. ASSUME NEW c \in Calls, Behind(c, pending)
        PROVE  Behind(c, pending')
    <3>1. c.operation = "source_review_fragment" /\ c.item < pending.item /\ c.item \in Nat
      BY <1>1, <2>2 DEF Behind, Calls
    <3>2. c.item < pending.item + 1
      BY <1>1, <3>1
    <3> QED BY <1>3, <3>1, <3>2 DEF Behind
  <2> QED BY <2>1, <2>2
<1>5. OrderInv'
  BY <1>1, <1>3, <1>4, OrderStep DEF RunInv
<1>6. GradesInv'
  BY <1>1, <1>3 DEF RunInv, GradesInv, SourceOperations
<1> QED BY <1>1, <1>5, <1>6 DEF RunInv

(* An accepted audit fragment keeps omissions corrected. *)
LEMMA AuditsAreCorrected ==
    ASSUME NEW call, NEW answer \in Answers(call), call.operation = "source_audit_fragment",
           NEW cs \in Seq(Concern), Corrected(cs)
    PROVE  Corrected(cs \o answer.items)
<1>1. PICK s \in AuditItems : answer.items = s
  <2>1. answer \in {Fragment(s, c) : s \in AuditItems, c \in BOOLEAN}
    BY DEF Answers
  <2> QED BY <2>1 DEF Fragment
<1>2. s \in Seq(Concern) /\ Corrected(s)
  BY AnswersAssumption DEF Corrected
<1>3. \A i \in DOMAIN (cs \o s) :
          (i \in DOMAIN cs /\ (cs \o s)[i] = cs[i])
          \/ (i - Len(cs) \in DOMAIN s /\ (cs \o s)[i] = s[i - Len(cs)])
  BY <1>2
<1> QED BY <1>1, <1>2, <1>3 DEF Corrected

(* An accepted concern fragment, which may finish the audit of a run with no concerns. *)
LEMMA AuditKeeps ==
    ASSUME RunInv, NEW answer \in Answers(pending), AcceptAudit(answer),
           accepted' = Append(accepted, pending)
    PROVE  Corrected(concerns') /\ Formed(baseline', concerns') /\ OrderInv' /\ GradesInv'
<1>1. /\ pending \in Calls /\ pending.operation = "source_audit_fragment" /\ pending.item \in Nat
      /\ concerns' = concerns \o answer.items /\ UNCHANGED <<proposals, decisions, grades>>
      /\ concerns \in Seq(Concern) /\ proposals \in Seq(Proposals) /\ decisions = <<>>
      /\ answer.items \in Seq(Concern) /\ concerns' \in Seq(Concern)
      /\ grades = Nothing /\ result = NoResult /\ baseline = NoBaseline
  BY SourceAnswers
     DEF RunInv, OrderInv, AcceptAudit, Calls, SealInv, GradesInv, SourceOperations
<1>2. Corrected(concerns')
  BY <1>1, AuditsAreCorrected DEF RunInv
<1>3. CASE answer.complete /\ concerns' = <<>>
  <2>1. SealBaseline(<<>>, <<>>)
    BY <1>3 DEF AcceptAudit
  <2>2. Formed(baseline', concerns')
    <3>1. Corrected(<<>>) /\ <<>> \in Seq(Concern) /\ <<>> \in Seq(Decision)
      BY DEF Corrected
    <3>2. Formed(Seal(<<>>, <<>>), <<>>)
      BY <1>1, <3>1, SealIsFormed, Zenon
    <3>3. baseline' = Seal(<<>>, <<>>)
      BY <2>1 DEF SealBaseline
    <3> QED BY <1>3, <3>2, <3>3
  <2>3. Countable(baseline')
    BY <1>1, <2>2, FormedIsCountable
  <2>4. GradingInv' /\ pending' \in Calls /\ pending'.operation \notin SourceOperations
    BY <1>1, <2>1, <2>3, SealStarts
  <2>5. Behind(pending, pending') /\ \A c \in Calls : Behind(c, pending) => Behind(c, pending')
    BY <1>1, <2>4 DEF Behind, SourceOperations
  <2>6. OrderInv'
    BY <1>1, <2>4, <2>5, OrderStep DEF RunInv, SourceOperations
  <2> QED BY <1>2, <2>2, <2>4, <2>6 DEF GradesInv
<1>4. CASE ~(answer.complete /\ concerns' = <<>>)
  <2>1. /\ pending' = IF answer.complete THEN RefereeCall(1) ELSE AuditCall(pending.item + 1)
        /\ UNCHANGED <<baseline, result>>
    BY <1>4 DEF AcceptAudit
  <2>2. /\ pending' \in Calls
        /\ pending'.operation \in {"source_audit_fragment", "source_referee_fragment"}
        /\ pending'.operation = "source_audit_fragment" => pending'.item = pending.item + 1
        /\ pending'.operation = "source_referee_fragment" => pending'.item = 1
    BY <1>1, <2>1 DEF AuditCall, RefereeCall, Call, Calls, Operations
  <2>3. Behind(pending, pending')
    BY <1>1, <2>2 DEF Behind
  <2>4. ASSUME NEW c \in Calls, Behind(c, pending)
        PROVE  Behind(c, pending')
    <3>1. \/ c.operation = "source_review_fragment"
          \/ c.operation = "source_audit_fragment" /\ c.item < pending.item /\ c.item \in Nat
      BY <1>1, <2>4 DEF Behind, Calls
    <3>2. CASE c.operation = "source_review_fragment"
      BY <2>2, <3>2 DEF Behind
    <3>3. CASE c.operation = "source_audit_fragment" /\ c.item < pending.item /\ c.item \in Nat
      <4>1. c.item < pending.item + 1
        BY <1>1, <3>3
      <4> QED BY <2>2, <3>3, <4>1 DEF Behind
    <3> QED BY <3>1, <3>2, <3>3
  <2>5. pending'.operation = "source_referee_fragment" => pending'.item = Len(decisions') + 1
    BY <1>1, <2>2
  <2>6. OrderInv'
    BY <1>1, <2>2, <2>3, <2>4, <2>5, OrderStep DEF RunInv
  <2>7. GradesInv'
    BY <1>1, <2>1, <2>2 DEF GradesInv, SourceOperations
  <2>8. Formed(baseline', concerns')
    BY <1>1, <2>1 DEF Formed, NoBaseline, Nothing
  <2> QED BY <1>2, <2>6, <2>7, <2>8
<1> QED BY <1>3, <1>4

(* A referee's decision, the last of which seals the baseline. *)
LEMMA DecisionKeeps ==
    ASSUME RunInv, NEW answer \in Answers(pending), AcceptDecision(answer),
           accepted' = Append(accepted, pending)
    PROVE  Corrected(concerns') /\ Formed(baseline', concerns') /\ OrderInv' /\ GradesInv'
<1>1. /\ pending \in Calls /\ pending.operation = "source_referee_fragment"
      /\ pending.item \in Nat /\ pending.item = Len(decisions) + 1
      /\ decisions' = Append(decisions, answer) /\ UNCHANGED <<proposals, concerns, grades>>
      /\ concerns \in Seq(Concern) /\ proposals \in Seq(Proposals)
      /\ decisions \in Seq(Decision) /\ Len(decisions) < Len(concerns)
      /\ answer \in Decision
      /\ grades = Nothing /\ result = NoResult /\ baseline = NoBaseline
  BY SourceAnswers
     DEF RunInv, OrderInv, AcceptDecision, Calls, SealInv, GradesInv, SourceOperations
<1>2. /\ decisions' \in Seq(Decision) /\ Len(decisions') = Len(decisions) + 1
      /\ Len(decisions) \in Nat /\ Len(concerns) \in Nat
  BY <1>1
<1>3. Corrected(concerns')
  BY <1>1 DEF RunInv
<1>4. CASE Len(decisions') < Len(concerns)
  <2>1. pending' = RefereeCall(Len(decisions') + 1) /\ UNCHANGED <<baseline, result>>
    BY <1>4 DEF AcceptDecision
  <2>2. /\ pending' \in Calls /\ pending'.operation = "source_referee_fragment"
        /\ pending'.item = Len(decisions') + 1 /\ pending'.item = pending.item + 1
    BY <1>1, <1>2, <2>1 DEF RefereeCall, Call, Calls, Operations
  <2>3. Behind(pending, pending')
    BY <1>1, <2>2 DEF Behind
  <2>4. ASSUME NEW c \in Calls, Behind(c, pending)
        PROVE  Behind(c, pending')
    <3>1. \/ c.operation \in {"source_review_fragment", "source_audit_fragment"}
          \/ c.operation = "source_referee_fragment" /\ c.item < pending.item /\ c.item \in Nat
      BY <1>1, <2>4 DEF Behind, Calls
    <3>2. CASE c.operation \in {"source_review_fragment", "source_audit_fragment"}
      BY <2>2, <3>2 DEF Behind
    <3>3. CASE c.operation = "source_referee_fragment" /\ c.item < pending.item /\ c.item \in Nat
      <4>1. c.item < pending.item + 1
        BY <1>1, <3>3
      <4> QED BY <2>2, <3>3, <4>1 DEF Behind
    <3> QED BY <3>1, <3>2, <3>3
  <2>5. OrderInv'
    BY <1>1, <2>2, <2>3, <2>4, OrderStep DEF RunInv
  <2>6. GradesInv'
    BY <1>1, <2>1, <2>2 DEF GradesInv, SourceOperations
  <2>7. Formed(baseline', concerns')
    BY <1>1, <2>1 DEF Formed, NoBaseline, Nothing
  <2> QED BY <1>3, <2>5, <2>6, <2>7
<1>5. CASE ~(Len(decisions') < Len(concerns))
  <2>1. SealBaseline(concerns, decisions') /\ Len(decisions') = Len(concerns)
    BY <1>1, <1>2, <1>5 DEF AcceptDecision
  <2>2. Formed(baseline', concerns')
    <3>1. Formed(Seal(concerns, decisions'), concerns)
      BY <1>1, <1>2, <2>1, SealIsFormed DEF RunInv
    <3>2. baseline' = Seal(concerns, decisions')
      BY <2>1 DEF SealBaseline
    <3> QED BY <1>1, <3>1, <3>2
  <2>3. Countable(baseline')
    BY <1>1, <2>2, FormedIsCountable
  <2>4. GradingInv' /\ pending' \in Calls /\ pending'.operation \notin SourceOperations
    BY <1>1, <2>1, <2>3, SealStarts
  <2>5. Behind(pending, pending') /\ \A c \in Calls : Behind(c, pending) => Behind(c, pending')
    BY <1>1, <2>4 DEF Behind, SourceOperations
  <2>6. OrderInv'
    BY <1>1, <2>4, <2>5, OrderStep DEF RunInv, SourceOperations
  <2> QED BY <1>3, <2>2, <2>4, <2>6 DEF GradesInv
<1> QED BY <1>4, <1>5

(* A graded fragment: the next step, or the result. *)
LEMMA GradeKeeps ==
    ASSUME RunInv, NEW answer \in Answers(pending), AcceptGrade(answer),
           accepted' = Append(accepted, pending)
    PROVE  Corrected(concerns') /\ Formed(baseline', concerns') /\ OrderInv' /\ GradesInv'
<1> DEFINE g == StepsTaken
<1>1. /\ pending \in Calls /\ pending.operation \in GradeOperations
      /\ pending.operation \notin SourceOperations /\ pending.operation # "none"
      /\ UNCHANGED <<proposals, concerns, decisions, baseline>>
      /\ grades' = Extended(grades, pending, answer)
  BY DEF RunInv, OrderInv, AcceptGrade, sourceVars, GradeOperations, SourceOperations
<1>2. GradingInv /\ Countable(baseline) /\ g \in Nat /\ GradeSteps(baseline) \in Nat
  BY <1>1, GradeStepsAre, FS_CardinalityType DEF RunInv, GradesInv, GradingInv, StepsTaken
<1>3. g < GradeSteps(baseline) /\ pending = GradeStep(baseline, g + 1)
  <2>1. pending = NextStep(baseline, g)
    BY <1>2 DEF GradingInv
  <2> QED BY <1>1, <2>1, NoCallIsCall DEF NextStep
<1>4. DOMAIN grades' = DOMAIN grades \cup {pending}
  BY <1>1 DEF Extended
<1>5. pending \notin DOMAIN grades
  BY PendingIsNew DEF RunInv
<1>6. IsFiniteSet(DOMAIN grades') /\ StepsTaken' = g + 1
  <2>1. /\ IsFiniteSet(DOMAIN grades \cup {pending})
        /\ Cardinality(DOMAIN grades \cup {pending}) = Cardinality(DOMAIN grades) + 1
    BY <1>2, <1>5, FS_AddElement DEF GradingInv
  <2> QED BY <1>4, <2>1 DEF StepsTaken
<1>7. DOMAIN grades' = {GradeStep(baseline, n) : n \in 1..g + 1}
  <2>1. DOMAIN grades = {GradeStep(baseline, n) : n \in 1..g}
    BY <1>2 DEF GradingInv
  <2> HIDE DEF g
  <2>2. \A n : n \in 1..g + 1 <=> n \in 1..g \/ n = g + 1
    BY <1>2
  <2> QED BY <1>3, <1>4, <2>1, <2>2
<1>8. /\ pending' = NextStep(baseline, g + 1)
      /\ pending' = NoCall <=> g + 1 >= GradeSteps(baseline)
      /\ pending' \in Calls /\ pending'.operation \in GradeOperations \cup {"none"}
  <2>1. pending' = IF StepsTaken' < GradeSteps(baseline)
                   THEN GradeStep(baseline, StepsTaken' + 1) ELSE NoCall
    BY DEF AcceptGrade, StepsTaken
  <2> HIDE DEF g
  <2>2. CASE g + 1 < GradeSteps(baseline)
    <3>1. pending' = GradeStep(baseline, (g + 1) + 1)
      BY <1>6, <2>1, <2>2
    <3>2. (g + 1) + 1 \in 1..GradeSteps(baseline)
      BY <1>2, <2>2
    <3>3. pending' \in Calls /\ pending'.operation \in GradeOperations
      BY <1>2, <3>1, <3>2, GradeStepIsCall
    <3>4. pending' # NoCall
      BY <3>3, NoCallIsCall DEF GradeOperations
    <3> QED BY <1>2, <2>2, <3>1, <3>3, <3>4 DEF NextStep
  <2>3. CASE ~(g + 1 < GradeSteps(baseline))
    BY <1>2, <1>6, <2>1, <2>3, NoCallIsCall DEF NextStep
  <2> QED BY <2>2, <2>3
<1>9. Ended' <=> pending' = NoCall
  <2>1. CASE StepsTaken' < GradeSteps(baseline)
    <3>1. result' = result
      BY <2>1 DEF AcceptGrade, StepsTaken
    <3>2. ~Ended
      BY <1>1, <1>2, NoCallIsCall DEF GradingInv, GradeOperations
    <3>3. ~(g + 1 >= GradeSteps(baseline))
      BY <1>2, <1>6, <2>1
    <3> QED BY <1>8, <3>1, <3>2, <3>3 DEF Ended
  <2>2. CASE ~(StepsTaken' < GradeSteps(baseline))
    <3>1. pending' = NoCall /\ result' = Result(sensitivities')
      BY <2>2 DEF AcceptGrade, StepsTaken
    <3> QED BY <3>1, ResultIsResult DEF Ended
  <2> QED BY <2>1, <2>2
<1>10. \A c \in DOMAIN grades' : c.operation = "ordinary_grade_fragment" =>
           DOMAIN grades'[c] = Batch(baseline.requirements, c.item)
  <2>1. pending.operation = "ordinary_grade_fragment" =>
            DOMAIN answer = Batch(baseline.requirements, pending.item)
    BY DEF Answers
  <2>2. \A c \in DOMAIN grades' : grades'[c] = IF c = pending THEN answer ELSE grades[c]
    BY <1>1 DEF Extended
  <2> QED BY <1>2, <1>4, <2>1, <2>2 DEF GradingInv
<1>11. GradingInv'
  <2>1. GradeSteps(baseline') = GradeSteps(baseline) /\ Countable(baseline')
    BY <1>1, <1>2
  <2>2. StepsTaken' <= GradeSteps(baseline)
    BY <1>2, <1>3, <1>6
  <2>3. pending' = NextStep(baseline, StepsTaken')
        /\ DOMAIN grades' = {GradeStep(baseline, n) : n \in 1..StepsTaken'}
    BY <1>6, <1>7, <1>8
  <2> HIDE DEF g
  <2> QED BY <1>1, <1>6, <1>9, <1>10, <2>1, <2>2, <2>3 DEF GradingInv
<1>12. OrderInv'
  <2>1. \A c \in Calls : Behind(c, pending) => Behind(c, pending')
    BY <1>1, <1>8 DEF Behind, GradeOperations
  <2>2. pending'.operation # "source_referee_fragment"
    BY <1>8 DEF GradeOperations
  <2> QED BY <1>1, <1>4, <1>8, <2>1, <2>2, OrderStep DEF RunInv
<1>13. GradesInv'
  BY <1>8, <1>11 DEF GradesInv, GradeOperations, SourceOperations
<1> QED BY <1>1, <1>12, <1>13 DEF RunInv

(* Every step of a run keeps its invariant. *)
LEMMA RunInvStep ==
    ASSUME RunInv, [RunNext]_runVars
    PROVE  RunInv'
<1>1. CASE RunNext
  <2>1. PICK answer \in Answers(pending) : Advance(answer)
    BY <1>1 DEF RunNext, Submit
  <2>2. accepted' = Append(accepted, pending)
    BY <2>1 DEF Advance
  <2>3. SealInv'
    BY <1>1, SealInvStep DEF RunInv
  <2>4. Corrected(concerns') /\ Formed(baseline', concerns') /\ OrderInv' /\ GradesInv'
    BY <2>1, <2>2, ReviewKeeps, AuditKeeps, DecisionKeeps, GradeKeeps DEF Advance
  <2> QED BY <2>3, <2>4 DEF RunInv
<1>2. CASE UNCHANGED runVars
  <2>1. UNCHANGED <<accepted, pending, proposals, concerns, decisions, grades, baseline, result>>
    BY <1>2 DEF runVars, sourceVars, gradeVars
  <2>2. SealInv' = SealInv
    BY <2>1 DEF SealInv
  <2>3. OrderInv' = OrderInv
    BY <2>1 DEF OrderInv
  <2>4. GradesInv' = GradesInv
    BY <2>1 DEF GradesInv, GradingInv, StepsTaken, Ended
  <2> QED BY <2>1, <2>2, <2>3, <2>4 DEF RunInv
<1> QED BY <1>1, <1>2

(* A run starts in its invariant. *)
LEMMA RunInvStarts ==
    ASSUME RunInit
    PROVE  RunInv
<1>1. SealInv
  BY DEF RunInit, SealInv, ReviewCall, Call, Operations, GradeOperations
<1>2. pending \in Calls /\ pending.operation = "source_review_fragment"
  BY DEF RunInit, ReviewCall, Call, Calls, Operations
<1>3. OrderInv
  BY <1>2 DEF RunInit, OrderInv
<1>4. GradesInv
  BY <1>2 DEF RunInit, GradesInv, SourceOperations
<1>5. Corrected(concerns) /\ Formed(baseline, concerns)
  BY DEF RunInit, Corrected, Formed, NoBaseline, Nothing
<1> QED BY <1>1, <1>3, <1>4, <1>5 DEF RunInv

(* The invariant of a run. *)
LEMMA RunInvHolds == RunSpec => []RunInv
  BY RunInvStarts, RunInvStep, PTL DEF RunSpec

(* A run awaits one answer or has ended, and no call is issued a second time, whatever    *)
(* the answers and the limits (_pending_call, _advance and the manifest's identifiers).   *)
THEOREM CallsAreUnique == RunSpec => []CallsUnique
<1>1. ASSUME RunInv PROVE CallsUnique
  <2>1. \A i \in DOMAIN accepted : accepted[i] # pending
    BY <1>1, PendingIsNew DEF RunInv
  <2>2. \A i, j \in DOMAIN accepted : accepted[i] = accepted[j] => i = j
    BY <1>1 DEF RunInv, OrderInv
  <2>3. Ended <=> pending = NoCall
    BY <1>1, NoCallIsCall DEF RunInv, GradesInv, GradingInv, Ended, SourceOperations
  <2> QED BY <2>1, <2>2, <2>3 DEF CallsUnique
<1> QED BY <1>1, RunInvHolds, PTL

(***************************************************************************)
(* What a run that has ended has graded.                                   *)
(***************************************************************************)
(* The grades of an ended run are the answers to every step of every lane. *)
LEMMA EndedGrades ==
    ASSUME RunInv, Ended
    PROVE  /\ Countable(baseline)
           /\ \A a \in DOMAIN Labels, lane \in Lanes, k \in 1..LaneSteps(baseline) :
                  LaneStep(baseline, Labels[a], lane, k) \in DOMAIN grades
           /\ \A c \in DOMAIN grades :
                  \E a \in DOMAIN Labels, lane \in Lanes, k \in 1..LaneSteps(baseline) :
                      c = LaneStep(baseline, Labels[a], lane, k)
<1>1. GradingInv /\ pending = NoCall
  <2>1. GradingInv
    BY DEF RunInv, GradesInv, Ended
  <2> QED BY <2>1 DEF GradingInv
<1> DEFINE g == StepsTaken
<1>2. /\ Countable(baseline) /\ g \in Nat /\ GradeSteps(baseline) \in Nat
      /\ g <= GradeSteps(baseline)
      /\ DOMAIN grades = {GradeStep(baseline, n) : n \in 1..g}
      /\ pending = NextStep(baseline, g)
  BY <1>1, GradeStepsAre, FS_CardinalityType DEF GradingInv, StepsTaken
<1> HIDE DEF g
<1>3. g = GradeSteps(baseline)
  <2>1. ASSUME g < GradeSteps(baseline) PROVE FALSE
    <3>1. pending = GradeStep(baseline, g + 1)
      BY <1>2, <2>1 DEF NextStep
    <3> QED BY <1>1, <3>1, GradeStepsGrade, NoCallIsCall DEF GradeOperations
  <2> QED BY <1>2, <2>1
<1>4. ASSUME NEW a \in DOMAIN Labels, NEW lane \in Lanes, NEW k \in 1..LaneSteps(baseline)
      PROVE  LaneStep(baseline, Labels[a], lane, k) \in DOMAIN grades
  <2>1. /\ At(baseline, a, lane, k) \in 1..g
        /\ GradeStep(baseline, At(baseline, a, lane, k)) = LaneStep(baseline, Labels[a], lane, k)
    BY <1>2, <1>3, StepAt
  <2> QED BY <1>2, <2>1
<1>5. ASSUME NEW c \in DOMAIN grades
      PROVE  \E a \in DOMAIN Labels, lane \in Lanes, k \in 1..LaneSteps(baseline) :
                 c = LaneStep(baseline, Labels[a], lane, k)
  <2>1. PICK n \in 1..GradeSteps(baseline) : c = GradeStep(baseline, n)
    BY <1>2, <1>3
  <2>2. PICK a \in DOMAIN Labels, lane \in Lanes, k \in 1..LaneSteps(baseline) :
            n = At(baseline, a, lane, k)
    BY <1>2, StepIs
  <2> QED BY <1>2, <2>1, <2>2, StepAt
<1> QED BY <1>2, <1>4, <1>5

(* An ordinary grading call of an ended run is for one of the batches, and a contested
   one for one of the disputes. *)
LEMMA EndedItems ==
    ASSUME RunInv, Ended, NEW c \in DOMAIN grades
    PROVE  /\ c.operation = "ordinary_grade_fragment" =>
                  /\ c.item \in 1..BatchCount(baseline.requirements)
                  /\ c = Call("ordinary_grade_fragment", c.label, c.lane, c.item)
                  /\ DOMAIN grades[c] = Batch(baseline.requirements, c.item)
           /\ c.operation = "contested_grade_fragment" => c.item \in DOMAIN baseline.contested
<1>1. Countable(baseline) /\ BatchCount(baseline.requirements) \in Nat
      /\ LaneSteps(baseline) \in Nat
  BY EndedGrades, LaneStepsAre
<1>2. PICK a \in DOMAIN Labels, lane \in Lanes, k \in 1..LaneSteps(baseline) :
          c = LaneStep(baseline, Labels[a], lane, k)
  BY EndedGrades
<1>3. GradingInv
  BY DEF RunInv, GradesInv, Ended
<1>4. CASE k <= BatchCount(baseline.requirements)
  <2>1. c = Call("ordinary_grade_fragment", Labels[a], lane, k) /\ k \in Nat /\ 1 <= k
    BY <1>1, <1>2, <1>4, LaneStepIs
  <2> QED BY <1>1, <1>3, <1>4, <2>1 DEF Call, GradingInv
<1>5. CASE ~(k <= BatchCount(baseline.requirements))
  <2> DEFINE j == k - BatchCount(baseline.requirements)
             i == ContestedItem(baseline, j)
  <2>1. c = Call("contested_grade_fragment", Labels[a], lane, i)
        /\ j \in 1..Cardinality(DOMAIN baseline.contested)
    BY <1>1, <1>2, <1>5, LaneStepIs
  <2> HIDE DEF j
  <2>2. i \in DOMAIN baseline.contested
    BY <1>1, <2>1, ContestedItemIs
  <2> QED BY <2>1, <2>2 DEF Call
<1> QED BY <1>4, <1>5

(* Each requirement is in one graded batch of a lane. *)
LEMMA EndedCoverage ==
    ASSUME RunInv, Ended, NEW l \in Reports, NEW lane \in Lanes,
           NEW r \in baseline.requirements
    PROVE  Cardinality(Covering(l, lane, r)) = 1
<1> DEFINE S == baseline.requirements
<1>1. /\ Countable(baseline) /\ BatchCount(S) \in Nat
      /\ Cardinality(DOMAIN baseline.contested) \in Nat
      /\ LaneSteps(baseline) = BatchCount(S) + Cardinality(DOMAIN baseline.contested)
  BY EndedGrades, LaneStepsAre
<1>2. S \in SUBSET Nat /\ IsFiniteSet(S) /\ r \in S
  BY <1>1 DEF Countable
<1>3. PICK a \in DOMAIN Labels : l = Labels[a]
  BY DEF Reports
<1>4. PICK k \in 1..BatchCount(S) : r \in Batch(S, k)
  <2> HIDE DEF S
  <2> QED BY <1>2, BatchesCover
<1> DEFINE c == Call("ordinary_grade_fragment", l, lane, k)
<1>5. k \in 1..LaneSteps(baseline) /\ k <= BatchCount(S) /\ k \in Nat \ {0}
  BY <1>1
<1>6. c \in DOMAIN grades
  <2>1. LaneStep(baseline, l, lane, k) = c
    BY <1>1, <1>5, LaneStepIs
  <2> QED BY <1>3, <1>5, <2>1, EndedGrades
<1>7. c.operation = "ordinary_grade_fragment" /\ c.label = l /\ c.lane = lane /\ c.item = k
  BY DEF Call
<1>8. c \in Covering(l, lane, r)
  <2>1. r \in DOMAIN grades[c]
    <3> HIDE DEF c
    <3> QED BY <1>4, <1>6, <1>7, EndedItems
  <2> HIDE DEF c
  <2> QED BY <1>6, <1>7, <2>1 DEF Covering
<1>9. ASSUME NEW d \in Covering(l, lane, r)
      PROVE  d = c
  <2>1. /\ d \in DOMAIN grades /\ d.operation = "ordinary_grade_fragment"
        /\ d.label = l /\ d.lane = lane /\ r \in DOMAIN grades[d]
    BY DEF Covering
  <2>2. /\ d.item \in 1..BatchCount(S)
        /\ d = Call("ordinary_grade_fragment", l, lane, d.item)
        /\ r \in Batch(S, d.item)
    BY <2>1, EndedItems
  <2>3. d.item \in Nat \ {0}
    BY <1>1, <2>2
  <2>4. d.item = k
    <3> HIDE DEF S
    <3> QED BY <1>2, <1>4, <1>5, <2>2, <2>3, OneBatchEach
  <2> QED BY <2>2, <2>4
<1> HIDE DEF c
<1>10. Covering(l, lane, r) = {c}
  BY <1>8, <1>9
<1> QED BY <1>10, FS_Singleton

(* A run that ended over a baseline with content graded all of it, once in each lane of    *)
(* every report, and nothing else, however many requirements, batches and disputes there  *)
(* are (_grade_steps, iter_grade_batches).                                                *)
THEOREM EndedRunsAreCovered == RunSpec => []EndedMeansCovered
<1>1. ASSUME RunInv PROVE EndedMeansCovered
  <2> SUFFICES ASSUME Ended
               PROVE  /\ \A l \in Reports, lane \in Lanes :
                            /\ \A r \in baseline.requirements :
                                   Cardinality(Covering(l, lane, r)) = 1
                            /\ {c.item : c \in {g \in DOMAIN grades :
                                    g.operation = "contested_grade_fragment"
                                    /\ g.label = l /\ g.lane = lane}} = DOMAIN baseline.contested
                      /\ \A c \in DOMAIN grades : c.operation = "ordinary_grade_fragment" =>
                            /\ DOMAIN grades[c] # {}
                            /\ DOMAIN grades[c] \subseteq baseline.requirements
    BY DEF EndedMeansCovered
  <2>1. Countable(baseline)
    BY <1>1, EndedGrades
  <2>2. ASSUME NEW l \in Reports, NEW lane \in Lanes, NEW i \in DOMAIN baseline.contested
        PROVE  \E c \in DOMAIN grades : /\ c.operation = "contested_grade_fragment"
                                        /\ c.label = l /\ c.lane = lane /\ c.item = i
    <3> DEFINE S == DOMAIN baseline.contested
               k == Rank(S, i)
               n == BatchCount(baseline.requirements)
    <3>1. S \in SUBSET Nat /\ IsFiniteSet(S) /\ i \in S
      BY <2>1 DEF Countable
    <3>2. k \in 1..Cardinality(S)
      <4> HIDE DEF S
      <4> QED BY <3>1, RankIsBounded
    <3>3. n \in Nat /\ Cardinality(S) \in Nat /\ LaneSteps(baseline) = n + Cardinality(S)
      BY <2>1, LaneStepsAre
    <3>4. PICK a \in DOMAIN Labels : l = Labels[a]
      BY DEF Reports
    <3>5. ContestedItem(baseline, k) \in S /\ Rank(S, ContestedItem(baseline, k)) = Rank(S, i)
      <4> HIDE DEF k
      <4> QED BY <2>1, <3>2, ContestedItemIs DEF k
    <3>6. ContestedItem(baseline, k) = i
      <4> HIDE DEF S
      <4> QED BY <3>1, <3>5, RankIsInjective
    <3> HIDE DEF k, n
    <3>7. n + k \in 1..LaneSteps(baseline) /\ ~(n + k <= n) /\ (n + k) - n = k
      BY <3>2, <3>3
    <3>8. LaneStep(baseline, l, lane, n + k) = Call("contested_grade_fragment", l, lane, i)
      BY <2>1, <3>6, <3>7, LaneStepIs DEF n
    <3>9. LaneStep(baseline, l, lane, n + k) \in DOMAIN grades
      BY <1>1, <3>4, <3>7, EndedGrades
    <3> QED BY <3>8, <3>9 DEF Call
  <2>3. ASSUME NEW c \in DOMAIN grades, c.operation = "contested_grade_fragment"
        PROVE  c.item \in DOMAIN baseline.contested
    BY <1>1, <2>3, EndedItems
  <2>4. ASSUME NEW l \in Reports, NEW lane \in Lanes
        PROVE  {c.item : c \in {g \in DOMAIN grades : g.operation = "contested_grade_fragment"
                                  /\ g.label = l /\ g.lane = lane}} = DOMAIN baseline.contested
    BY <2>2, <2>3
  <2>5. ASSUME NEW c \in DOMAIN grades, c.operation = "ordinary_grade_fragment"
        PROVE  DOMAIN grades[c] # {} /\ DOMAIN grades[c] \subseteq baseline.requirements
    <3>1. /\ c.item \in 1..BatchCount(baseline.requirements)
          /\ DOMAIN grades[c] = Batch(baseline.requirements, c.item)
      BY <1>1, <2>5, EndedItems
    <3>2. Batch(baseline.requirements, c.item) # {}
      BY <2>1, <3>1, BatchesCover DEF Countable
    <3> QED BY <3>1, <3>2 DEF Batch
  <2>6. \A l \in Reports, lane \in Lanes : \A r \in baseline.requirements :
            Cardinality(Covering(l, lane, r)) = 1
    BY <1>1, EndedCoverage
  <2> QED BY <2>4, <2>5, <2>6
<1> QED BY <1>1, RunInvHolds, PTL

--------------------------------------------------------------------------------
(***************************************************************************)
(* The types of a run.                                                     *)
(***************************************************************************)
LEMMA OrdersJoin ==
    ASSUME NEW S, NEW x \in SUBSET (S \X S), NEW y \in SUBSET (S \X S)
    PROVE  Then(x, y) \in SUBSET (S \X S)
<1> DEFINE added == Members(y) \ Members(x)
<1>1. Members(x) \subseteq S /\ added \subseteq S
  BY DEF Members
<1>2. Then(x, y) = x \cup (Members(x) \X added) \cup {p \in y : p[1] \in added /\ p[2] \in added}
  BY DEF Then
<1> HIDE DEF added
<1> QED BY <1>1, <1>2

LEMMA OneReason ==
    \A reason \in Reasons : Only(reason) \in SUBSET (Reasons \X Reasons)
  BY DEF Only

LEMMA ScoresAreTyped == \A world : Score(world) \in Outcome
<1> SUFFICES ASSUME NEW world PROVE Score(world) \in Outcome
  OBVIOUS
<1> DEFINE first == OnlyIf("CRITICAL_RECALL_BELOW_FLOOR", CriticalBelowFloor(world))
           second == OnlyIf("WEIGHTED_COVERAGE_BELOW_FLOOR", CoverageBelowFloor(world))
           reasons == Then(first, second)
<1>1. first \in SUBSET (Reasons \X Reasons) /\ second \in SUBSET (Reasons \X Reasons)
  BY DEF Reasons, OnlyIf, Only
<1>2. reasons \in SUBSET (Reasons \X Reasons)
  <2> HIDE DEF first, second
  <2> QED BY <1>1, OrdersJoin
<1>3. Score(world) = IF \E o \in world : o.grade = "uncertain"
                     THEN [disposition |-> "INCONCLUSIVE", reasons |-> Only("GRADE_UNCERTAIN")]
                     ELSE [disposition |-> IF reasons = {} THEN "PASS" ELSE "FAIL",
                           reasons |-> reasons]
  BY DEF Score
<1> HIDE DEF reasons
<1> QED BY <1>2, <1>3, OneReason DEF Outcome, Dispositions, Reasons

(* Two outcomes merge to an outcome. *)
LEMMA MergesAreTyped == \A x, y \in Outcome : Merge(x, y) \in Outcome
<1> SUFFICES ASSUME NEW x \in Outcome, NEW y \in Outcome PROVE Merge(x, y) \in Outcome
  OBVIOUS
<1>1. Then(x.reasons, y.reasons) \in SUBSET (Reasons \X Reasons)
  BY OrdersJoin DEF Outcome
<1>2. Only("GRADER_DISAGREEMENT") \in SUBSET (Reasons \X Reasons)
  BY OneReason DEF Reasons
<1> QED BY <1>1, <1>2 DEF Merge, Outcome, Dispositions

(* A sensitivity record names only disputes of the baseline. *)
LEMMA SensitivityIsTyped ==
    ASSUME NEW common, NEW contested, NEW first, NEW second
    PROVE  Sensitivity(common, contested, first, second) \in
               [disposition : Dispositions, reasons : SUBSET (Reasons \X Reasons),
                determinative : SUBSET ((DOMAIN contested) \X (DOMAIN contested))]
<1>1. Reconcile(common, first, second) \in Outcome
  BY ScoresAreTyped, MergesAreTyped DEF Reconcile
<1>2. \A lane : LaneOutcome(common, contested, lane) \in Outcome
  <2> SUFFICES ASSUME NEW lane PROVE LaneOutcome(common, contested, lane) \in Outcome
    OBVIOUS
  <2> DEFINE reviewer == Score(World(common, contested, lane, Always(contested, "reviewer")))
             auditor == Score(World(common, contested, lane, Always(contested, "auditor")))
  <2>1. reviewer \in Outcome /\ auditor \in Outcome
    BY ScoresAreTyped
  <2>2. Merge(reviewer, auditor) \in Outcome
    <3> HIDE DEF reviewer, auditor
    <3> QED BY <2>1, MergesAreTyped
  <2>3. /\ [disposition |-> "INCONCLUSIVE", reasons |-> Only("BASELINE_EVIDENCE_INSUFFICIENT")]
               \in Outcome
        /\ [disposition |-> "INCONCLUSIVE", reasons |-> Only("OUTCOME_SENSITIVE_BASELINE_DISPUTE")]
               \in Outcome
    BY OneReason DEF Outcome, Dispositions, Reasons
  <2>4. LaneOutcome(common, contested, lane) =
            IF "INCONCLUSIVE" \in {reviewer.disposition, auditor.disposition}
            THEN [disposition |-> "INCONCLUSIVE", reasons |-> Only("BASELINE_EVIDENCE_INSUFFICIENT")]
            ELSE IF reviewer.disposition # auditor.disposition
            THEN [disposition |-> "INCONCLUSIVE",
                  reasons |-> Only("OUTCOME_SENSITIVE_BASELINE_DISPUTE")]
            ELSE Merge(reviewer, auditor)
    BY DEF LaneOutcome
  <2> HIDE DEF reviewer, auditor
  <2> QED BY <2>2, <2>3, <2>4
<1> DEFINE x == LaneOutcome(common, contested, first)
           y == LaneOutcome(common, contested, second)
           w == Then(Determinative(common, contested, first),
                     Determinative(common, contested, second))
           z == Reconcile(common, first, second)
<1>3. Merge(x, y) \in Outcome
  <2>1. x \in Outcome /\ y \in Outcome
    BY <1>2
  <2> HIDE DEF x, y
  <2> QED BY <2>1, MergesAreTyped
<1>4. w \in SUBSET ((DOMAIN contested) \X (DOMAIN contested))
  <2>1. \A lane : Determinative(common, contested, lane)
                      \in SUBSET ((DOMAIN contested) \X (DOMAIN contested))
    BY DEF Determinative, Sorted
  <2> QED BY <2>1, OrdersJoin
<1>5. Sensitivity(common, contested, first, second) =
          IF z.disposition = "INCONCLUSIVE" THEN Recorded(z, {}) ELSE Recorded(Merge(x, y), w)
  BY DEF Sensitivity
<1>6. z \in Outcome
  BY <1>1
<1> HIDE DEF x, y, w, z
<1> QED BY <1>3, <1>4, <1>5, <1>6 DEF Recorded, Outcome

(* Aggregates and records are of reports and lanes; there are none before the seal. *)
ResultsInv ==
    /\ DOMAIN aggregates \subseteq Reports \X Lanes
    /\ DOMAIN sensitivities \subseteq Reports
    /\ \A l \in DOMAIN sensitivities : sensitivities[l] \in Outcomes
    /\ result.status \in {"none", "COMPLETED", "INCONCLUSIVE"}
    /\ pending.operation \in SourceOperations => DOMAIN sensitivities = {}

(* A grading step is of a report and a lane. *)
LEMMA GradeStepLane ==
    ASSUME NEW b, Countable(b), NEW n \in 1..GradeSteps(b)
    PROVE  GradeStep(b, n).label \in Reports /\ GradeStep(b, n).lane \in Lanes
<1>1. PICK a \in DOMAIN Labels, lane \in Lanes, k \in 1..LaneSteps(b) : n = At(b, a, lane, k)
  BY StepIs
<1>2. GradeStep(b, n) = LaneStep(b, Labels[a], lane, k)
  BY <1>1, StepAt
<1> QED BY <1>2, LaneStepIs DEF Reports

(* Every step of a run keeps its results' types. *)
LEMMA ResultsInvStep ==
    ASSUME RunInv, ResultsInv, [RunNext]_runVars
    PROVE  ResultsInv'
<1>1. CASE UNCHANGED runVars
  BY <1>1 DEF runVars, sourceVars, gradeVars, ResultsInv, Outcomes
<1>2. ASSUME NEW cs, NEW ds, SealBaseline(cs, ds), pending.operation \in SourceOperations
      PROVE  ResultsInv'
  <2>1. CASE baseline'.requirements = {} /\ DOMAIN baseline'.contested = {}
    <3>1. /\ DOMAIN aggregates' = Reports \X Lanes /\ DOMAIN sensitivities' = Reports
          /\ \A l \in Reports : sensitivities'[l] = InsufficientEvidence
          /\ result' = Result(sensitivities') /\ pending' = NoCall
      BY <1>2, <2>1 DEF SealBaseline
    <3>2. InsufficientEvidence \in Outcomes'
      BY OneReason DEF InsufficientEvidence, Outcomes, Dispositions, Reasons
    <3>3. pending'.operation \notin SourceOperations
      BY <3>1, NoCallIsCall DEF SourceOperations
    <3> QED BY <3>1, <3>2, <3>3, ResultIsResult DEF ResultsInv
  <2>2. CASE ~(baseline'.requirements = {} /\ DOMAIN baseline'.contested = {})
    <3>1. UNCHANGED <<aggregates, sensitivities, result>>
      BY <1>2, <2>2 DEF SealBaseline
    <3> QED BY <1>2, <3>1 DEF ResultsInv
  <2> QED BY <2>1, <2>2
<1>3. ASSUME NEW answer \in Answers(pending), AcceptReview(answer)
      PROVE  ResultsInv'
  BY <1>3 DEF AcceptReview, ResultsInv, gradeVars, SourceOperations, Outcomes
<1>4. ASSUME NEW answer \in Answers(pending), AcceptAudit(answer)
      PROVE  ResultsInv'
  <2>1. pending.operation \in SourceOperations
    BY <1>4 DEF AcceptAudit, SourceOperations
  <2>2. CASE answer.complete /\ concerns' = <<>>
    BY <1>2, <1>4, <2>1, <2>2 DEF AcceptAudit
  <2>3. CASE ~(answer.complete /\ concerns' = <<>>)
    <3>1. UNCHANGED <<baseline, aggregates, sensitivities, result>>
      BY <1>4, <2>3 DEF AcceptAudit
    <3> QED BY <2>1, <3>1 DEF ResultsInv
  <2> QED BY <2>2, <2>3
<1>5. ASSUME NEW answer \in Answers(pending), AcceptDecision(answer)
      PROVE  ResultsInv'
  <2>1. pending.operation \in SourceOperations
    BY <1>5 DEF AcceptDecision, SourceOperations
  <2>2. CASE ~(Len(decisions') < Len(concerns))
    BY <1>2, <1>5, <2>1, <2>2 DEF AcceptDecision
  <2>3. CASE Len(decisions') < Len(concerns)
    <3>1. UNCHANGED <<baseline, aggregates, sensitivities, result>>
      BY <1>5, <2>3 DEF AcceptDecision
    <3> QED BY <2>1, <3>1 DEF ResultsInv
  <2> QED BY <2>2, <2>3
<1>6. ASSUME NEW answer \in Answers(pending), AcceptGrade(answer)
      PROVE  ResultsInv'
  <2> DEFINE l == pending.label
             n == pending.lane
             laneDone == LaneDone(grades', l, n)
             record == ReportSensitivity(baseline, aggregates'[<<l, 1>>], aggregates'[<<l, 2>>])
  <2>1. /\ baseline' = baseline /\ pending.operation \in GradeOperations
        /\ aggregates' = IF laneDone
                         THEN Extended(aggregates, <<l, n>>, LaneGrades(baseline, grades', l, n))
                         ELSE aggregates
        /\ sensitivities' = IF laneDone /\ n = 2 THEN Extended(sensitivities, l, record)
                            ELSE sensitivities
        /\ result' = result \/ result' = Result(sensitivities')
    BY <1>6 DEF AcceptGrade, sourceVars, GradeOperations
  <2>2. l \in Reports /\ n \in Lanes
    <3>1. GradingInv
      BY <2>1 DEF RunInv, GradesInv, GradeOperations, SourceOperations
    <3>2. /\ Countable(baseline) /\ StepsTaken \in Nat /\ GradeSteps(baseline) \in Nat
          /\ pending = NextStep(baseline, StepsTaken)
      BY <3>1, FS_CardinalityType, GradeStepsAre DEF GradingInv, StepsTaken
    <3>3. StepsTaken < GradeSteps(baseline)
      BY <2>1, <3>2, NoCallIsCall DEF NextStep, GradeOperations
    <3>4. StepsTaken + 1 \in 1..GradeSteps(baseline)
          /\ pending = GradeStep(baseline, StepsTaken + 1)
      BY <3>2, <3>3 DEF NextStep
    <3> QED BY <3>2, <3>4, GradeStepLane
  <2>3. record \in Outcomes
    BY SensitivityIsTyped DEF ReportSensitivity, Outcomes
  <2>4. pending'.operation \notin SourceOperations
    BY <1>6, GradeStepsGrade, NoCallIsCall DEF AcceptGrade, GradeOperations, SourceOperations
  <2>5. DOMAIN aggregates' \subseteq Reports \X Lanes
    BY <2>1, <2>2 DEF ResultsInv, Extended
  <2> HIDE DEF record, laneDone
  <2>6. DOMAIN sensitivities' \subseteq Reports
        /\ \A k \in DOMAIN sensitivities' : sensitivities'[k] \in Outcomes
    <3>1. CASE laneDone /\ n = 2
      <4>1. /\ DOMAIN sensitivities' = DOMAIN sensitivities \cup {l}
            /\ \A k \in DOMAIN sensitivities' :
                   sensitivities'[k] = IF k = l THEN record ELSE sensitivities[k]
        BY <2>1, <3>1 DEF Extended
      <4> QED BY <2>2, <2>3, <4>1 DEF ResultsInv
    <3>2. CASE ~(laneDone /\ n = 2)
      BY <2>1, <3>2 DEF ResultsInv
    <3> QED BY <3>1, <3>2
  <2>7. Outcomes' = Outcomes
    BY <2>1 DEF Outcomes
  <2>8. result'.status \in {"none", "COMPLETED", "INCONCLUSIVE"}
    BY <2>1, ResultIsResult DEF ResultsInv
  <2> QED BY <2>4, <2>5, <2>6, <2>7, <2>8 DEF ResultsInv
<1> QED BY <1>1, <1>3, <1>4, <1>5, <1>6 DEF RunNext, Submit, Advance

(* The invariants give the types of the run. *)
LEMMA RunIsTyped ==
    ASSUME RunInv, ResultsInv
    PROVE  RunTypeOK
<1>1. DOMAIN grades \subseteq Calls
  <2>1. CASE pending.operation \in SourceOperations
    BY <2>1 DEF RunInv, GradesInv, Nothing
  <2>2. CASE pending.operation \notin SourceOperations
    <3>1. /\ Countable(baseline) /\ StepsTaken \in Nat /\ GradeSteps(baseline) \in Nat
          /\ StepsTaken <= GradeSteps(baseline)
          /\ DOMAIN grades = {GradeStep(baseline, n) : n \in 1..StepsTaken}
      BY <2>2, FS_CardinalityType, GradeStepsAre DEF RunInv, GradesInv, GradingInv, StepsTaken
    <3>2. \A n \in 1..StepsTaken : n \in 1..GradeSteps(baseline)
      BY <3>1
    <3> QED BY <3>1, <3>2, GradeStepIsCall
  <2> QED BY <2>1, <2>2
<1> QED BY <1>1 DEF RunInv, SealInv, OrderInv, Formed, ResultsInv, RunTypeOK

--------------------------------------------------------------------------------
(***************************************************************************)
(* The drivers of a run.                                                   *)
(***************************************************************************)
Places == {"idle", "load", "draft", "submit", "recheck", "pause"}
Outcomings == [kind : {"none", "completed", "paused", "raised"},
               reason : PauseReasons \cup {"none"}, exitCode : {0, 3, 4, 6},
               pendingRequest : Calls, currentCall : Calls]

PlacesInv ==
    /\ pc \in [Drivers -> Places] /\ request \in [Drivers -> Calls]
    /\ attempt \in [Drivers -> {1, 2}] /\ outcome \in [Drivers -> Outcomings]
    /\ draft = [d \in Drivers |-> draft[d]]

(* A call that was issued is pending or was accepted; one that was accepted is never
   pending again. *)
Issued(c) == c = pending \/ \E i \in DOMAIN accepted : accepted[i] = c

(* What a driver holds: a request that was issued, an answer to it, and, when it was
   refused with no other answer accepted meanwhile, one that the preflight refuses. *)
HoldsRequest(d) ==
    pc[d] \in {"draft", "submit", "recheck"} =>
        request[d].operation # "none" /\ Issued(request[d])
HoldsAnswer(d) == pc[d] \in {"submit", "recheck"} => Head(draft[d]) \in Answers(request[d])
HoldsRefusal(d) ==
    pc[d] = "recheck" /\ pending = request[d] => ~Preflight(request[d], Head(draft[d]))
Holds(d) == HoldsRequest(d) /\ HoldsAnswer(d) /\ HoldsRefusal(d)

DriversInv == RunInv /\ ResultsInv /\ PlacesInv /\ \A d \in Drivers : Holds(d)

(* A step of the run, for a call that was issued before it. *)
LEMMA IssuedStays ==
    ASSUME RunInv, [RunNext]_runVars, NEW c, Issued(c)
    PROVE  /\ Issued(c)'
           /\ pending' = c => UNCHANGED runVars
           /\ c.operation \in GradeOperations => baseline' = baseline
<1>1. CASE UNCHANGED runVars
  <2>1. UNCHANGED <<accepted, pending, baseline>>
    BY <1>1 DEF runVars, sourceVars
  <2> QED BY <1>1, <2>1 DEF Issued
<1>2. CASE RunNext
  <2>1. PICK answer \in Answers(pending) : Advance(answer)
    BY <1>2 DEF RunNext, Submit
  <2>2. accepted \in Seq(Calls) /\ pending \in Calls /\ accepted' = Append(accepted, pending)
    BY <2>1 DEF RunInv, OrderInv, Advance
  <2>3. \E i \in DOMAIN accepted' : accepted'[i] = c
    <3>1. /\ DOMAIN accepted' = 1..Len(accepted) + 1 /\ DOMAIN accepted = 1..Len(accepted)
          /\ Len(accepted) \in Nat /\ accepted'[Len(accepted) + 1] = pending
          /\ \A i \in 1..Len(accepted) : accepted'[i] = accepted[i]
      BY <2>2
    <3>2. CASE c = pending
      BY <3>1, <3>2
    <3>3. CASE \E i \in DOMAIN accepted : accepted[i] = c
      BY <3>1, <3>3
    <3> QED BY <3>2, <3>3 DEF Issued
  <2>4. pending' # c
    <3>1. OrderInv' /\ GradesInv'
      BY RunInvStep DEF RunInv
    <3>2. \A i \in DOMAIN accepted' : accepted'[i] # pending'
      <4>1. (OrderInv /\ GradesInv => \A i \in DOMAIN accepted : accepted[i] # pending)'
        BY PendingIsNew, PTL
      <4> QED BY <3>1, <4>1
    <3> QED BY <2>3, <3>2
  <2>5. c.operation \in GradeOperations => baseline' = baseline
    <3> SUFFICES ASSUME c.operation \in GradeOperations PROVE baseline' = baseline
      OBVIOUS
    <3>1. pending.operation \notin SourceOperations
      <4>1. CASE c = pending
        BY <4>1 DEF GradeOperations, SourceOperations
      <4>2. CASE \E i \in DOMAIN accepted : accepted[i] = c
        <5>1. c \in DOMAIN grades
          BY <4>2 DEF RunInv, OrderInv, Behind, GradeOperations
        <5> QED BY <5>1 DEF RunInv, GradesInv, Nothing
      <4> QED BY <4>1, <4>2 DEF Issued
    <3> QED BY <2>1, <3>1
            DEF Advance, AcceptReview, AcceptAudit, AcceptDecision, AcceptGrade,
                SourceOperations, sourceVars
  <2>6. Issued(c)'
    BY <2>3 DEF Issued
  <2> QED BY <2>4, <2>5, <2>6
<1> QED BY <1>1, <1>2

(* What a driver holds stays true while the run moves and the driver does not. *)
LEMMA HoldsStays ==
    ASSUME RunInv, PlacesInv, [RunNext]_runVars, NEW d \in Drivers, Holds(d),
           pc'[d] = pc[d], request'[d] = request[d], draft'[d] = draft[d]
    PROVE  Holds(d)'
<1>1. ASSUME pc[d] \in {"draft", "submit", "recheck"}
      PROVE  /\ request[d].operation # "none" /\ Issued(request[d])'
             /\ pending' = request[d] => UNCHANGED runVars
             /\ request[d].operation \in GradeOperations => baseline' = baseline
  BY <1>1, IssuedStays DEF Holds, HoldsRequest
<1>2. HoldsRequest(d)'
  BY <1>1 DEF HoldsRequest, Issued
<1>3. HoldsAnswer(d)'
  <2> SUFFICES ASSUME pc[d] \in {"submit", "recheck"}
               PROVE  (Head(draft[d]) \in Answers(request[d]))'
    BY DEF HoldsAnswer
  <2>1. Head(draft[d]) \in Answers(request[d])
    BY DEF Holds, HoldsAnswer
  <2>2. request[d].operation \in GradeOperations => baseline' = baseline
    BY <1>1
  <2>3. CASE request[d].operation = "source_review_fragment"
    <3> DEFINE given == {Fragment(s, c) : s \in ReviewItems, c \in BOOLEAN} \ {Fragment(<<>>, FALSE)}
    <3>1. Answers(request[d]) = given
      BY <2>3 DEF Answers
    <3>2. Answers(request[d])' = given
      BY <2>3 DEF Answers
    <3> HIDE DEF given
    <3> QED BY <2>1, <3>1, <3>2
  <2>4. CASE request[d].operation = "source_audit_fragment"
    <3> DEFINE given == {Fragment(s, c) : s \in AuditItems, c \in BOOLEAN} \ {Fragment(<<>>, FALSE)}
    <3>1. Answers(request[d]) = given
      BY <2>4 DEF Answers
    <3>2. Answers(request[d])' = given
      BY <2>4 DEF Answers
    <3> HIDE DEF given
    <3> QED BY <2>1, <3>1, <3>2
  <2>5. CASE request[d].operation = "source_referee_fragment"
    BY <2>1, <2>5 DEF Answers
  <2>6. CASE request[d].operation = "ordinary_grade_fragment"
    BY <2>1, <2>2, <2>6 DEF Answers, GradeOperations
  <2>7. CASE request[d].operation = "contested_grade_fragment"
    BY <2>1, <2>2, <2>7 DEF Answers, GradeOperations
  <2>8. request[d].operation \in Operations /\ request[d].operation # "none"
    BY <1>1 DEF PlacesInv, Calls
  <2> QED BY <2>3, <2>4, <2>5, <2>6, <2>7, <2>8 DEF Operations
<1>4. HoldsRefusal(d)'
  <2> SUFFICES ASSUME pc[d] = "recheck", pending' = request[d]
               PROVE  ~Preflight(request[d], Head(draft[d]))'
    BY DEF HoldsRefusal
  <2>1. UNCHANGED <<proposals, concerns, pending>>
    BY <1>1 DEF runVars, sourceVars
  <2>2. ~Preflight(request[d], Head(draft[d]))
    BY <2>1 DEF Holds, HoldsRefusal
  <2> QED BY <2>1, <2>2 DEF Preflight
<1> QED BY <1>2, <1>3, <1>4 DEF Holds

(* What the other drivers keep. *)
OthersStay(d) ==
    \A e \in Drivers \ {d} : pc'[e] = pc[e] /\ request'[e] = request[e] /\ draft'[e] = draft[e]

(* What a return leaves. *)
LEMMA ReturnLeaves ==
    ASSUME PlacesInv, NEW d \in Drivers, NEW value \in Outcomings, Return(d, value)
    PROVE  PlacesInv' /\ pc'[d] = "idle" /\ OthersStay(d)
<1>1. /\ pc' = [pc EXCEPT ![d] = "idle"] /\ request' = [request EXCEPT ![d] = NoCall]
      /\ attempt' = [attempt EXCEPT ![d] = 1] /\ outcome' = [outcome EXCEPT ![d] = value]
      /\ draft' = [draft EXCEPT ![d] = NoDraft]
  BY DEF Return, Goto
<1>2. pc' \in [Drivers -> Places] /\ request' \in [Drivers -> Calls]
      /\ attempt' \in [Drivers -> {1, 2}] /\ outcome' \in [Drivers -> Outcomings]
  BY <1>1, NoCallIsCall DEF PlacesInv, Places
<1>3. draft' = [e \in Drivers |-> draft'[e]]
  BY <1>1 DEF PlacesInv
<1> QED BY <1>1, <1>2, <1>3 DEF PlacesInv, OthersStay

(* What the preparation of a pause leaves. *)
LEMMA PausingLeaves ==
    ASSUME PlacesInv, NEW d \in Drivers, NEW reason \in PauseReasons, Pausing(d, reason)
    PROVE  PlacesInv' /\ pc'[d] = "pause" /\ OthersStay(d)
<1>1. /\ pc' = [pc EXCEPT ![d] = "pause"]
      /\ outcome' = [outcome EXCEPT ![d] = Returned("none", reason, 6)]
      /\ UNCHANGED <<request, attempt, draft>>
  BY DEF Pausing, Goto
<1>2. Returned("none", reason, 6) \in Outcomings
  BY NoCallIsCall DEF Returned, Outcomings
<1>3. pc' \in [Drivers -> Places] /\ outcome' \in [Drivers -> Outcomings]
  BY <1>1, <1>2 DEF PlacesInv, Places
<1> QED BY <1>1, <1>3 DEF PlacesInv, OthersStay

(* Outside draft, submission and recheck a driver holds nothing. *)
LEMMA HoldsNothing ==
    ASSUME NEW d, pc'[d] \notin {"draft", "submit", "recheck"}
    PROVE  Holds(d)'
  BY DEF Holds, HoldsRequest, HoldsAnswer, HoldsRefusal

(* A driver starts, and loads the pending request or the result. *)
LEMMA LoadKeeps ==
    ASSUME DriversInv, NEW d \in Drivers, Continue(d) \/ Load(d)
    PROVE  [RunNext]_runVars /\ PlacesInv' /\ Holds(d)' /\ OthersStay(d)
<1>1. PlacesInv /\ RunInv
  BY DEF DriversInv
<1>2. CASE Continue(d)
  <2>1. /\ pc' = [pc EXCEPT ![d] = "load"] /\ outcome' = [outcome EXCEPT ![d] = NoOutcome]
        /\ UNCHANGED <<request, attempt, draft>> /\ UNCHANGED runVars
    BY <1>2 DEF Continue, Goto
  <2>2. NoOutcome \in Outcomings
    BY NoCallIsCall DEF NoOutcome, Returned, Outcomings
  <2>3. pc' \in [Drivers -> Places] /\ outcome' \in [Drivers -> Outcomings] /\ pc'[d] = "load"
    BY <1>1, <2>1, <2>2 DEF PlacesInv, Places
  <2>4. OthersStay(d)
    BY <1>1, <2>1 DEF PlacesInv, OthersStay
  <2> QED BY <1>1, <2>1, <2>3, <2>4, HoldsNothing DEF PlacesInv
<1>3. CASE Load(d)
  <2>1. UNCHANGED runVars
    BY <1>3 DEF Load
  <2>2. CASE Ended
    <3>1. Return(d, Returned("completed", "none", ExitCode))
      BY <1>3, <2>2 DEF Load
    <3>2. Returned("completed", "none", ExitCode) \in Outcomings
      <4>1. ExitCode \in {0, 3, 4, 6}
        BY DEF ExitCode
      <4> QED BY <4>1, NoCallIsCall DEF Returned, Outcomings
    <3> QED BY <1>1, <2>1, <3>1, <3>2, ReturnLeaves, HoldsNothing
  <2>3. CASE ~Ended
    <3>1. /\ request' = [request EXCEPT ![d] = pending] /\ attempt' = [attempt EXCEPT ![d] = 1]
          /\ pc' = [pc EXCEPT ![d] = "draft"] /\ UNCHANGED <<draft, outcome>>
      BY <1>3, <2>3 DEF Load, Goto
    <3>2. pending \in Calls /\ pending.operation # "none"
      <4>1. CASE pending.operation \in SourceOperations
        BY <1>1, <4>1 DEF RunInv, OrderInv, SourceOperations
      <4>2. CASE pending.operation \notin SourceOperations
        <5>1. GradingInv /\ pending # NoCall
          BY <1>1, <2>3, <4>2 DEF RunInv, GradesInv, GradingInv
        <5>2. pending.operation \in GradeOperations
          BY <5>1, GradeStepsGrade DEF GradingInv, NextStep
        <5> QED BY <1>1, <5>2 DEF RunInv, OrderInv, GradeOperations
      <4> QED BY <4>1, <4>2
    <3>3. pc' \in [Drivers -> Places] /\ request' \in [Drivers -> Calls]
          /\ attempt' \in [Drivers -> {1, 2}] /\ pc'[d] = "draft" /\ request'[d] = pending
      BY <1>1, <3>1, <3>2 DEF PlacesInv, Places
    <3>4. OthersStay(d)
      BY <1>1, <3>1 DEF PlacesInv, OthersStay
    <3>5. pending' = pending
      BY <2>1 DEF runVars
    <3>6. Holds(d)'
      BY <3>2, <3>3, <3>5 DEF Holds, HoldsRequest, HoldsAnswer, HoldsRefusal, Issued
    <3>7. PlacesInv'
      BY <1>1, <3>1, <3>3 DEF PlacesInv
    <3> QED BY <2>1, <3>4, <3>6, <3>7
  <2> QED BY <2>2, <2>3
<1> QED BY <1>2, <1>3

(* A draft is unclear, defective, or an answer to the request held. *)
LEMMA DraftKeeps ==
    ASSUME DriversInv, NEW d \in Drivers,
           DraftUnclear(d) \/ DraftDefective(d) \/ DraftCompiled(d)
    PROVE  [RunNext]_runVars /\ PlacesInv' /\ Holds(d)' /\ OthersStay(d)
<1>1. PlacesInv /\ RunInv /\ Holds(d)
  BY DEF DriversInv
<1>2. pc[d] = "draft" /\ UNCHANGED runVars
  BY DEF DraftUnclear, DraftDefective, DraftCompiled
<1>3. UNCHANGED <<accepted, pending, proposals, concerns, baseline>>
  BY <1>2 DEF runVars, sourceVars
<1>4. request[d].operation # "none" /\ Issued(request[d])
  BY <1>1, <1>2 DEF Holds, HoldsRequest
<1>5. CASE DraftUnclear(d) /\ attempt[d] = 1
  <2>1. attempt' = [attempt EXCEPT ![d] = 2] /\ UNCHANGED <<pc, request, draft, outcome>>
    BY <1>5 DEF DraftUnclear
  <2>2. attempt' \in [Drivers -> {1, 2}]
    BY <1>1, <2>1 DEF PlacesInv
  <2>3. PlacesInv' /\ OthersStay(d)
    BY <1>1, <2>1, <2>2 DEF PlacesInv, OthersStay
  <2>4. Holds(d)'
    BY <1>2, <1>3, <1>4, <2>1 DEF Holds, HoldsRequest, HoldsAnswer, HoldsRefusal, Issued
  <2> QED BY <1>2, <2>3, <2>4
<1>6. CASE DraftUnclear(d) /\ attempt[d] # 1
  <2>1. Pausing(d, "CLARIFICATION_EXHAUSTED") /\ "CLARIFICATION_EXHAUSTED" \in PauseReasons
    BY <1>6 DEF DraftUnclear, PauseReasons
  <2> QED BY <1>1, <1>2, <2>1, PausingLeaves, HoldsNothing
<1>7. CASE DraftDefective(d)
  <2>1. Pausing(d, "COMPILER_INVARIANT") /\ "COMPILER_INVARIANT" \in PauseReasons
    BY <1>7 DEF DraftDefective, PauseReasons
  <2> QED BY <1>1, <1>2, <2>1, PausingLeaves, HoldsNothing
<1>8. CASE DraftCompiled(d)
  <2>1. PICK a \in Compiled(request[d]) : draft' = [draft EXCEPT ![d] = <<a>>]
    BY <1>8 DEF DraftCompiled
  <2>2. a \in Answers(request[d])
    BY DEF Compiled
  <2>3. pc' = [pc EXCEPT ![d] = "submit"] /\ UNCHANGED <<request, attempt, outcome>>
    BY <1>8 DEF DraftCompiled, Goto
  <2>4. pc' \in [Drivers -> Places] /\ pc'[d] = "submit" /\ draft' = [e \in Drivers |-> draft'[e]]
        /\ draft'[d] = <<a>>
    BY <1>1, <2>1, <2>3 DEF PlacesInv, Places
  <2>5. PlacesInv' /\ OthersStay(d)
    BY <1>1, <2>1, <2>3, <2>4 DEF PlacesInv, OthersStay
  <2>6. HoldsRequest(d)' /\ HoldsRefusal(d)'
    BY <1>3, <1>4, <2>3, <2>4 DEF HoldsRequest, HoldsRefusal, Issued
  <2>7. Head(draft'[d]) = a
    BY <2>4
  <2>8. Answers(request[d])' = Answers(request[d])
    BY <1>3, <2>3 DEF Answers
  <2>9. HoldsAnswer(d)'
    BY <2>2, <2>7, <2>8 DEF HoldsAnswer
  <2> QED BY <1>2, <2>5, <2>6, <2>9 DEF Holds
<1> QED BY <1>5, <1>6, <1>7, <1>8

(* A submission is refused, exceeds a limit, raises, or is a step of the run. *)
LEMMA SubmitKeeps ==
    ASSUME DriversInv, NEW d \in Drivers, SubmitDraft(d)
    PROVE  [RunNext]_runVars /\ PlacesInv' /\ Holds(d)' /\ OthersStay(d)
<1> DEFINE a == Head(draft[d])
<1>1. PlacesInv /\ RunInv /\ Holds(d) /\ pc[d] = "submit"
  BY DEF DriversInv, SubmitDraft
<1>2. request[d].operation # "none" /\ Issued(request[d]) /\ a \in Answers(request[d])
  BY <1>1 DEF Holds, HoldsRequest, HoldsAnswer
<1>3. CASE /\ Refused(request[d], a) /\ Goto(d, "recheck")
           /\ UNCHANGED <<runVars, request, attempt, draft, outcome>>
  <2>1. pc' = [pc EXCEPT ![d] = "recheck"]
        /\ UNCHANGED <<accepted, pending, proposals, concerns, baseline>>
    BY <1>3 DEF Goto, runVars, sourceVars
  <2>2. pc' \in [Drivers -> Places] /\ pc'[d] = "recheck"
    BY <1>1, <2>1 DEF PlacesInv, Places
  <2>3. PlacesInv' /\ OthersStay(d)
    BY <1>1, <1>3, <2>1, <2>2 DEF PlacesInv, OthersStay
  <2>4. pending = request[d] => ~Preflight(request[d], a)
    BY <1>2, <1>3, NoCallIsCall DEF Refused
  <2>5. HoldsRequest(d)'
    BY <1>2, <1>3, <2>1, <2>2 DEF HoldsRequest, Issued
  <2>6. Answers(request[d])' = Answers(request[d])
    BY <1>3, <2>1 DEF Answers
  <2>7. HoldsAnswer(d)'
    BY <1>2, <1>3, <2>6 DEF HoldsAnswer
  <2>8. HoldsRefusal(d)'
    <3>1. Preflight(request[d], a)' = Preflight(request[d], a)
      BY <1>3, <2>1 DEF Preflight
    <3> QED BY <1>3, <2>1, <2>4, <3>1 DEF HoldsRefusal
  <2> QED BY <1>3, <2>3, <2>5, <2>7, <2>8 DEF Holds
<1>4. CASE Pausing(d, "DRAFT_LIMIT_EXCEEDED") /\ UNCHANGED runVars
  <2>1. "DRAFT_LIMIT_EXCEEDED" \in PauseReasons
    BY DEF PauseReasons
  <2> QED BY <1>1, <1>4, <2>1, PausingLeaves, HoldsNothing
<1>5. CASE Return(d, Returned("raised", "none", 0)) /\ UNCHANGED runVars
  <2>1. Returned("raised", "none", 0) \in Outcomings
    BY NoCallIsCall DEF Returned, Outcomings
  <2> QED BY <1>1, <1>5, <2>1, ReturnLeaves, HoldsNothing
<1>6. CASE /\ Accepts(request[d], a) /\ Advance(a) /\ Goto(d, "load")
           /\ request' = [request EXCEPT ![d] = NoCall]
           /\ draft' = [draft EXCEPT ![d] = NoDraft]
           /\ UNCHANGED <<attempt, outcome>>
  <2>1. request[d] = pending
    BY <1>6 DEF Accepts, Refused
  <2>2. RunNext
    BY <1>2, <1>6, <2>1 DEF RunNext, Submit
  <2>3. pc' = [pc EXCEPT ![d] = "load"]
    BY <1>6 DEF Goto
  <2>4. pc' \in [Drivers -> Places] /\ pc'[d] = "load" /\ request' \in [Drivers -> Calls]
        /\ draft' = [e \in Drivers |-> draft'[e]]
    BY <1>1, <1>6, <2>3, NoCallIsCall DEF PlacesInv, Places
  <2>5. PlacesInv' /\ OthersStay(d)
    BY <1>1, <1>6, <2>3, <2>4 DEF PlacesInv, OthersStay
  <2> QED BY <2>2, <2>4, <2>5, HoldsNothing
<1> QED BY <1>3, <1>4, <1>5, <1>6 DEF SubmitDraft

(* The recheck after a refusal, a pause, an interruption. *)
LEMMA LeavingKeeps ==
    ASSUME DriversInv, NEW d \in Drivers, Recheck(d) \/ Pause(d) \/ Interrupt(d)
    PROVE  [RunNext]_runVars /\ PlacesInv' /\ Holds(d)' /\ OthersStay(d)
<1>1. PlacesInv /\ RunInv
  BY DEF DriversInv
<1>2. UNCHANGED runVars
  BY DEF Recheck, Pause, Interrupt
<1>3. CASE Recheck(d) /\ pending = request[d]
  <2>1. Pausing(d, "COMPILER_PREFLIGHT_DISAGREEMENT")
        /\ "COMPILER_PREFLIGHT_DISAGREEMENT" \in PauseReasons
    BY <1>3 DEF Recheck, PauseReasons
  <2> QED BY <1>1, <1>2, <2>1, PausingLeaves, HoldsNothing
<1>4. CASE Recheck(d) /\ pending # request[d]
  <2>1. /\ pc' = [pc EXCEPT ![d] = "load"] /\ request' = [request EXCEPT ![d] = NoCall]
        /\ draft' = [draft EXCEPT ![d] = NoDraft] /\ UNCHANGED <<attempt, outcome>>
    BY <1>4 DEF Recheck, Goto
  <2>2. pc' \in [Drivers -> Places] /\ pc'[d] = "load" /\ request' \in [Drivers -> Calls]
        /\ draft' = [e \in Drivers |-> draft'[e]]
    BY <1>1, <2>1, NoCallIsCall DEF PlacesInv, Places
  <2>3. PlacesInv' /\ OthersStay(d)
    BY <1>1, <2>1, <2>2 DEF PlacesInv, OthersStay
  <2> QED BY <1>2, <2>2, <2>3, HoldsNothing
<1>5. CASE Pause(d)
  <2> DEFINE value == [Returned("paused", outcome[d].reason, 6) EXCEPT
                         !.pendingRequest = request[d], !.currentCall = pending]
  <2>1. Return(d, value)
    BY <1>5 DEF Pause
  <2>2. outcome[d].reason \in PauseReasons \cup {"none"} /\ request[d] \in Calls
        /\ pending \in Calls
    BY <1>1 DEF PlacesInv, Outcomings, RunInv, OrderInv
  <2>3. value \in Outcomings
    BY <2>2 DEF Returned, Outcomings
  <2> HIDE DEF value
  <2> QED BY <1>1, <1>2, <2>1, <2>3, ReturnLeaves, HoldsNothing
<1>6. CASE Interrupt(d)
  <2>1. Return(d, NoOutcome)
    BY <1>6 DEF Interrupt
  <2>2. NoOutcome \in Outcomings
    BY NoCallIsCall DEF NoOutcome, Returned, Outcomings
  <2> QED BY <1>1, <1>2, <2>1, <2>2, ReturnLeaves, HoldsNothing
<1> QED BY <1>3, <1>4, <1>5, <1>6

(* Any step of a driver. *)
LEMMA DriverKeeps ==
    ASSUME DriversInv, NEW d \in Drivers, Continue(d) \/ DriverStep(d) \/ Interrupt(d)
    PROVE  [RunNext]_runVars /\ PlacesInv' /\ Holds(d)' /\ OthersStay(d)
  BY LoadKeeps, DraftKeeps, SubmitKeeps, LeavingKeeps DEF DriverStep

(* Any step of the drivers is a step of the run or leaves it alone. *)
LEMMA DriversInvStep ==
    ASSUME DriversInv, [Next]_vars
    PROVE  [RunNext]_runVars /\ DriversInv'
<1>1. RunInv /\ ResultsInv /\ PlacesInv /\ \A d \in Drivers : Holds(d)
  BY DEF DriversInv
<1>2. [RunNext]_runVars /\ PlacesInv' /\ \A d \in Drivers : Holds(d)'
  <2>1. ASSUME NEW d \in Drivers, Continue(d) \/ DriverStep(d) \/ Interrupt(d)
        PROVE  [RunNext]_runVars /\ PlacesInv' /\ \A e \in Drivers : Holds(e)'
    <3>1. [RunNext]_runVars /\ PlacesInv' /\ Holds(d)' /\ OthersStay(d)
      BY <2>1, DriverKeeps
    <3>2. ASSUME NEW e \in Drivers, e # d
          PROVE  Holds(e)'
      <4>1. pc'[e] = pc[e] /\ request'[e] = request[e] /\ draft'[e] = draft[e]
        BY <3>1, <3>2 DEF OthersStay
      <4> QED BY <1>1, <3>1, <4>1, HoldsStays
    <3> QED BY <3>1, <3>2
  <2>2. ASSUME UNCHANGED driverVars, [RunNext]_runVars
        PROVE  PlacesInv' /\ \A e \in Drivers : Holds(e)'
    <3>1. UNCHANGED <<pc, request, attempt, draft, outcome>>
      BY <2>2 DEF driverVars
    <3>2. PlacesInv'
      BY <1>1, <3>1 DEF PlacesInv
    <3> QED BY <1>1, <2>2, <3>1, <3>2, HoldsStays
  <2>3. CASE SubmitByHand
    BY <2>2, <2>3 DEF SubmitByHand
  <2>4. CASE UNCHANGED vars
    BY <2>2, <2>4 DEF vars
  <2> QED BY <2>1, <2>3, <2>4 DEF Next
<1>3. RunInv' /\ ResultsInv'
  BY <1>1, <1>2, RunInvStep, ResultsInvStep
<1> QED BY <1>2, <1>3 DEF DriversInv

(* The invariant of the run and its drivers. *)
LEMMA DriversInvHolds == Spec => []DriversInv
<1>1. ASSUME Init PROVE DriversInv
  <2>1. RunInv
    BY <1>1, RunInvStarts DEF Init
  <2>2. ResultsInv
    BY <1>1 DEF Init, RunInit, ResultsInv, Nothing, NoResult
  <2>3. PlacesInv
    <3>1. NoOutcome \in Outcomings
      BY NoCallIsCall DEF NoOutcome, Returned, Outcomings
    <3> QED BY <1>1, <3>1, NoCallIsCall DEF Init, PlacesInv, Places
  <2>4. \A d \in Drivers : Holds(d)
    BY <1>1 DEF Init, Holds, HoldsRequest, HoldsAnswer, HoldsRefusal
  <2> QED BY <2>1, <2>2, <2>3, <2>4 DEF DriversInv
<1> QED BY <1>1, DriversInvStep, PTL DEF Spec

(* However many drivers and hands submit to it at once, and wherever they are interrupted, *)
(* what happens to the run is a run: one answer at a time, to the call that is pending     *)
(* (guarded_submit_evaluator_response_v22).                                                *)
THEOREM DriversMakeARun == Spec => RunSpec
<1>1. Init => RunInit
  BY DEF Init
<1>2. DriversInv /\ [Next]_vars => [RunNext]_runVars
  BY DriversInvStep
<1> QED BY <1>1, <1>2, DriversInvHolds, PTL DEF Spec, RunSpec

(* The run and its drivers keep their types; what a driver is about to submit is an        *)
(* answer to the request it holds, also when the run has moved on (continue_evaluation_v22). *)
THEOREM DriversAreTyped == Spec => []TypeOK
<1>1. ASSUME DriversInv PROVE TypeOK
  <2>1. RunTypeOK
    BY <1>1, RunIsTyped DEF DriversInv
  <2>2. \A d \in Drivers :
            pc[d] \in {"submit", "recheck"} => Head(draft[d]) \in Answers(request[d])
    BY <1>1 DEF DriversInv, Holds, HoldsAnswer
  <2>3. \A d \in Drivers : outcome[d] \in Outcomings
    BY <1>1 DEF DriversInv, PlacesInv
  <2> QED BY <1>1, <2>1, <2>2, <2>3 DEF TypeOK, DriversInv, PlacesInv, Places, Outcomings
<1> QED BY <1>1, DriversInvHolds, PTL

(* Any number of drivers: an answer drafted for a request that another caller has answered *)
(* changes nothing in the run (the stale check of submit_evaluator_response_v22).          *)
THEOREM StaleDraftsAreHarmless == Spec => StaleDraftChangesNothing
<1>1. ASSUME DriversInv, [Next]_vars, NEW d \in Drivers,
             pc[d] = "submit", pc'[d] # "submit", request[d] # pending
      PROVE  UNCHANGED runVars
  <2>1. CASE UNCHANGED vars
    BY <2>1 DEF vars
  <2>2. CASE SubmitByHand
    BY <1>1, <2>2 DEF SubmitByHand, driverVars
  <2>3. ASSUME NEW e \in Drivers, Continue(e) \/ DriverStep(e) \/ Interrupt(e)
        PROVE  UNCHANGED runVars
    <3>1. e = d
      <4>1. OthersStay(e)
        BY <1>1, <2>3, DriverKeeps
      <4> QED BY <1>1, <4>1 DEF OthersStay
    <3>2. SubmitDraft(d) \/ Interrupt(d)
      BY <1>1, <2>3, <3>1
         DEF Continue, DriverStep, Load, DraftUnclear, DraftDefective, DraftCompiled, Recheck, Pause
    <3>3. ~Accepts(request[d], Head(draft[d]))
      BY <1>1 DEF Accepts, Refused
    <3> QED BY <3>2, <3>3 DEF SubmitDraft, Interrupt
  <2> QED BY <1>1, <2>1, <2>2, <2>3 DEF Next
<1>2. DriversInv /\ [Next]_vars =>
          [\A d \in Drivers : (pc[d] = "submit" /\ pc'[d] # "submit" /\ request[d] # pending) =>
              UNCHANGED runVars]_vars
  BY <1>1
<1> QED BY <1>2, DriversInvHolds, PTL DEF Spec, StaleDraftChangesNothing

(* Any number of drivers: one that pauses because its compiler and the preflight disagree  *)
(* holds an answer to the pending request that the preflight refuses; it did not merely    *)
(* lose a race (_outcome_after_stale_request).                                             *)
THEOREM DisagreementsAreReal == Spec => DisagreementIsReal
<1>1. ASSUME DriversInv, [Next]_vars, NEW d \in Drivers, pc[d] = "recheck", pc'[d] = "pause"
      PROVE  pending = request[d] /\ ~Preflight(request[d], Head(draft[d]))
  <2>1. Holds(d) /\ PlacesInv
    BY <1>1 DEF DriversInv
  <2>2. CASE UNCHANGED vars
    BY <1>1, <2>2 DEF vars, driverVars
  <2>3. CASE SubmitByHand
    BY <1>1, <2>3 DEF SubmitByHand, driverVars
  <2>4. ASSUME NEW e \in Drivers, Continue(e) \/ DriverStep(e) \/ Interrupt(e)
        PROVE  pending = request[d]
    <3>1. e = d
      <4>1. OthersStay(e)
        BY <1>1, <2>4, DriverKeeps
      <4> QED BY <1>1, <4>1 DEF OthersStay
    <3>2. Recheck(d) \/ Interrupt(d)
      BY <1>1, <2>4, <3>1
         DEF Continue, DriverStep, Load, DraftUnclear, DraftDefective, DraftCompiled, SubmitDraft,
             Pause
    <3>3. CASE Interrupt(d)
      BY <1>1, <2>1, <3>3 DEF Interrupt, Return, Goto, PlacesInv
    <3>4. CASE Recheck(d)
      BY <1>1, <2>1, <3>4 DEF Recheck, Goto, PlacesInv
    <3> QED BY <3>2, <3>3, <3>4
  <2>5. pending = request[d]
    BY <1>1, <2>2, <2>3, <2>4 DEF Next
  <2> QED BY <1>1, <2>1, <2>5 DEF Holds, HoldsRefusal
<1>2. DriversInv /\ [Next]_vars =>
          [\A d \in Drivers : (pc[d] = "recheck" /\ pc'[d] = "pause") =>
              pending = request[d] /\ ~Preflight(request[d], Head(draft[d]))]_vars
  BY <1>1
<1> QED BY <1>2, DriversInvHolds, PTL DEF Spec, DisagreementIsReal
================================================================================
