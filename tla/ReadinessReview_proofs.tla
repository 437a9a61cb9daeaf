------------------------- MODULE ReadinessReview_proofs -------------------------
(***************************************************************************)
(* Proofs about one delivery-readiness run, for any package with finitely  *)
(* many requirements and contests and any answers of its evaluators:       *)
(* that only referees take blockers away, that the order of the lanes      *)
(* decides nothing, that the strict outcome is the retained scoring's,     *)
(* that what is delivered is covered, and what an accepted answer may be   *)
(* refused for in the end.                                                 *)
(*                                                                         *)
(* Scores are sums over sets.  What is said of such a sum is shown of a    *)
(* smallest set that would contradict it.                                  *)
(***************************************************************************)
EXTENDS ReadinessReview, FiniteSetTheorems, TLAPS

(***************************************************************************)
(* Sums over finite sets.                                                  *)
(***************************************************************************)
(* Among sets there is one that contains no other of them. *)
LEMMA SmallestSet ==
    ASSUME NEW S, IsFiniteSet(S), NEW F \in SUBSET SUBSET S, F # {}
    PROVE  \E T \in F : \A U \in F : U \subseteq T => U = T
<1>1. FiniteSubsetsOf(S) = SUBSET S
  BY FS_FiniteSubsetsOfFinite
<1>2. IsWellFoundedOn(StrictSubsetOrdering(S), SUBSET S)
  BY <1>1, FS_StrictSubsetOrderingWellFounded
<1>3. PICK T \in F : \A U \in F : ~(<<U, T>> \in StrictSubsetOrdering(S))
  BY <1>2, WFMin
<1>4. \A U \in F : U \subseteq T => U = T
  BY <1>3 DEF StrictSubsetOrdering
<1> QED BY <1>4

(* The running sums of v, as the fold computes them. *)
Picked(s) == CHOOSE x \in s : TRUE
Sums(v, S, f) ==
    f = [s \in SUBSET S |-> IF s = {} THEN 0 ELSE v[Picked(s)] + f[s \ {Picked(s)}]]
Sum(v, S) == (CHOOSE f : Sums(v, S, f))[S]

LEMMA SumsAgree ==
    ASSUME NEW v, NEW S, NEW T, NEW f, NEW g, Sums(v, S, f), Sums(v, T, g),
           NEW U, IsFiniteSet(U), U \subseteq S, U \subseteq T
    PROVE  f[U] = g[U]
<1> DEFINE F == {W \in SUBSET U : f[W] # g[W]}
<1>1. \A W \in SUBSET U :
        /\ f[W] = IF W = {} THEN 0 ELSE v[Picked(W)] + f[W \ {Picked(W)}]
        /\ g[W] = IF W = {} THEN 0 ELSE v[Picked(W)] + g[W \ {Picked(W)}]
  BY DEF Sums
<1>2. ASSUME F # {} PROVE FALSE
  <2>1. PICK W \in F : \A X \in F : X \subseteq W => X = W
    <3>1. F \in SUBSET SUBSET U
      OBVIOUS
    <3> HIDE DEF F
    <3> QED BY <1>2, <3>1, SmallestSet
  <2>2. W # {}
    BY <1>1
  <2> DEFINE x == Picked(W)
  <2>3. x \in W
    BY <2>2 DEF Picked
  <2>4. W \ {x} \in SUBSET U /\ W \ {x} # W /\ W \ {x} \subseteq W
    BY <2>3
  <2>5. f[W \ {x}] = g[W \ {x}]
    BY <2>1, <2>4
  <2> QED BY <1>1, <2>2, <2>5
<1> QED BY <1>2

LEMMA SumsExist ==
    ASSUME NEW v, NEW S, IsFiniteSet(S)
    PROVE  \E f : Sums(v, S, f)
<1> DEFINE F == {W \in SUBSET S : ~ \E f : Sums(v, W, f)}
<1>1. ASSUME F # {} PROVE FALSE
  <2>1. PICK W \in F : \A X \in F : X \subseteq W => X = W
    <3>1. F \in SUBSET SUBSET S
      OBVIOUS
    <3> HIDE DEF F
    <3> QED BY <1>1, <3>1, SmallestSet
  <2> DEFINE h(s) == CHOOSE f : Sums(v, s, f)
             f == [s \in SUBSET W |->
                     IF s = {} THEN 0
                     ELSE IF s = W THEN v[Picked(W)] + h(W \ {Picked(W)})[W \ {Picked(W)}]
                     ELSE h(s)[s]]
  <2>2. \A s \in SUBSET W : s # W => Sums(v, s, h(s))
    BY <2>1
  <2>3. ASSUME NEW s \in SUBSET W
        PROVE  f[s] = IF s = {} THEN 0 ELSE v[Picked(s)] + f[s \ {Picked(s)}]
    <3>1. CASE s = {}
      BY <3>1
    <3>2. CASE s # {}
      <4> DEFINE x == Picked(s)
                 t == s \ {x}
      <4>1. x \in s /\ t \in SUBSET W /\ t # W /\ t # s
        BY <3>2 DEF Picked
      <4>2. Sums(v, t, h(t)) /\ IsFiniteSet(t)
        BY <2>2, <4>1, FS_Subset
      <4>3. f[t] = h(t)[t]
        <5>1. CASE t = {}
          <6>1. h(t)[t] = 0
            BY <4>2, <5>1 DEF Sums
          <6> QED BY <4>1, <5>1, <6>1
        <5>2. CASE t # {}
          <6> HIDE DEF t, h
          <6> QED BY <4>1, <5>2
        <5> QED BY <5>1, <5>2
      <4>4. CASE s = W
        <5>1. f[s] = v[x] + h(t)[t]
          BY <3>2, <4>4
        <5> HIDE DEF t, h, f
        <5> QED BY <3>2, <4>3, <5>1 DEF t
      <4>5. CASE s # W
        <5>1. f[s] = h(s)[s]
          BY <3>2, <4>5
        <5>2. Sums(v, s, h(s))
          BY <2>2, <4>5
        <5>3. h(s)[s] = v[x] + h(s)[t]
          BY <3>2, <5>2 DEF Sums
        <5>4. h(s)[t] = h(t)[t]
          <6>1. t \subseteq s /\ t \subseteq t
            BY <4>1
          <6> HIDE DEF t, h
          <6> QED BY <4>2, <5>2, <6>1, SumsAgree
        <5> HIDE DEF t, h, f
        <5> QED BY <3>2, <4>3, <5>1, <5>3, <5>4 DEF t
      <4> QED BY <4>4, <4>5
    <3> QED BY <3>1, <3>2
  <2>4. Sums(v, W, f)
    <3>1. f = [s \in SUBSET W |-> f[s]]
      OBVIOUS
    <3> HIDE DEF f
    <3> QED BY <2>3, <3>1 DEF Sums
  <2> HIDE DEF f
  <2> QED BY <2>1, <2>4
<1> QED BY <1>1

(* A sum without its picked member, and the sum of nothing. *)
LEMMA SumPeels ==
    ASSUME NEW v, NEW S, IsFiniteSet(S)
    PROVE  /\ S = {} => Sum(v, S) = 0
           /\ S # {} => Picked(S) \in S /\ Sum(v, S) = v[Picked(S)] + Sum(v, S \ {Picked(S)})
<1> DEFINE f == CHOOSE h : Sums(v, S, h)
           T == S \ {Picked(S)}
           g == CHOOSE h : Sums(v, T, h)
<1>1. Sums(v, S, f)
  BY SumsExist
<1>2. Sums(v, T, g) /\ IsFiniteSet(T)
  BY SumsExist, FS_Subset
<1>3. Sum(v, S) = f[S] /\ Sum(v, T) = g[T]
  BY DEF Sum
<1>4. f[T] = g[T]
  <2>1. T \subseteq S
    OBVIOUS
  <2> HIDE DEF f, g, T
  <2> QED BY <1>1, <1>2, <2>1, SumsAgree
<1> HIDE DEF f, g
<1>5. f[S] = IF S = {} THEN 0 ELSE v[Picked(S)] + f[T]
  BY <1>1 DEF Sums
<1>6. S # {} => Picked(S) \in S
  BY DEF Picked
<1> HIDE DEF T
<1> QED BY <1>3, <1>4, <1>5, <1>6 DEF T

LEMMA SumIsNat ==
    ASSUME NEW v, NEW S, IsFiniteSet(S), \A x \in S : v[x] \in Nat
    PROVE  Sum(v, S) \in Nat
<1> DEFINE F == {W \in SUBSET S : Sum(v, W) \notin Nat}
<1>1. ASSUME F # {} PROVE FALSE
  <2>1. PICK W \in F : \A X \in F : X \subseteq W => X = W
    <3>1. F \in SUBSET SUBSET S
      OBVIOUS
    <3> HIDE DEF F
    <3> QED BY <1>1, <3>1, SmallestSet
  <2>2. IsFiniteSet(W)
    BY FS_Subset
  <2>3. W # {}
    <3>1. Sum(v, W) \notin Nat
      BY <2>1
    <3>2. W = {} => Sum(v, W) = 0
      BY <2>2, SumPeels
    <3> QED BY <3>1, <3>2
  <2>4. Picked(W) \in W /\ Sum(v, W) = v[Picked(W)] + Sum(v, W \ {Picked(W)})
    BY <2>2, <2>3, SumPeels
  <2>5. Sum(v, W \ {Picked(W)}) \in Nat
    BY <2>1, <2>4
  <2> QED BY <2>4, <2>5
<1> QED BY <1>1

(* Any member may be taken out of a sum. *)
LEMMA SumWithout ==
    ASSUME NEW v, NEW S, IsFiniteSet(S), \A x \in S : v[x] \in Nat, NEW a \in S
    PROVE  Sum(v, S) = v[a] + Sum(v, S \ {a})
<1> DEFINE Wrong(W) == \E y \in W : Sum(v, W) # v[y] + Sum(v, W \ {y})
           F == {W \in SUBSET S : Wrong(W)}
<1>1. ASSUME F # {} PROVE FALSE
  <2>1. PICK W \in F : \A X \in F : X \subseteq W => X = W
    <3>1. F \in SUBSET SUBSET S
      OBVIOUS
    <3> HIDE DEF F
    <3> QED BY <1>1, <3>1, SmallestSet
  <2>2. PICK y \in W : Sum(v, W) # v[y] + Sum(v, W \ {y})
    BY <2>1
  <2> DEFINE x == Picked(W)
  <2>3. /\ IsFiniteSet(W) /\ x \in W
        /\ Sum(v, W) = v[x] + Sum(v, W \ {x})
    BY <2>2, FS_Subset, SumPeels
  <2>4. x # y
    BY <2>2, <2>3
  <2>5. W \ {x} \notin F /\ W \ {y} \notin F
    BY <2>1, <2>2, <2>3
  <2>6. /\ Sum(v, W \ {x}) = v[y] + Sum(v, (W \ {x}) \ {y})
        /\ Sum(v, W \ {y}) = v[x] + Sum(v, (W \ {y}) \ {x})
    BY <2>2, <2>3, <2>4, <2>5
  <2>7. (W \ {x}) \ {y} = (W \ {y}) \ {x}
    OBVIOUS
  <2>8. IsFiniteSet((W \ {x}) \ {y}) /\ (\A z \in (W \ {x}) \ {y} : v[z] \in Nat)
    BY <2>3, FS_Subset
  <2>9. Sum(v, (W \ {x}) \ {y}) \in Nat /\ v[x] \in Nat /\ v[y] \in Nat
    BY <2>2, <2>3, <2>8, SumIsNat
  <2> HIDE DEF x
  <2> QED BY <2>2, <2>3, <2>6, <2>7, <2>9
<1> QED BY <1>1

(* Sums are as large as their terms. *)
LEMMA SumCompares ==
    ASSUME NEW v, NEW w, NEW S, IsFiniteSet(S), \A x \in S : v[x] \in Nat /\ w[x] \in Nat /\ v[x] <= w[x]
    PROVE  Sum(v, S) <= Sum(w, S)
<1> DEFINE F == {W \in SUBSET S : ~(Sum(v, W) <= Sum(w, W))}
<1>1. ASSUME F # {} PROVE FALSE
  <2>1. PICK W \in F : \A X \in F : X \subseteq W => X = W
    <3>1. F \in SUBSET SUBSET S
      OBVIOUS
    <3> HIDE DEF F
    <3> QED BY <1>1, <3>1, SmallestSet
  <2>2. IsFiniteSet(W) /\ W \in SUBSET S /\ ~(Sum(v, W) <= Sum(w, W))
    BY <2>1, FS_Subset
  <2>3. W # {}
    <3>1. W = {} => Sum(v, W) = 0 /\ Sum(w, W) = 0
      BY <2>2, SumPeels
    <3> QED BY <2>2, <3>1
  <2> DEFINE x == Picked(W)
             T == W \ {x}
  <2>4. x \in W /\ Sum(v, W) = v[x] + Sum(v, T) /\ Sum(w, W) = w[x] + Sum(w, T)
    BY <2>2, <2>3, SumPeels
  <2>5. T \notin F /\ T \in SUBSET S /\ IsFiniteSet(T)
    BY <2>1, <2>2, <2>4, FS_Subset
  <2>6. Sum(v, T) <= Sum(w, T) /\ Sum(v, T) \in Nat /\ Sum(w, T) \in Nat
    BY <2>5, SumIsNat
  <2>7. v[x] \in Nat /\ w[x] \in Nat /\ v[x] <= w[x]
    BY <2>2, <2>4
  <2> HIDE DEF x, T
  <2> QED BY <2>2, <2>4, <2>6, <2>7
<1> QED BY <1>1

(* A sum does not depend on what its terms are terms of. *)
LEMMA SumReindexes ==
    ASSUME NEW v, NEW w, NEW S, IsFiniteSet(S), NEW T, NEW b \in Bijection(S, T),
           \A x \in S : v[x] \in Nat /\ v[x] = w[b[x]]
    PROVE  Sum(v, S) = Sum(w, T)
<1> DEFINE Image(W) == {b[x] : x \in W}
           F == {W \in SUBSET S : Sum(v, W) # Sum(w, Image(W))}
<1>1. ASSUME F # {} PROVE FALSE
  <2>1. PICK W \in F : \A X \in F : X \subseteq W => X = W
    <3>1. F \in SUBSET SUBSET S
      OBVIOUS
    <3> HIDE DEF F
    <3> QED BY <1>1, <3>1, SmallestSet
  <2>2. IsFiniteSet(W) /\ W \in SUBSET S /\ Sum(v, W) # Sum(w, Image(W))
    BY <2>1, FS_Subset
  <2>3. W # {}
    <3>1. Sum(v, {}) = 0 /\ Sum(w, {}) = 0
      BY FS_EmptySet, SumPeels
    <3>2. W = {} => Image(W) = {}
      OBVIOUS
    <3> HIDE DEF Image
    <3> QED BY <2>2, <3>1, <3>2
  <2> DEFINE x == Picked(W)
             U == W \ {x}
  <2>4. x \in W /\ Sum(v, W) = v[x] + Sum(v, U)
    BY <2>2, <2>3, SumPeels
  <2>5. U \notin F /\ U \in SUBSET S
    BY <2>1, <2>2, <2>4
  <2>6. Sum(v, U) = Sum(w, Image(U))
    BY <2>5
  <2>7. IsFiniteSet(Image(W)) /\ b[x] \in Image(W) /\ Image(U) = Image(W) \ {b[x]}
    <3>1. IsFiniteSet(Image(W))
      <4> DEFINE f == [y \in W |-> b[y]]
      <4>1. f \in Surjection(W, Image(W))
        BY DEF Surjection
      <4> HIDE DEF f, Image
      <4> QED BY <2>2, <4>1, FS_Surjection
    <3>2. \A y, z \in W : b[y] = b[z] => y = z
      BY <2>2 DEF Bijection, Injection, IsInjective
    <3> HIDE DEF x
    <3> QED BY <2>4, <3>1, <3>2
  <2>8. \A y \in Image(W) : w[y] \in Nat
    BY <2>2
  <2>9. Sum(w, Image(W)) = w[b[x]] + Sum(w, Image(U))
    <3> HIDE DEF Image, x, U
    <3> QED BY <2>7, <2>8, SumWithout
  <2>10. v[x] = w[b[x]]
    BY <2>2, <2>4
  <2> HIDE DEF Image, x, U
  <2> QED BY <2>2, <2>4, <2>6, <2>9, <2>10
<1>2. Sum(v, S) = Sum(w, Image(S))
  BY <1>1
<1>3. Image(S) = T
  BY DEF Bijection, Surjection
<1> QED BY <1>2, <1>3

(* What the compiler's sums are. *)
Gain(world) == [o \in world |-> Weight[o.importance] * HalfUnits[o.grade]]
Stake(world) == [o \in world |-> Weight[o.importance]]

LEMMA EarnedIsSum ==
    ASSUME NEW world
    PROVE  Earned(world) = Sum(Gain(world), world)
<1> DEFINE g == Gain(world)
           By(f) == [s \in SUBSET world |->
                       IF s = {} THEN 0
                       ELSE Weight[(CHOOSE x \in s : TRUE).importance] * HalfUnits[(CHOOSE x \in s : TRUE).grade]
                            + f[s \ {CHOOSE x \in s : TRUE}]]
           To(f) == [s \in SUBSET world |-> IF s = {} THEN 0 ELSE g[Picked(s)] + f[s \ {Picked(s)}]]
<1>1. \A s \in SUBSET world : s # {} =>
        g[Picked(s)] = Weight[(CHOOSE x \in s : TRUE).importance] * HalfUnits[(CHOOSE x \in s : TRUE).grade]
  BY DEF Picked, Gain
<1>2. \A f : By(f) = To(f)
  <2> HIDE DEF g
  <2> QED BY <1>1 DEF Picked
<1>3. Earned(world) = (CHOOSE f : f = By(f))[world]
  BY DEF Earned, MapThenSumSet, MapThenFoldSet
<1>4. Sum(g, world) = (CHOOSE f : f = To(f))[world]
  BY DEF Sum, Sums
<1>5. (CHOOSE f : f = By(f)) = (CHOOSE f : f = To(f))
  <2> HIDE DEF By, To
  <2> QED BY <1>2
<1> QED BY <1>3, <1>4, <1>5

LEMMA PossibleIsSum ==
    ASSUME NEW world
    PROVE  Possible(world) = 2 * Sum(Stake(world), world)
<1> DEFINE g == Stake(world)
           By(f) == [s \in SUBSET world |->
                       IF s = {} THEN 0
                       ELSE Weight[(CHOOSE x \in s : TRUE).importance]
                            + f[s \ {CHOOSE x \in s : TRUE}]]
           To(f) == [s \in SUBSET world |-> IF s = {} THEN 0 ELSE g[Picked(s)] + f[s \ {Picked(s)}]]
<1>1. \A s \in SUBSET world : s # {} =>
        g[Picked(s)] = Weight[(CHOOSE x \in s : TRUE).importance]
  BY DEF Picked, Stake
<1>2. \A f : By(f) = To(f)
  <2> HIDE DEF g
  <2> QED BY <1>1 DEF Picked
<1>3. Possible(world) = 2 * (CHOOSE f : f = By(f))[world]
  BY DEF Possible, MapThenSumSet, MapThenFoldSet
<1>4. Sum(g, world) = (CHOOSE f : f = To(f))[world]
  BY DEF Sum, Sums
<1>5. (CHOOSE f : f = By(f)) = (CHOOSE f : f = To(f))
  <2> HIDE DEF By, To
  <2> QED BY <1>2
<1> QED BY <1>3, <1>4, <1>5

(***************************************************************************)
(* Scores: the compiler adds up weights, the rubric counts items.          *)
(***************************************************************************)
(* A world of finitely many graded items. *)
WorldShape(world) ==
    /\ IsFiniteSet(world)
    /\ \A o \in world : o.importance \in Importances /\ o.grade \in Grades

LEMMA Units ==
    /\ Weight.critical = 3 /\ Weight.material = 2 /\ Weight.supporting = 1
    /\ Weight["critical"] = 3 /\ Weight["material"] = 2 /\ Weight["supporting"] = 1
    /\ HalfUnits["met"] = 2 /\ HalfUnits["partially_met"] = 1
    /\ HalfUnits["not_met"] = 0 /\ HalfUnits["uncertain"] = 0
    /\ \A i \in Importances : Weight[i] \in 1..3
    /\ \A g \in Grades : HalfUnits[g] \in 0..2
BY DEF Weight, HalfUnits, Importances, Grades

LEMMA GainsAreNat ==
    ASSUME NEW world, WorldShape(world)
    PROVE  \A o \in world :
             /\ Gain(world)[o] = Weight[o.importance] * HalfUnits[o.grade] /\ Gain(world)[o] \in Nat
             /\ Stake(world)[o] = Weight[o.importance] /\ Stake(world)[o] \in Nat
<1> SUFFICES ASSUME NEW o \in world
             PROVE  /\ Gain(world)[o] = Weight[o.importance] * HalfUnits[o.grade] /\ Gain(world)[o] \in Nat
                    /\ Stake(world)[o] = Weight[o.importance] /\ Stake(world)[o] \in Nat
  OBVIOUS
<1>1. /\ Gain(world)[o] = Weight[o.importance] * HalfUnits[o.grade]
      /\ Stake(world)[o] = Weight[o.importance]
  BY DEF Gain, Stake
<1>2. Weight[o.importance] \in {1, 2, 3} /\ HalfUnits[o.grade] \in {0, 1, 2}
  BY Units DEF WorldShape
<1>3. Weight[o.importance] * HalfUnits[o.grade] \in Nat
  BY <1>2
<1> QED BY <1>1, <1>2, <1>3

LEMMA SumsOfWorld ==
    ASSUME NEW world, WorldShape(world)
    PROVE  /\ Earned(world) = Sum(Gain(world), world) /\ Earned(world) \in Nat
           /\ Possible(world) = 2 * Sum(Stake(world), world) /\ Sum(Stake(world), world) \in Nat
           /\ Possible(world) \in Nat
BY EarnedIsSum, PossibleIsSum, GainsAreNat, SumIsNat DEF WorldShape

(* One item more or less counts as that item. *)
LEMMA CountWithout ==
    ASSUME NEW W, WorldShape(W), NEW x \in W, NEW i \in Importances
    PROVE  /\ HalfCredits(W, i) \in Nat /\ HalfCredits(W \ {x}, i) \in Nat
           /\ Count(W, i) \in Nat /\ Count(W \ {x}, i) \in Nat
           /\ HalfCredits(W, i) =
                HalfCredits(W \ {x}, i) + IF x.importance = i THEN HalfUnits[x.grade] ELSE 0
           /\ Count(W, i) = Count(W \ {x}, i) + IF x.importance = i THEN 1 ELSE 0
<1> DEFINE U == W \ {x}
           Met(S) == {o \in S : o.importance = i /\ o.grade = "met"}
           Part(S) == {o \in S : o.importance = i /\ o.grade = "partially_met"}
           All(S) == {o \in S : o.importance = i}
<1>1. Met(U) = Met(W) \ {x} /\ Part(U) = Part(W) \ {x} /\ All(U) = All(W) \ {x}
  OBVIOUS
<1>2. IsFiniteSet(Met(W)) /\ IsFiniteSet(Part(W)) /\ IsFiniteSet(All(W))
  <2>1. Met(W) \in SUBSET W /\ Part(W) \in SUBSET W /\ All(W) \in SUBSET W /\ IsFiniteSet(W)
    BY DEF WorldShape
  <2> HIDE DEF Met, Part, All
  <2> QED BY <2>1, FS_Subset
<1>3. /\ x \in Met(W) <=> x.importance = i /\ x.grade = "met"
      /\ x \in Part(W) <=> x.importance = i /\ x.grade = "partially_met"
      /\ x \in All(W) <=> x.importance = i
      /\ x.grade \in Grades
  BY DEF WorldShape
<1>4. /\ HalfCredits(W, i) = 2 * Cardinality(Met(W)) + Cardinality(Part(W))
      /\ HalfCredits(U, i) = 2 * Cardinality(Met(U)) + Cardinality(Part(U))
      /\ Count(W, i) = Cardinality(All(W)) /\ Count(U, i) = Cardinality(All(U))
  BY DEF HalfCredits, Count
<1> HIDE DEF Met, Part, All, U
<1>5. /\ Cardinality(Met(W)) \in Nat /\ Cardinality(Part(W)) \in Nat /\ Cardinality(All(W)) \in Nat
      /\ Cardinality(Met(U)) \in Nat /\ Cardinality(Part(U)) \in Nat /\ Cardinality(All(U)) \in Nat
      /\ Cardinality(Met(U)) = IF x \in Met(W) THEN Cardinality(Met(W)) - 1 ELSE Cardinality(Met(W))
      /\ Cardinality(Part(U)) = IF x \in Part(W) THEN Cardinality(Part(W)) - 1 ELSE Cardinality(Part(W))
      /\ Cardinality(All(U)) = IF x \in All(W) THEN Cardinality(All(W)) - 1 ELSE Cardinality(All(W))
  BY <1>1, <1>2, FS_RemoveElement, FS_CardinalityType
<1>6. HalfCredits(W, i) = HalfCredits(U, i) + IF x.importance = i THEN HalfUnits[x.grade] ELSE 0
  BY <1>3, <1>4, <1>5, Units DEF Grades
<1>7. Count(W, i) = Count(U, i) + IF x.importance = i THEN 1 ELSE 0
  BY <1>3, <1>4, <1>5
<1> QED BY <1>4, <1>5, <1>6, <1>7 DEF U

LEMMA CountNothing ==
    \A i : HalfCredits({}, i) = 0 /\ Count({}, i) = 0
<1> SUFFICES ASSUME NEW i PROVE HalfCredits({}, i) = 0 /\ Count({}, i) = 0
  OBVIOUS
<1>1. /\ {o \in {} : o.importance = i /\ o.grade = "met"} = {}
      /\ {o \in {} : o.importance = i /\ o.grade = "partially_met"} = {}
      /\ {o \in {} : o.importance = i} = {}
  OBVIOUS
<1> QED BY <1>1, FS_EmptySet DEF HalfCredits, Count

(* Any part of a world adds up to what it counts. *)
LEMMA SumsCount ==
    ASSUME NEW world, WorldShape(world), NEW S \in SUBSET world
    PROVE  /\ Sum(Gain(world), S) = HalfCredited(S)
           /\ Sum(Stake(world), S) = Total(S)
<1> DEFINE v == Gain(world)
           t == Stake(world)
           Wrong(W) == Sum(v, W) # HalfCredited(W) \/ Sum(t, W) # Total(W)
           F == {W \in SUBSET world : Wrong(W)}
<1>1. ASSUME F # {} PROVE FALSE
  <2>1. PICK W \in F : \A X \in F : X \subseteq W => X = W
    <3>1. F \in SUBSET SUBSET world /\ IsFiniteSet(world)
      BY DEF WorldShape
    <3> HIDE DEF F
    <3> QED BY <1>1, <3>1, SmallestSet
  <2>2. W \in SUBSET world /\ Wrong(W)
    BY <2>1
  <2>3. WorldShape(W)
    BY <2>2, FS_Subset DEF WorldShape
  <2>4. W # {}
    <3>1. W = {} => Sum(v, W) = 0 /\ Sum(t, W) = 0
      BY <2>3, SumPeels DEF WorldShape
    <3>2. W = {} => HalfCredited(W) = 0 /\ Total(W) = 0
      BY CountNothing, Units DEF HalfCredited, Total
    <3> QED BY <2>2, <3>1, <3>2
  <2> DEFINE x == Picked(W)
             U == W \ {x}
  <2>5. x \in W /\ Sum(v, W) = v[x] + Sum(v, U) /\ Sum(t, W) = t[x] + Sum(t, U)
    BY <2>3, <2>4, SumPeels DEF WorldShape
  <2>6. Sum(v, U) = HalfCredited(U) /\ Sum(t, U) = Total(U)
    BY <2>1, <2>2, <2>5
  <2>7. x.importance \in Importances /\ x.grade \in Grades /\ HalfUnits[x.grade] \in 0..2
    BY <2>3, <2>5, Units DEF WorldShape
  <2>8. /\ v[x] = Weight[x.importance] * HalfUnits[x.grade]
        /\ t[x] = Weight[x.importance]
    BY <2>2, <2>5, GainsAreNat
  <2>9. \A i \in Importances :
            /\ HalfCredits(U, i) \in Nat /\ Count(U, i) \in Nat
            /\ HalfCredits(W, i) = HalfCredits(U, i) + IF x.importance = i THEN HalfUnits[x.grade] ELSE 0
            /\ Count(W, i) = Count(U, i) + IF x.importance = i THEN 1 ELSE 0
    BY <2>3, <2>5, CountWithout
  <2> HIDE DEF x, U, v, t
  <2>10. HalfCredited(W) = HalfCredited(U) + Weight[x.importance] * HalfUnits[x.grade]
    <3> DEFINE h == HalfUnits[x.grade]
    <3>1. h \in {0, 1, 2}
      BY <2>7
    <3>2. CASE x.importance = "critical"
      BY <2>9, <3>1, <3>2, Units DEF HalfCredited, Importances
    <3>3. CASE x.importance = "material"
      BY <2>9, <3>1, <3>3, Units DEF HalfCredited, Importances
    <3>4. CASE x.importance = "supporting"
      BY <2>9, <3>1, <3>4, Units DEF HalfCredited, Importances
    <3> QED BY <2>7, <3>2, <3>3, <3>4 DEF Importances
  <2>11. Total(W) = Total(U) + Weight[x.importance]
    <3>1. CASE x.importance = "critical"
      BY <2>9, <3>1, Units DEF Total, Importances
    <3>2. CASE x.importance = "material"
      BY <2>9, <3>2, Units DEF Total, Importances
    <3>3. CASE x.importance = "supporting"
      BY <2>9, <3>3, Units DEF Total, Importances
    <3> QED BY <2>7, <3>1, <3>2, <3>3 DEF Importances
  <2>12. HalfCredited(U) \in Nat /\ Total(U) \in Nat
    BY <2>9, Units DEF HalfCredited, Total, Importances
  <2>13. Weight[x.importance] \in {1, 2, 3} /\ HalfUnits[x.grade] \in {0, 1, 2}
    BY <2>7, Units
  <2>14. Weight[x.importance] * HalfUnits[x.grade] \in Nat
    BY <2>13
  <2> QED BY <2>2, <2>5, <2>6, <2>8, <2>10, <2>11, <2>12, <2>13, <2>14
<1> QED BY <1>1

(* The compiler and the rubric score a world alike. *)
LEMMA CriticalSums ==
    ASSUME NEW world, WorldShape(world)
    PROVE  /\ WorldShape(CriticalItems(world))
           /\ Earned(CriticalItems(world)) = 3 * HalfCredits(world, "critical")
           /\ Possible(CriticalItems(world)) = 6 * Count(world, "critical")
           /\ HalfCredits(world, "critical") \in Nat /\ Count(world, "critical") \in Nat
           /\ HalfCredits(world, "critical") <= 2 * Count(world, "critical")
<1> DEFINE C == CriticalItems(world)
           Met == {o \in world : o.importance = "critical" /\ o.grade = "met"}
           Part == {o \in world : o.importance = "critical" /\ o.grade = "partially_met"}
<1>1. C \in SUBSET world /\ IsFiniteSet(world)
  BY DEF CriticalItems, WorldShape
<1>2. WorldShape(C)
  BY <1>1, FS_Subset DEF WorldShape
<1>3. Earned(C) = HalfCredited(C) /\ Possible(C) = 2 * Total(C)
  <2> HIDE DEF C
  <2> QED BY <1>2, SumsOfWorld, SumsCount
<1>4. /\ HalfCredits(C, "critical") = HalfCredits(world, "critical")
      /\ Count(C, "critical") = Count(world, "critical")
  <2>1. /\ {o \in C : o.importance = "critical" /\ o.grade = "met"} = Met
        /\ {o \in C : o.importance = "critical" /\ o.grade = "partially_met"} = Part
        /\ {o \in C : o.importance = "critical"} = {o \in world : o.importance = "critical"}
    BY DEF CriticalItems
  <2> HIDE DEF C
  <2> QED BY <2>1 DEF HalfCredits, Count
<1>5. /\ HalfCredits(C, "material") = 0 /\ Count(C, "material") = 0
      /\ HalfCredits(C, "supporting") = 0 /\ Count(C, "supporting") = 0
  <2>1. /\ {o \in C : o.importance = "material" /\ o.grade = "met"} = {}
        /\ {o \in C : o.importance = "material" /\ o.grade = "partially_met"} = {}
        /\ {o \in C : o.importance = "material"} = {}
        /\ {o \in C : o.importance = "supporting" /\ o.grade = "met"} = {}
        /\ {o \in C : o.importance = "supporting" /\ o.grade = "partially_met"} = {}
        /\ {o \in C : o.importance = "supporting"} = {}
    BY DEF CriticalItems
  <2>2. Cardinality({}) = 0
    BY FS_EmptySet
  <2> HIDE DEF C
  <2>3. HalfCredits(C, "material") = 0
    <3>1. /\ Cardinality({o \in C : o.importance = "material" /\ o.grade = "met"}) = 0
          /\ Cardinality({o \in C : o.importance = "material" /\ o.grade = "partially_met"}) = 0
      BY <2>1, <2>2
    <3>2. HalfCredits(C, "material") = 2 * 0 + 0
      BY <3>1 DEF HalfCredits
    <3> QED BY <3>2
  <2>4. HalfCredits(C, "supporting") = 0
    <3>1. /\ Cardinality({o \in C : o.importance = "supporting" /\ o.grade = "met"}) = 0
          /\ Cardinality({o \in C : o.importance = "supporting" /\ o.grade = "partially_met"}) = 0
      BY <2>1, <2>2
    <3>2. HalfCredits(C, "supporting") = 2 * 0 + 0
      BY <3>1 DEF HalfCredits
    <3> QED BY <3>2
  <2>5. Count(C, "material") = 0 /\ Count(C, "supporting") = 0
    BY <2>1, <2>2 DEF Count
  <2> QED BY <2>3, <2>4, <2>5
<1>6. /\ Cardinality(Met) \in Nat /\ Cardinality(Part) \in Nat /\ Cardinality(C) \in Nat
      /\ Cardinality(Met) + Cardinality(Part) <= Cardinality(C)
  <2>1. Met \in SUBSET C /\ Part \in SUBSET C /\ Met \cap Part = {} /\ Met \cup Part \in SUBSET C
    BY DEF CriticalItems
  <2> HIDE DEF Met, Part, C
  <2>2. IsFiniteSet(C) /\ IsFiniteSet(Met) /\ IsFiniteSet(Part)
    BY <1>1, <2>1, FS_Subset
  <2>3. /\ Cardinality(Met) \in Nat /\ Cardinality(Part) \in Nat /\ Cardinality(C) \in Nat
    BY <2>2, FS_CardinalityType
  <2>4. Cardinality(Met \cup Part) = Cardinality(Met) + Cardinality(Part)
    <3>1. Cardinality(Met \cap Part) = 0
      BY <2>1, FS_EmptySet
    <3>2. Cardinality(Met \cup Part) = Cardinality(Met) + Cardinality(Part) - Cardinality(Met \cap Part)
      BY <2>2, FS_Union
    <3> QED BY <2>3, <3>1, <3>2
  <2> QED BY <2>1, <2>2, <2>3, <2>4, FS_Subset
<1>7. /\ HalfCredits(world, "critical") = 2 * Cardinality(Met) + Cardinality(Part)
      /\ Count(world, "critical") = Cardinality(C)
  BY DEF HalfCredits, Count, CriticalItems
<1> HIDE DEF C, Met, Part
<1>8. HalfCredited(C) = 3 * HalfCredits(world, "critical") /\ Total(C) = 3 * Count(world, "critical")
  <2>1. HalfCredits(world, "critical") \in Nat /\ Count(world, "critical") \in Nat
    BY <1>6, <1>7
  <2> QED BY <1>4, <1>5, <2>1, Units DEF HalfCredited, Total
<1>9. /\ HalfCredits(world, "critical") \in Nat /\ Count(world, "critical") \in Nat
      /\ HalfCredits(world, "critical") <= 2 * Count(world, "critical")
  BY <1>6, <1>7
<1> QED BY <1>2, <1>3, <1>8, <1>9 DEF C

LEMMA ScoresAgree ==
    ASSUME NEW world, WorldShape(world)
    PROVE  LockedScore(world) = Score(world)
<1>1. /\ Earned(world) = HalfCredited(world) /\ Possible(world) = 2 * Total(world)
      /\ Earned(world) \in Nat /\ Total(world) \in Nat
  BY SumsOfWorld, SumsCount
<1>2. (10 * Earned(world) >= 9 * Possible(world)) <=> ~(10 * HalfCredited(world) < 9 * 2 * Total(world))
  BY <1>1
<1>3. (~CoversTenths(world, 9)) <=> CoverageBelowFloor(world)
  BY <1>2 DEF CoversTenths, CoverageBelowFloor
<1>4. Earned(CriticalItems(world)) # Possible(CriticalItems(world)) <=> CriticalBelowFloor(world)
  BY CriticalSums DEF CriticalBelowFloor
<1>5. /\ OnlyIf("CRITICAL_RECALL_BELOW_FLOOR", Earned(CriticalItems(world)) # Possible(CriticalItems(world)))
           = OnlyIf("CRITICAL_RECALL_BELOW_FLOOR", CriticalBelowFloor(world))
      /\ OnlyIf("WEIGHTED_COVERAGE_BELOW_FLOOR", ~CoversTenths(world, 9))
           = OnlyIf("WEIGHTED_COVERAGE_BELOW_FLOOR", CoverageBelowFloor(world))
  BY <1>3, <1>4 DEF OnlyIf
<1> QED BY <1>5 DEF LockedScore, Score, Inconclusive

(***************************************************************************)
(* Tuples without repetitions, written as their orders.                    *)
(***************************************************************************)
Reflexive(tuple) == \A pair \in tuple : <<pair[1], pair[1]>> \in tuple

LEMMA OnlyOne ==
    ASSUME NEW x
    PROVE  Members(Only(x)) = {x} /\ Reflexive(Only(x)) /\ Members({}) = {} /\ Reflexive({})
  BY DEF Members, Only, Reflexive

(* One tuple after another names what either names. *)
LEMMA ThenBoth ==
    ASSUME NEW s, NEW t, Reflexive(s), Reflexive(t)
    PROVE  Members(Then(s, t)) = Members(s) \cup Members(t) /\ Reflexive(Then(s, t))
<1> DEFINE added == Members(t) \ Members(s)
           late == {pair \in t : pair[1] \in added /\ pair[2] \in added}
           cross == Members(s) \X added
<1>1. Then(s, t) = s \cup cross \cup late
  BY DEF Then
<1>2. \A x \in Members(s) : <<x, x>> \in s
  BY DEF Members, Reflexive
<1>3. \A x \in added : <<x, x>> \in late
  BY DEF Members, Reflexive
<1>4. /\ \A pair \in s : pair[1] \in Members(s)
      /\ \A pair \in cross : pair[1] \in Members(s)
      /\ \A pair \in late : pair[1] \in added
  BY DEF Members
<1>5. \A pair \in Then(s, t) : pair[1] \in Members(s) \cup added
  BY <1>1, <1>4
<1>6. \A x \in Members(s) \cup added : <<x, x>> \in Then(s, t)
  BY <1>1, <1>2, <1>3
<1> HIDE DEF added
<1>7. Members(Then(s, t)) = Members(s) \cup added
  <2>1. ASSUME NEW x \in Members(s) \cup added PROVE x \in Members(Then(s, t))
    <3>1. <<x, x>> \in Then(s, t) /\ <<x, x>>[1] = x
      BY <1>6
    <3> QED BY <3>1 DEF Members
  <2>2. ASSUME NEW x \in Members(Then(s, t)) PROVE x \in Members(s) \cup added
    BY <1>5 DEF Members
  <2> QED BY <2>1, <2>2
<1>8. Reflexive(Then(s, t))
  BY <1>5, <1>6 DEF Reflexive
<1>9. Members(s) \cup added = Members(s) \cup Members(t)
  BY DEF added
<1> QED BY <1>7, <1>8, <1>9

LEMMA SortedNumbers ==
    ASSUME NEW numbers, numbers \subseteq Nat
    PROVE  Members(Sorted(numbers)) = numbers /\ Reflexive(Sorted(numbers))
<1>1. \A n \in numbers : <<n, n>> \in Sorted(numbers)
  BY DEF Sorted
<1>2. \A pair \in Sorted(numbers) : pair[1] \in numbers
  BY DEF Sorted
<1>3. \A n : <<n, n>>[1] = n
  OBVIOUS
<1> QED BY <1>1, <1>2, <1>3 DEF Members, Reflexive

(* What a score may be. *)
LEMMA ScoreIs ==
    ASSUME NEW world
    PROVE  /\ Score(world).disposition \in {"PASS", "FAIL", "INCONCLUSIVE"}
           /\ Reflexive(Score(world).reasons)
           /\ "OUTCOME_SENSITIVE_BASELINE_DISPUTE" \notin Members(Score(world).reasons)
           /\ Score(world).disposition = "INCONCLUSIVE" <=> \E o \in world : o.grade = "uncertain"
           /\ Score(world).disposition = "PASS" <=>
                /\ \A o \in world : o.grade # "uncertain"
                /\ ~CriticalBelowFloor(world) /\ ~CoverageBelowFloor(world)
<1> DEFINE critical == OnlyIf("CRITICAL_RECALL_BELOW_FLOOR", CriticalBelowFloor(world))
           coverage == OnlyIf("WEIGHTED_COVERAGE_BELOW_FLOOR", CoverageBelowFloor(world))
           reasons == Then(critical, coverage)
<1>1. /\ critical = {} <=> ~CriticalBelowFloor(world)
      /\ coverage = {} <=> ~CoverageBelowFloor(world)
  BY DEF OnlyIf, Only
<1>2. /\ Reflexive(critical) /\ Members(critical) \subseteq {"CRITICAL_RECALL_BELOW_FLOOR"}
      /\ Reflexive(coverage) /\ Members(coverage) \subseteq {"WEIGHTED_COVERAGE_BELOW_FLOOR"}
  BY OnlyOne DEF OnlyIf
<1> HIDE DEF critical, coverage
<1>3. Reflexive(reasons) /\ Members(reasons) = Members(critical) \cup Members(coverage)
  BY <1>2, ThenBoth
<1> HIDE DEF reasons
<1>4. \A t : t = {} <=> Members(t) = {}
  BY DEF Members
<1>5. reasons = {} <=> ~CriticalBelowFloor(world) /\ ~CoverageBelowFloor(world)
  BY <1>1, <1>3, <1>4
<1>6. CASE \E o \in world : o.grade = "uncertain"
  BY <1>6, OnlyOne DEF Score
<1>7. CASE ~\E o \in world : o.grade = "uncertain"
  <2>1. Score(world) = [disposition |-> IF reasons = {} THEN "PASS" ELSE "FAIL", reasons |-> reasons]
    BY <1>7 DEF Score, reasons, critical, coverage
  <2> QED BY <1>2, <1>3, <1>5, <1>7, <2>1
<1> QED BY <1>6, <1>7

(* The two implementations merge two outcomes alike. *)
LEMMA MergesAlike ==
    ASSUME NEW a, NEW b
    PROVE  MergeOutcomes(a, b) = Merge(a, b)
  BY DEF MergeOutcomes, Merge, Inconclusive

(***************************************************************************)
(* Packages, lanes and the worlds they make.                               *)
(***************************************************************************)
LaneShape(p, lane) ==
    /\ lane.ordinary \in [DOMAIN p.common -> Grades]
    /\ lane.contested \in [DOMAIN p.contested -> [Alternatives -> Grades]]

LEMMA OrdinaryShape ==
    ASSUME NEW p, PackageShape(p), NEW lane, LaneShape(p, lane)
    PROVE  WorldShape(OrdinaryWorld(p.common, lane))
<1> DEFINE W == OrdinaryWorld(p.common, lane)
           ob(r) == Observed(<<"requirement", r>>, p.common[r], lane.ordinary[r])
           f == [r \in DOMAIN p.common |-> ob(r)]
<1>1. W = {ob(r) : r \in DOMAIN p.common}
  BY DEF OrdinaryWorld
<1>2. f \in Surjection(DOMAIN p.common, W)
  BY <1>1 DEF Surjection
<1>3. \A r \in DOMAIN p.common : ob(r).importance \in Importances /\ ob(r).grade \in Grades
  BY DEF PackageShape, LaneShape, Observed
<1>4. IsFiniteSet(W)
  <2> HIDE DEF f, W
  <2> QED BY <1>2, FS_Surjection DEF PackageShape
<1> QED BY <1>1, <1>3, <1>4 DEF WorldShape

LEMMA WorldIsShaped ==
    ASSUME NEW p, PackageShape(p), NEW lane, LaneShape(p, lane),
           NEW choice \in [DOMAIN p.contested -> Alternatives]
    PROVE  WorldShape(World(p.common, p.contested, lane, choice))
<1> DEFINE I == {d \in DOMAIN p.contested : p.contested[d][choice[d]] # "none"}
           ob(c) == Observed(<<"contested", c>>, p.contested[c][choice[c]], lane.contested[c][choice[c]])
           C == {ob(c) : c \in I}
           f == [c \in I |-> ob(c)]
<1>1. World(p.common, p.contested, lane, choice) = OrdinaryWorld(p.common, lane) \cup C
  BY DEF World
<1>2. f \in Surjection(I, C)
  BY DEF Surjection
<1>3. \A c \in I : ob(c).importance \in Importances /\ ob(c).grade \in Grades
  BY DEF PackageShape, LaneShape, Observed
<1>4. IsFiniteSet(C)
  <2>1. I \in SUBSET DOMAIN p.contested
    OBVIOUS
  <2> HIDE DEF f, I, C
  <2> QED BY <1>2, <2>1, FS_Surjection, FS_Subset DEF PackageShape
<1>5. WorldShape(C)
  BY <1>3, <1>4 DEF WorldShape
<1> HIDE DEF C
<1> QED BY <1>1, <1>5, OrdinaryShape, FS_Union DEF WorldShape

LEMMA AlwaysChooses ==
    ASSUME NEW p, NEW side \in Alternatives
    PROVE  Always(p.contested, side) \in [DOMAIN p.contested -> Alternatives]
BY DEF Always

(* One lane's outcome in the two worlds. *)
LEMMA LanesSettleAlike ==
    ASSUME NEW p, PackageShape(p), NEW lane, LaneShape(p, lane)
    PROVE  ContestedLaneOutcome(p, lane) =
             Recorded(LaneOutcome(p.common, p.contested, lane), Determinative(p.common, p.contested, lane))
<1> DEFINE R == Score(World(p.common, p.contested, lane, Always(p.contested, "reviewer")))
           A == Score(World(p.common, p.contested, lane, Always(p.contested, "auditor")))
           disputed == {c \in DOMAIN p.contested : Differs(p.contested, lane, c)}
           L == LaneOutcome(p.common, p.contested, lane)
           sensitive == "OUTCOME_SENSITIVE_BASELINE_DISPUTE"
<1>1. ContestedLaneOutcome(p, lane) = Settle(R, A, Sorted(disputed))
  <2>1. WorldScore(p, lane, "reviewer") = R /\ WorldScore(p, lane, "auditor") = A
    BY AlwaysChooses, WorldIsShaped, ScoresAgree DEF Alternatives, WorldScore
  <2> QED BY <2>1 DEF ContestedLaneOutcome
<1>2. /\ R.disposition \in {"PASS", "FAIL", "INCONCLUSIVE"} /\ A.disposition \in {"PASS", "FAIL", "INCONCLUSIVE"}
      /\ Reflexive(R.reasons) /\ Reflexive(A.reasons)
      /\ sensitive \notin Members(R.reasons) /\ sensitive \notin Members(A.reasons)
  BY ScoreIs
<1>3. L = IF "INCONCLUSIVE" \in {R.disposition, A.disposition}
          THEN Inconclusive("BASELINE_EVIDENCE_INSUFFICIENT")
          ELSE IF R.disposition # A.disposition THEN Inconclusive(sensitive)
          ELSE Merge(R, A)
  BY DEF LaneOutcome, Inconclusive
<1>4. /\ sensitive \in Members(L.reasons) => Determinative(p.common, p.contested, lane) = Sorted(disputed)
      /\ sensitive \notin Members(L.reasons) => Determinative(p.common, p.contested, lane) = {}
  BY DEF Determinative, DecidedByDispute, Sorted
<1> HIDE DEF R, A, L, disputed
<1>5. CASE "INCONCLUSIVE" \in {R.disposition, A.disposition}
  <2>1. Settle(R, A, Sorted(disputed)) = Recorded(Inconclusive("BASELINE_EVIDENCE_INSUFFICIENT"), {})
    <3>1. ~({R.disposition, A.disposition} = {"PASS", "FAIL"})
      BY <1>5
    <3> QED BY <1>5, <3>1 DEF Settle
  <2>2. L = Inconclusive("BASELINE_EVIDENCE_INSUFFICIENT")
    BY <1>3, <1>5
  <2>3. sensitive \notin Members(L.reasons)
    BY <2>2, OnlyOne DEF Inconclusive
  <2> QED BY <1>1, <1>4, <2>1, <2>2, <2>3 DEF L
<1>6. CASE "INCONCLUSIVE" \notin {R.disposition, A.disposition} /\ R.disposition # A.disposition
  <2>1. Settle(R, A, Sorted(disputed)) = Recorded(Inconclusive(sensitive), Sorted(disputed))
    <3>1. {R.disposition, A.disposition} = {"PASS", "FAIL"}
      BY <1>2, <1>6
    <3> QED BY <1>6, <3>1 DEF Settle
  <2>2. L = Inconclusive(sensitive)
    BY <1>3, <1>6
  <2>3. sensitive \in Members(L.reasons)
    BY <2>2, OnlyOne DEF Inconclusive
  <2> QED BY <1>1, <1>4, <2>1, <2>2, <2>3 DEF L
<1>7. CASE "INCONCLUSIVE" \notin {R.disposition, A.disposition} /\ R.disposition = A.disposition
  <2>1. Settle(R, A, Sorted(disputed)) = Recorded(MergeOutcomes(R, A), {})
    <3>1. ~({R.disposition, A.disposition} = {"PASS", "FAIL"})
      BY <1>7
    <3> QED BY <1>7, <3>1 DEF Settle
  <2>2. L = Merge(R, A)
    BY <1>3, <1>7
  <2>3. sensitive \notin Members(L.reasons)
    <3>1. L.reasons = Then(R.reasons, A.reasons)
      BY <1>7, <2>2 DEF Merge
    <3> QED BY <1>2, <3>1, ThenBoth
  <2> QED BY <1>1, <1>4, <2>1, <2>2, <2>3, MergesAlike DEF L
<1> QED BY <1>5, <1>6, <1>7

(* The strict-equivalent outcome is the retained scoring's. *)
LEMMA StrictIsSensitivity ==
    ASSUME NEW p, PackageShape(p), NEW a, LaneShape(p, a), NEW b, LaneShape(p, b)
    PROVE  StrictEquivalent(p, a, b) = Sensitivity(p.common, p.contested, a, b)
<1> DEFINE LA == LaneOutcome(p.common, p.contested, a)
           LB == LaneOutcome(p.common, p.contested, b)
           DA == Determinative(p.common, p.contested, a)
           DB == Determinative(p.common, p.contested, b)
<1>1. MergeOutcomes(LockedScore(OrdinaryWorld(p.common, a)), LockedScore(OrdinaryWorld(p.common, b)))
        = Reconcile(p.common, a, b)
  BY OrdinaryShape, ScoresAgree, MergesAlike DEF Reconcile
<1>2. StrictBothWorlds(p, a, b) = Recorded(Merge(LA, LB), Then(DA, DB))
  <2> DEFINE CA == Recorded(LA, DA)
             CB == Recorded(LB, DB)
  <2>1. ContestedLaneOutcome(p, a) = CA /\ ContestedLaneOutcome(p, b) = CB
    BY LanesSettleAlike
  <2>2. /\ CA.disposition = LA.disposition /\ CA.reasons = LA.reasons /\ CA.determinative = DA
        /\ CB.disposition = LB.disposition /\ CB.reasons = LB.reasons /\ CB.determinative = DB
    BY DEF Recorded
  <2>3. StrictBothWorlds(p, a, b) = Recorded(MergeOutcomes(CA, CB), Then(CA.determinative, CB.determinative))
    BY <2>1 DEF StrictBothWorlds
  <2> HIDE DEF CA, CB, LA, LB, DA, DB
  <2>4. Merge(CA, CB) = Merge(LA, LB)
    BY <2>2 DEF Merge
  <2> QED BY <2>2, <2>3, <2>4, MergesAlike
<1> QED BY <1>1, <1>2 DEF StrictEquivalent, Sensitivity

(***************************************************************************)
(* A run.                                                                  *)
(***************************************************************************)
SafetyLanesNow == SafetyLanes(case, Candidates(case.package, grades[1], grades[2]))

(* Grading comes before safety, and every accepted lane is one that the
   compiler accepts. *)
LanesInv ==
    /\ case \in Cases
    /\ grades \in Seq(GradingLanes(case)) /\ Len(grades) <= 2
    /\ safety \in Seq(SafetyLanesNow) /\ Len(safety) <= 2
    /\ safety # <<>> => Len(grades) = 2

(* Disputes are decided once both safety lanes are there, and the result is
   the delivery of all that was accepted. *)
DecisionsInv ==
    /\ Len(safety) < 2 => decisions = NoDecisions /\ result = Pending
    /\ Len(safety) = 2 =>
         /\ DOMAIN decisions \subseteq Disputes(safety[1], safety[2])
         /\ \A id \in DOMAIN decisions : decisions[id] \in Verdicts
         /\ IF Complete(safety, decisions)
            THEN result = Delivery(case.package, grades, safety, decisions)
            ELSE result = Pending

(* A refused answer would have completed the review. *)
RefusedInv ==
    refused # Accepted =>
        /\ Len(grades) = 2
        /\ refused.safety \in Seq(SafetyLanesNow)
        /\ Complete(refused.safety, refused.decisions)
        /\ ~TerminalProductsBuild(refused.safety, refused.decisions)

ReviewInv == LanesInv /\ DecisionsInv /\ RefusedInv

LEMMA ReviewBegins == Init => ReviewInv
<1> SUFFICES ASSUME Init PROVE ReviewInv
  OBVIOUS
<1> QED BY DEF Init, ReviewInv, LanesInv, DecisionsInv, RefusedInv

LEMMA DeliveryIsFinal ==
    \A p, g, s, d : Delivery(p, g, s, d) # Pending /\ Delivery(p, g, s, d).tier \in Tiers
<1> SUFFICES ASSUME NEW p, NEW g, NEW s, NEW d
             PROVE  Delivery(p, g, s, d) # Pending /\ Delivery(p, g, s, d).tier \in Tiers
  OBVIOUS
<1>1. Delivery(p, g, s, d).tier \in {"NOT_DELIVERABLE", "HIGH_ASSURANCE", "REVIEW_READY_WITH_GAPS"}
  BY DEF Delivery
<1>2. Pending.tier = "PENDING"
  BY DEF Pending
<1> QED BY <1>1, <1>2 DEF Tiers, Deliverable

LEMMA GradeLaneStep == ReviewInv /\ GradeLane => ReviewInv'
<1> SUFFICES ASSUME ReviewInv, GradeLane PROVE ReviewInv'
  OBVIOUS
<1>1. Len(grades) # 2 /\ safety = <<>> /\ refused = Accepted /\ Len(grades) < 2
  BY DEF ReviewInv, LanesInv, RefusedInv, GradeLane
<1>2. grades' \in Seq(GradingLanes(case)) /\ Len(grades') <= 2
  <2>1. PICK g \in GradingLanes(case) : grades' = Append(grades, g)
    BY DEF GradeLane
  <2>2. grades \in Seq(GradingLanes(case))
    BY DEF ReviewInv, LanesInv
  <2> HIDE DEF ReviewInv
  <2> QED BY <1>1, <2>1, <2>2
<1>3. UNCHANGED <<case, safety, decisions, result, refused>>
  BY DEF GradeLane
<1>4. LanesInv'
  BY <1>1, <1>2, <1>3 DEF ReviewInv, LanesInv
<1>5. DecisionsInv' /\ RefusedInv'
  BY <1>1, <1>3 DEF ReviewInv, DecisionsInv, RefusedInv
<1> QED BY <1>4, <1>5 DEF ReviewInv

(* What a submission leaves when the lanes and decisions it makes fit. *)
LEMMA SubmitKeeps ==
    ASSUME ReviewInv, NEW s \in Seq(SafetyLanesNow), NEW d, Submit(s, d), result = Pending,
           Len(grades) = 2, Len(s) <= 2,
           Len(s) < 2 => d = NoDecisions,
           Len(s) = 2 => /\ DOMAIN d \subseteq Disputes(s[1], s[2])
                         /\ \A id \in DOMAIN d : d[id] \in Verdicts
    PROVE  ReviewInv'
<1>1. case' = case /\ grades' = grades
  BY DEF Submit
<1>2. /\ GradingLanes(case)' = GradingLanes(case) /\ SafetyLanesNow' = SafetyLanesNow
      /\ case' \in Cases /\ grades' \in Seq(GradingLanes(case')) /\ Len(grades') = 2
      /\ safety \in Seq(SafetyLanesNow') /\ Len(safety) <= 2
  BY <1>1 DEF ReviewInv, LanesInv, SafetyLanesNow
<1>3. CASE Complete(s, d) /\ ~TerminalProductsBuild(s, d)
  <2>1. /\ refused' = [safety |-> s, decisions |-> d]
        /\ UNCHANGED <<safety, decisions, result>>
    BY <1>3 DEF Submit
  <2>2. refused'.safety = s /\ refused'.decisions = d
    BY <2>1
  <2>3. TerminalProductsBuild(s, d)' = TerminalProductsBuild(s, d)
    BY <1>1 DEF TerminalProductsBuild
  <2>4. RefusedInv'
    BY <1>2, <1>3, <2>2, <2>3 DEF RefusedInv, TerminalProductsBuild
  <2>5. LanesInv'
    BY <1>2, <2>1 DEF LanesInv
  <2>6. DecisionsInv'
    BY <1>1, <2>1 DEF ReviewInv, DecisionsInv
  <2> QED BY <2>4, <2>5, <2>6 DEF ReviewInv
<1>4. CASE ~(Complete(s, d) /\ ~TerminalProductsBuild(s, d))
  <2>1. /\ safety' = s /\ decisions' = d /\ refused' = Accepted
        /\ result' = IF Complete(s, d) THEN Delivery(case.package, grades, s, d) ELSE result
    BY <1>4 DEF Submit
  <2>2. LanesInv'
    BY <1>2, <2>1 DEF LanesInv
  <2>3. RefusedInv'
    BY <2>1 DEF RefusedInv, Accepted, NoDecisions
  <2>4. DecisionsInv'
    BY <1>1, <2>1 DEF DecisionsInv, Complete
  <2> QED BY <2>2, <2>3, <2>4 DEF ReviewInv
<1> QED BY <1>3, <1>4

LEMMA SubmitSafetyStep == ReviewInv /\ SubmitSafety => ReviewInv'
<1> SUFFICES ASSUME ReviewInv, SubmitSafety PROVE ReviewInv'
  OBVIOUS
<1>1. PICK lane \in SafetyLanesNow : Submit(Append(safety, lane), decisions)
  BY DEF SubmitSafety, SafetyLanesNow
<1>2. /\ Len(grades) = 2 /\ Len(safety) < 2 /\ safety \in Seq(SafetyLanesNow)
      /\ decisions = NoDecisions /\ result = Pending
  BY DEF SubmitSafety, ReviewInv, LanesInv, DecisionsInv
<1>3. Append(safety, lane) \in Seq(SafetyLanesNow) /\ Len(Append(safety, lane)) <= 2
  <2> HIDE DEF ReviewInv
  <2> QED BY <1>2
<1>4. DOMAIN decisions = {}
  BY <1>2 DEF NoDecisions
<1> DEFINE s == Append(safety, lane)
<1>5. Submit(s, decisions) /\ s \in Seq(SafetyLanesNow) /\ Len(s) <= 2
  BY <1>1, <1>3
<1> HIDE DEF s
<1> QED BY <1>2, <1>4, <1>5, SubmitKeeps

LEMMA NextDisputeIsOpen ==
    ASSUME ReviewInv, Len(safety) = 2, result = Pending
    PROVE  NextDispute \in Disputes(safety[1], safety[2]) \ DOMAIN decisions
<1>1. ~Complete(safety, decisions)
  BY DeliveryIsFinal DEF ReviewInv, DecisionsInv
<1>2. DOMAIN decisions \subseteq Disputes(safety[1], safety[2])
  BY DEF ReviewInv, DecisionsInv
<1>3. Disputes(safety[1], safety[2]) \ DOMAIN decisions # {}
  BY <1>1, <1>2 DEF Complete
<1> QED BY <1>3 DEF NextDispute

LEMMA DecideDisputeStep == ReviewInv /\ DecideDispute => ReviewInv'
<1> SUFFICES ASSUME ReviewInv, DecideDispute PROVE ReviewInv'
  OBVIOUS
<1> DEFINE d(verdict) == [id \in DOMAIN decisions \cup {NextDispute} |->
                             IF id = NextDispute THEN verdict ELSE decisions[id]]
<1>1. PICK verdict \in Verdicts : Submit(safety, d(verdict))
  BY DEF DecideDispute
<1>2. Len(safety) = 2 /\ result = Pending
  BY DEF DecideDispute
<1>3. safety \in Seq(SafetyLanesNow) /\ Len(grades) = 2
  BY <1>2 DEF ReviewInv, LanesInv
<1>4. /\ DOMAIN d(verdict) \subseteq Disputes(safety[1], safety[2])
      /\ \A id \in DOMAIN d(verdict) : d(verdict)[id] \in Verdicts
  <2>1. /\ DOMAIN decisions \subseteq Disputes(safety[1], safety[2])
        /\ \A id \in DOMAIN decisions : decisions[id] \in Verdicts
    BY <1>2 DEF ReviewInv, DecisionsInv
  <2> QED BY <1>2, <2>1, NextDisputeIsOpen
<1> DEFINE n == d(verdict)
<1>5. /\ Submit(safety, n) /\ DOMAIN n \subseteq Disputes(safety[1], safety[2])
      /\ \A id \in DOMAIN n : n[id] \in Verdicts
  BY <1>1, <1>4
<1>6. Len(safety) <= 2 /\ ~(Len(safety) < 2)
  BY <1>2
<1> HIDE DEF n, d, ReviewInv
<1> QED BY ONLY ReviewInv, <1>2, <1>3, <1>5, <1>6, SubmitKeeps

(* The inductive invariant. *)
THEOREM ReviewInvariant == Spec => []ReviewInv
<1>1. Init => ReviewInv
  BY ReviewBegins
<1>2. ReviewInv /\ [Next]_vars => ReviewInv'
  <2> SUFFICES ASSUME ReviewInv, [Next]_vars PROVE ReviewInv'
    OBVIOUS
  <2>1. CASE GradeLane
    BY <2>1, GradeLaneStep
  <2>2. CASE SubmitSafety
    BY <2>2, SubmitSafetyStep
  <2>3. CASE DecideDispute
    BY <2>3, DecideDisputeStep
  <2>4. CASE UNCHANGED vars
    BY <2>4 DEF vars, ReviewInv, LanesInv, DecisionsInv, RefusedInv, SafetyLanesNow,
                Complete, TerminalProductsBuild
  <2> QED BY <2>1, <2>2, <2>3, <2>4 DEF Next
<1> QED BY <1>1, <1>2, PTL DEF Spec

LEMMA LaneIsShaped ==
    ASSUME NEW c \in Cases, NEW lane \in GradingLanes(c)
    PROVE  LaneShape(c.package, lane)
<1>1. /\ lane.ordinary \in [DOMAIN c.package.common -> c.grades]
      /\ lane.contested \in [DOMAIN c.package.contested -> [Alternatives -> c.grades]]
  BY DEF GradingLanes
<1>2. c.grades \subseteq Grades
  BY CasesAssumption
<1> QED BY <1>1, <1>2 DEF LaneShape

LEMMA GradesAreLanes ==
    ASSUME ReviewInv, Len(grades) = 2
    PROVE  /\ PackageShape(case.package)
           /\ LaneShape(case.package, grades[1]) /\ LaneShape(case.package, grades[2])
<1>1. case \in Cases /\ grades[1] \in GradingLanes(case) /\ grades[2] \in GradingLanes(case)
  <2>1. case \in Cases /\ grades \in Seq(GradingLanes(case))
    BY DEF ReviewInv, LanesInv
  <2> DEFINE X == GradingLanes(case)
  <2>2. grades \in Seq(X)
    BY <2>1
  <2> HIDE DEF X
  <2>3. grades[1] \in X /\ grades[2] \in X
    BY <2>2
  <2> QED BY <2>1, <2>3 DEF X
<1> QED BY <1>1, LaneIsShaped, CasesAssumption

(* The strict-equivalent outcome is the one that the retained scoring gives,
   for any baseline and any grades.  (derive_baseline_locked_strict_equivalent_v1) *)
THEOREM StrictOutcomeIsRetained == Spec => []StrictIsRetained
<1>1. ReviewInv => StrictIsRetained
  BY GradesAreLanes, StrictIsSensitivity DEF StrictIsRetained
<1> QED BY <1>1, ReviewInvariant, PTL

(***************************************************************************)
(* Deliveries.                                                             *)
(***************************************************************************)
OpenVerdicts(d) == {id \in DOMAIN d : d[id] \in {"blocking", "unresolved"}}

(* A dispute a referee leaves open blocks. *)
LEMMA OpenVerdictsBlock ==
    ASSUME NEW p, NEW first, NEW second, NEW d, OpenVerdicts(d) # {}
    PROVE  ReconcileBlockers(p, first, second, d) # {}
<1>1. PICK id \in OpenVerdicts(d) : TRUE
  OBVIOUS
<1>2. UnresolvedCodes(id, first, second) # {}
  BY DEF UnresolvedCodes
<1>3. PICK code \in UnresolvedCodes(id, first, second) : TRUE
  BY <1>2
<1>4. code \in UNION {UnresolvedCodes(i, first, second) : i \in OpenVerdicts(d)}
  BY <1>1, <1>3
<1>5. ReconcileBlockers(p, first, second, d) =
        (UNION {UnresolvedCodes(i, first, second) : i \in OpenVerdicts(d)})
        \cup Codes({Reconciled(first, second, d)[i] : i \in DOMAIN Reconciled(first, second, d)})
        \cup {FindingBlocker(i.kind) :
                i \in {j \in DOMAIN Reconciled(first, second, d) : IsFinding(j) /\ FindingBlocks(p, j.kind)}}
  BY DEF ReconcileBlockers, OpenVerdicts
<1> QED BY <1>4, <1>5

(* A record that survives reconciliation and raises a blocker blocks. *)
LEMMA SurvivorsBlock ==
    ASSUME NEW p, NEW first, NEW second, NEW d,
           NEW id \in DOMAIN Reconciled(first, second, d),
           LET record == Reconciled(first, second, d)[id]
           IN record.blocking # "none" \/ (IsFinding(id) /\ FindingBlocks(p, id.kind))
    PROVE  ReconcileBlockers(p, first, second, d) # {}
<1> DEFINE kept == Reconciled(first, second, d)
           codes == Codes({kept[i] : i \in DOMAIN kept})
           findings == {FindingBlocker(i.kind) :
                          i \in {j \in DOMAIN kept : IsFinding(j) /\ FindingBlocks(p, j.kind)}}
<1>1. codes \cup findings \subseteq ReconcileBlockers(p, first, second, d)
  BY DEF ReconcileBlockers
<1>2. id \in DOMAIN kept /\ (kept[id].blocking # "none" \/ (IsFinding(id) /\ FindingBlocks(p, id.kind)))
  OBVIOUS
<1> HIDE DEF kept
<1>3. CASE kept[id].blocking # "none"
  <2>1. kept[id].blocking \in codes
    BY <1>2, <1>3 DEF Codes
  <2> QED BY <1>1, <2>1
<1>4. CASE IsFinding(id) /\ FindingBlocks(p, id.kind)
  <2>1. FindingBlocker(id.kind) \in findings
    BY <1>2, <1>4
  <2> QED BY <1>1, <2>1
<1> QED BY <1>2, <1>3, <1>4

LEMMA DeliverableMeans ==
    ASSUME NEW p, NEW g, NEW s, NEW d, Delivery(p, g, s, d).tier \in Deliverable
    PROVE  /\ ReconcileBlockers(p, s[1], s[2], d) = {}
           /\ GapBlockers(p, Reconciled(s[1], s[2], d), StrictEquivalent(p, g[1], g[2])) = {}
           /\ \A l \in 1..2 : CoversTenths(LaneWorld(p, g[l]), 7)
<1> DEFINE strict == StrictEquivalent(p, g[1], g[2])
           kept == Reconciled(s[1], s[2], d)
           worlds == {LaneWorld(p, g[l]) : l \in 1..2}
           blockers == ReconcileBlockers(p, s[1], s[2], d) \cup GapBlockers(p, kept, strict)
                       \cup {c \in {"MINIMUM_LANE_COVERAGE_BELOW_FLOOR"} :
                               \E w \in worlds : ~CoversTenths(w, 7)}
<1>1. blockers # {} => Delivery(p, g, s, d).tier = "NOT_DELIVERABLE"
  BY DEF Delivery
<1>2. blockers = {}
  BY <1>1 DEF Deliverable
<1> QED BY <1>2

(* What the delivered lanes kept. *)
LEMMA KeptIs ==
    ASSUME NEW first, NEW second, NEW d, OpenVerdicts(d) = {},
           DOMAIN d = Disputes(first, second), \A id \in DOMAIN d : d[id] \in Verdicts,
           NEW id \in DOMAIN first \cup DOMAIN second
    PROVE  /\ id \notin DOMAIN d => /\ id \in DOMAIN first /\ id \in DOMAIN second
                                    /\ first[id] = second[id]
                                    /\ KeptFrom(first, second, d, id) = first
           /\ id \in DOMAIN d => d[id] \in {"lane_1", "lane_2"}
           /\ id \in DOMAIN d /\ d[id] = "lane_1" => KeptFrom(first, second, d, id) = first
           /\ id \in DOMAIN d /\ d[id] = "lane_2" => KeptFrom(first, second, d, id) = second
<1>1. id \notin DOMAIN d => id \in DOMAIN first /\ id \in DOMAIN second /\ first[id] = second[id]
  BY DEF Disputes
<1>2. id \in DOMAIN d => d[id] \in {"lane_1", "lane_2"}
  BY DEF OpenVerdicts, Verdicts
<1>3. id \notin DOMAIN d => KeptFrom(first, second, d, id) = first
  BY DEF KeptFrom
<1>4. id \in DOMAIN d /\ d[id] = "lane_1" => KeptFrom(first, second, d, id) = first
  BY DEF KeptFrom
<1>5. id \in DOMAIN d /\ d[id] = "lane_2" => KeptFrom(first, second, d, id) = second
  BY DEF KeptFrom
<1> QED BY <1>1, <1>2, <1>3, <1>4, <1>5

LEMMA RunDelivered ==
    ASSUME ReviewInv, result # Pending
    PROVE  /\ Len(safety) = 2 /\ Len(grades) = 2
           /\ DOMAIN decisions = Disputes(safety[1], safety[2])
           /\ \A id \in DOMAIN decisions : decisions[id] \in Verdicts
           /\ result = Delivery(case.package, grades, safety, decisions)
<1>1. Len(safety) = 2
  <2>1. safety \in Seq(SafetyLanesNow) /\ Len(safety) <= 2 /\ (Len(safety) < 2 => result = Pending)
    BY DEF ReviewInv, LanesInv, DecisionsInv
  <2> DEFINE X == SafetyLanesNow
  <2>2. safety \in Seq(X)
    BY <2>1
  <2> HIDE DEF X
  <2>3. Len(safety) \in Nat
    BY <2>2
  <2>4. ~(Len(safety) < 2) /\ Len(safety) <= 2
    BY <2>1
  <2>5. \A n \in Nat : ~(n < 2) /\ n <= 2 => n = 2
    OBVIOUS
  <2> QED BY <2>3, <2>4, <2>5
<1>2. Len(grades) = 2
  BY <1>1 DEF ReviewInv, LanesInv
<1>3. Complete(safety, decisions) /\ result = Delivery(case.package, grades, safety, decisions)
  BY <1>1 DEF ReviewInv, DecisionsInv
<1>4. \A id \in DOMAIN decisions : decisions[id] \in Verdicts
  BY <1>1 DEF ReviewInv, DecisionsInv
<1> QED BY <1>1, <1>2, <1>3, <1>4 DEF Complete

LEMMA Delivered ==
    ASSUME ReviewInv, result.tier \in Deliverable
    PROVE  result # Pending
BY DEF Pending, Deliverable

(* Only a referee who chose the other lane takes a blocker away from a
   delivered report, for any candidates, findings and records.
   (reconcile_safety_lanes_v1) *)
THEOREM BlockersNeedReferees == Spec => []BlockersFallOnlyToReferees
<1>1. ReviewInv => BlockersFallOnlyToReferees
  <2> SUFFICES ASSUME ReviewInv, result.tier \in Deliverable,
                      NEW l \in 1..2, NEW id \in DOMAIN safety[l], Raises(id, safety[l][id])
               PROVE  id \in DOMAIN decisions /\ decisions[id] = <<"lane_2", "lane_1">>[l]
    BY DEF BlockersFallOnlyToReferees
  <2> DEFINE first == safety[1]
             second == safety[2]
             kept == Reconciled(first, second, decisions)
             Blocked == ReconcileBlockers(case.package, first, second, decisions)
  <2>1. /\ DOMAIN decisions = Disputes(first, second)
        /\ \A i \in DOMAIN decisions : decisions[i] \in Verdicts
        /\ Blocked = {}
    BY Delivered, RunDelivered, DeliverableMeans
  <2>2. OpenVerdicts(decisions) = {}
    BY <2>1, OpenVerdictsBlock
  <2>3. l = 1 \/ l = 2
    OBVIOUS
  <2>4. id \in DOMAIN first \cup DOMAIN second
    BY <2>3
  <2>5. /\ id \notin DOMAIN decisions => /\ id \in DOMAIN first /\ id \in DOMAIN second
                                         /\ first[id] = second[id]
                                         /\ KeptFrom(first, second, decisions, id) = first
        /\ id \in DOMAIN decisions => decisions[id] \in {"lane_1", "lane_2"}
        /\ id \in DOMAIN decisions /\ decisions[id] = "lane_1" => KeptFrom(first, second, decisions, id) = first
        /\ id \in DOMAIN decisions /\ decisions[id] = "lane_2" => KeptFrom(first, second, decisions, id) = second
    <3> HIDE DEF first, second
    <3> QED BY <2>1, <2>2, <2>4, KeptIs
  <2>6. ASSUME KeptFrom(first, second, decisions, id) = safety[l]
                 \/ (id \notin DOMAIN decisions)
        PROVE  FALSE
    <3>1. /\ id \in DOMAIN KeptFrom(first, second, decisions, id)
          /\ KeptFrom(first, second, decisions, id)[id] = safety[l][id]
      BY <2>3, <2>5, <2>6
    <3>2. id \in DOMAIN kept /\ kept[id] = safety[l][id]
      <4> HIDE DEF first, second
      <4> QED BY <2>4, <3>1 DEF Reconciled
    <3>3. kept[id].blocking # "none" \/ (IsFinding(id) /\ FindingBlocks(case.package, id.kind))
      <4>1. safety[l][id].blocking # "none" \/ (IsFinding(id) /\ FindingBlocks(case.package, id.kind))
        BY DEF Raises
      <4> QED BY <3>2, <4>1
    <3> HIDE DEF first, second
    <3>4. Blocked # {}
      BY <3>2, <3>3, SurvivorsBlock
    <3> QED BY <2>1, <3>4
  <2>7. id \in DOMAIN decisions
    BY <2>6
  <2>8. CASE l = 1
    <3>1. decisions[id] # "lane_1"
      BY <2>5, <2>6, <2>7, <2>8
    <3> QED BY <2>5, <2>7, <2>8, <3>1
  <2>9. CASE l = 2
    <3>1. decisions[id] # "lane_2"
      BY <2>5, <2>6, <2>7, <2>9
    <3> QED BY <2>5, <2>7, <2>9, <3>1
  <2> QED BY <2>3, <2>8, <2>9
<1> QED BY <1>1, ReviewInvariant, PTL

(***************************************************************************)
(* The order of the lanes.                                                 *)
(***************************************************************************)
LEMMA TierIs ==
    ASSUME NEW p, NEW g, NEW s, NEW d
    PROVE  LET strict == StrictEquivalent(p, g[1], g[2])
               kept == Reconciled(s[1], s[2], d)
               worlds == {LaneWorld(p, g[1]), LaneWorld(p, g[2])}
               blockers == ReconcileBlockers(p, s[1], s[2], d)
                           \cup GapBlockers(p, kept, strict)
                           \cup {c \in {"MINIMUM_LANE_COVERAGE_BELOW_FLOOR"} :
                                   \E w \in worlds : ~CoversTenths(w, 7)}
               high == /\ strict.disposition = "PASS"
                       /\ \A w \in worlds : CoversTenths(w, 9) /\ AllCriticalMet(w)
                       /\ ~Disqualifying(kept)
                       /\ p.origin = "generated"
           IN  Delivery(p, g, s, d).tier =
                 IF blockers # {} THEN "NOT_DELIVERABLE"
                 ELSE IF high THEN "HIGH_ASSURANCE" ELSE "REVIEW_READY_WITH_GAPS"
<1>1. {LaneWorld(p, g[l]) : l \in 1..2} = {LaneWorld(p, g[1]), LaneWorld(p, g[2])}
  OBVIOUS
<1> QED BY <1>1 DEF Delivery

(* Exchanging the lanes may reorder what the strict outcome names. *)
LEMMA StrictIsSymmetric ==
    ASSUME NEW p, DOMAIN p.contested \subseteq Nat, NEW a, NEW b
    PROVE  LET here == StrictEquivalent(p, a, b)
               there == StrictEquivalent(p, b, a)
           IN  /\ here.disposition = there.disposition
               /\ here.determinative = {} <=> there.determinative = {}
<1> DEFINE S == {c \in DOMAIN p.contested : Differs(p.contested, a, c)}
           T == {c \in DOMAIN p.contested : Differs(p.contested, b, c)}
           A == ContestedLaneOutcome(p, a)
           B == ContestedLaneOutcome(p, b)
           x == LockedScore(OrdinaryWorld(p.common, a))
           y == LockedScore(OrdinaryWorld(p.common, b))
<1>1. Reflexive(A.determinative) /\ Reflexive(B.determinative)
  <2>1. Reflexive(Sorted(S)) /\ Reflexive(Sorted(T)) /\ Reflexive({})
    <3>1. S \subseteq Nat /\ T \subseteq Nat
      OBVIOUS
    <3> HIDE DEF S, T
    <3> QED BY <3>1, SortedNumbers, OnlyOne
  <2>2. /\ A = Settle(WorldScore(p, a, "reviewer"), WorldScore(p, a, "auditor"), Sorted(S))
        /\ B = Settle(WorldScore(p, b, "reviewer"), WorldScore(p, b, "auditor"), Sorted(T))
    BY DEF ContestedLaneOutcome
  <2>3. ASSUME NEW r, NEW u, NEW t PROVE Settle(r, u, t).determinative \in {{}, t}
    BY DEF Settle, Recorded
  <2> HIDE DEF A, B, S, T
  <2>4. A.determinative \in {{}, Sorted(S)} /\ B.determinative \in {{}, Sorted(T)}
    BY <2>2, <2>3
  <2> QED BY <2>1, <2>4
<1>2. ASSUME NEW s, NEW t, Reflexive(s), Reflexive(t) PROVE Then(s, t) = {} <=> s = {} /\ t = {}
  <2>1. \A u : u = {} <=> Members(u) = {}
    BY DEF Members
  <2> QED BY <1>2, <2>1, ThenBoth
<1>3. ASSUME NEW s, NEW t PROVE MergeOutcomes(s, t).disposition = MergeOutcomes(t, s).disposition
  BY DEF MergeOutcomes, Inconclusive
<1>4. /\ StrictEquivalent(p, a, b) =
            IF MergeOutcomes(x, y).disposition = "INCONCLUSIVE" THEN Recorded(MergeOutcomes(x, y), {})
            ELSE Recorded(MergeOutcomes(A, B), Then(A.determinative, B.determinative))
      /\ StrictEquivalent(p, b, a) =
            IF MergeOutcomes(y, x).disposition = "INCONCLUSIVE" THEN Recorded(MergeOutcomes(y, x), {})
            ELSE Recorded(MergeOutcomes(B, A), Then(B.determinative, A.determinative))
  BY DEF StrictEquivalent, StrictBothWorlds
<1>5. Then(A.determinative, B.determinative) = {} <=> Then(B.determinative, A.determinative) = {}
  BY <1>1, <1>2
<1> HIDE DEF A, B, x, y
<1> QED BY <1>3, <1>4, <1>5 DEF Recorded

LEMMA SwappedIsKept ==
    ASSUME NEW first, NEW second, NEW d, OpenVerdicts(d) = {},
           DOMAIN d = Disputes(first, second), \A id \in DOMAIN d : d[id] \in Verdicts
    PROVE  Reconciled(second, first, [id \in DOMAIN d |-> Swapped(d[id])]) = Reconciled(first, second, d)
<1> DEFINE e == [id \in DOMAIN d |-> Swapped(d[id])]
           ids == DOMAIN first \cup DOMAIN second
<1>1. DOMAIN e = DOMAIN d /\ \A id \in DOMAIN d : e[id] = Swapped(d[id])
  OBVIOUS
<1>2. Swapped("lane_1") = "lane_2" /\ Swapped("lane_2") = "lane_1"
  BY DEF Swapped
<1>3. \A id \in ids :
         IF id \in DOMAIN d
         THEN KeptFrom(second, first, e, id) = KeptFrom(first, second, d, id)
         ELSE /\ KeptFrom(second, first, e, id) = second /\ KeptFrom(first, second, d, id) = first
              /\ id \in DOMAIN first /\ id \in DOMAIN second /\ first[id] = second[id]
  <2> SUFFICES ASSUME NEW id \in ids
               PROVE IF id \in DOMAIN d
                     THEN KeptFrom(second, first, e, id) = KeptFrom(first, second, d, id)
                     ELSE /\ KeptFrom(second, first, e, id) = second /\ KeptFrom(first, second, d, id) = first
                          /\ id \in DOMAIN first /\ id \in DOMAIN second /\ first[id] = second[id]
    OBVIOUS
  <2>1. CASE id \notin DOMAIN d
    <3>1. KeptFrom(second, first, e, id) = second
      <4> HIDE DEF e
      <4> QED BY <1>1, <2>1 DEF KeptFrom
    <3> QED BY <2>1, <3>1, KeptIs
  <2>2. CASE id \in DOMAIN d
    <3>1. d[id] = "lane_1" \/ d[id] = "lane_2"
      BY <2>2, KeptIs
    <3> HIDE DEF e
    <3>2. CASE d[id] = "lane_1"
      <4>1. e[id] = "lane_2" /\ id \in DOMAIN e
        BY <1>1, <1>2, <2>2, <3>2
      <4>2. KeptFrom(second, first, e, id) = first
        BY <4>1 DEF KeptFrom
      <4> QED BY <2>2, <3>2, <4>2, KeptIs
    <3>3. CASE d[id] = "lane_2"
      <4>1. e[id] = "lane_1" /\ id \in DOMAIN e
        BY <1>1, <1>2, <2>2, <3>3
      <4>2. KeptFrom(second, first, e, id) = second
        BY <4>1 DEF KeptFrom
      <4> QED BY <2>2, <3>3, <4>2, KeptIs
    <3> QED BY <3>1, <3>2, <3>3
  <2> QED BY <2>1, <2>2
<1> HIDE DEF e
<1> DEFINE Here(id) == KeptFrom(first, second, d, id)
           There(id) == KeptFrom(second, first, e, id)
<1>4. \A id \in ids : /\ id \in DOMAIN There(id) <=> id \in DOMAIN Here(id)
                      /\ There(id)[id] = Here(id)[id]
  <2> SUFFICES ASSUME NEW id \in ids
               PROVE  /\ id \in DOMAIN There(id) <=> id \in DOMAIN Here(id)
                      /\ There(id)[id] = Here(id)[id]
    OBVIOUS
  <2>1. CASE id \in DOMAIN d
    <3>1. There(id) = Here(id)
      BY <1>3, <2>1
    <3> QED BY <3>1
  <2>2. CASE id \notin DOMAIN d
    <3>1. /\ There(id) = second /\ Here(id) = first
          /\ id \in DOMAIN first /\ id \in DOMAIN second /\ first[id] = second[id]
      BY <1>3, <2>2
    <3> QED BY <3>1
  <2> QED BY <2>1, <2>2
<1>5. /\ Reconciled(first, second, d) = [id \in {i \in ids : i \in DOMAIN Here(i)} |-> Here(id)[id]]
      /\ Reconciled(second, first, e) = [id \in {i \in ids : i \in DOMAIN There(i)} |-> There(id)[id]]
  <2>1. DOMAIN second \cup DOMAIN first = DOMAIN first \cup DOMAIN second
    OBVIOUS
  <2> QED BY <2>1 DEF Reconciled
<1> HIDE DEF Here, There, ids
<1>6. {i \in ids : i \in DOMAIN There(i)} = {i \in ids : i \in DOMAIN Here(i)}
  BY <1>4
<1> QED BY <1>4, <1>5, <1>6 DEF e

LEMMA SwappedOpens ==
    ASSUME NEW d
    PROVE  OpenVerdicts([id \in DOMAIN d |-> Swapped(d[id])]) = OpenVerdicts(d)
<1>1. \A v : Swapped(v) \in {"blocking", "unresolved"} <=> v \in {"blocking", "unresolved"}
  BY DEF Swapped
<1> DEFINE e == [id \in DOMAIN d |-> Swapped(d[id])]
<1>2. DOMAIN e = DOMAIN d /\ \A id \in DOMAIN d : e[id] = Swapped(d[id])
  OBVIOUS
<1> HIDE DEF e
<1>3. OpenVerdicts(e) = OpenVerdicts(d)
  BY <1>1, <1>2 DEF OpenVerdicts
<1> QED BY <1>3 DEF e

(* With every dispute ruled for a lane, what blocks is what was kept. *)
LEMMA RuledBlockers ==
    ASSUME NEW p, NEW first, NEW second, NEW d, OpenVerdicts(d) = {}
    PROVE  LET kept == Reconciled(first, second, d)
           IN  ReconcileBlockers(p, first, second, d) =
                 Codes({kept[id] : id \in DOMAIN kept})
                 \cup {FindingBlocker(id.kind) :
                         id \in {i \in DOMAIN kept : IsFinding(i) /\ FindingBlocks(p, i.kind)}}
<1>1. {id \in DOMAIN d : d[id] \in {"blocking", "unresolved"}} = {}
  BY DEF OpenVerdicts
<1>2. (UNION {UnresolvedCodes(id, first, second) :
                id \in {i \in DOMAIN d : d[i] \in {"blocking", "unresolved"}}}) = {}
  BY <1>1
<1> QED BY <1>2 DEF ReconcileBlockers

LEMMA TierIsSymmetric ==
    ASSUME NEW p, DOMAIN p.contested \subseteq Nat, NEW g, NEW s, NEW d,
           DOMAIN d = Disputes(s[1], s[2]), \A id \in DOMAIN d : d[id] \in Verdicts
    PROVE  Delivery(p, <<g[2], g[1]>>, <<s[2], s[1]>>, [id \in DOMAIN d |-> Swapped(d[id])]).tier
             = Delivery(p, g, s, d).tier
<1> DEFINE e == [id \in DOMAIN d |-> Swapped(d[id])]
           h == <<g[2], g[1]>>
           t == <<s[2], s[1]>>
<1>1. h[1] = g[2] /\ h[2] = g[1] /\ t[1] = s[2] /\ t[2] = s[1]
  OBVIOUS
<1>2. OpenVerdicts(e) = OpenVerdicts(d)
  BY SwappedOpens
<1>3. CASE OpenVerdicts(d) # {}
  <2>1. ReconcileBlockers(p, s[1], s[2], d) # {} /\ ReconcileBlockers(p, t[1], t[2], e) # {}
    <3> HIDE DEF e, t
    <3> QED BY <1>2, <1>3, OpenVerdictsBlock
  <2>2. Delivery(p, g, s, d).tier = "NOT_DELIVERABLE"
    BY <2>1, TierIs
  <2> HIDE DEF e, t, h
  <2>3. Delivery(p, h, t, e).tier = "NOT_DELIVERABLE"
    BY <2>1, TierIs
  <2> QED BY <2>2, <2>3 DEF e, t, h
<1>4. CASE OpenVerdicts(d) = {}
  <2>1. Reconciled(s[2], s[1], e) = Reconciled(s[1], s[2], d)
    <3> DEFINE first == s[1]
               second == s[2]
    <3>1. DOMAIN d = Disputes(first, second) /\ \A id \in DOMAIN d : d[id] \in Verdicts
      OBVIOUS
    <3> HIDE DEF first, second
    <3>2. Reconciled(second, first, e) = Reconciled(first, second, d)
      BY <1>4, <3>1, SwappedIsKept
    <3> QED BY <3>2 DEF first, second
  <2> HIDE DEF e
  <2>2. ReconcileBlockers(p, s[2], s[1], e) = ReconcileBlockers(p, s[1], s[2], d)
    <3> DEFINE Of(kept) == Codes({kept[id] : id \in DOMAIN kept})
                           \cup {FindingBlocker(id.kind) :
                                   id \in {i \in DOMAIN kept : IsFinding(i) /\ FindingBlocks(p, i.kind)}}
    <3>1. ReconcileBlockers(p, s[2], s[1], e) = Of(Reconciled(s[2], s[1], e))
      BY <1>2, <1>4, RuledBlockers
    <3>2. ReconcileBlockers(p, s[1], s[2], d) = Of(Reconciled(s[1], s[2], d))
      BY <1>4, RuledBlockers
    <3> HIDE DEF Of
    <3> QED BY <2>1, <3>1, <3>2
  <2>3. {LaneWorld(p, g[2]), LaneWorld(p, g[1])} = {LaneWorld(p, g[1]), LaneWorld(p, g[2])}
    OBVIOUS
  <2>4. /\ StrictEquivalent(p, g[2], g[1]).disposition = StrictEquivalent(p, g[1], g[2]).disposition
        /\ GapBlockers(p, Reconciled(s[1], s[2], d), StrictEquivalent(p, g[2], g[1]))
             = GapBlockers(p, Reconciled(s[1], s[2], d), StrictEquivalent(p, g[1], g[2]))
    <3>1. /\ StrictEquivalent(p, g[2], g[1]).disposition = StrictEquivalent(p, g[1], g[2]).disposition
          /\ StrictEquivalent(p, g[2], g[1]).determinative = {}
               <=> StrictEquivalent(p, g[1], g[2]).determinative = {}
      BY StrictIsSymmetric
    <3>2. ASSUME NEW kept, NEW x, NEW y, x.determinative = {} <=> y.determinative = {}
          PROVE  GapBlockers(p, kept, x) = GapBlockers(p, kept, y)
      <4>1. {c \in {"OUTCOME_DETERMINATIVE_CONTEST"} : x.determinative # {}}
              = {c \in {"OUTCOME_DETERMINATIVE_CONTEST"} : y.determinative # {}}
        BY <3>2
      <4> QED BY <4>1 DEF GapBlockers
    <3> QED BY <3>1, <3>2
  <2> DEFINE Tier(disposition, gaps, kept, worlds, codes) ==
                LET blockers == codes \cup gaps
                                \cup {c \in {"MINIMUM_LANE_COVERAGE_BELOW_FLOOR"} :
                                        \E w \in worlds : ~CoversTenths(w, 7)}
                    high == /\ disposition = "PASS"
                            /\ \A w \in worlds : CoversTenths(w, 9) /\ AllCriticalMet(w)
                            /\ ~Disqualifying(kept)
                            /\ p.origin = "generated"
                IN  IF blockers # {} THEN "NOT_DELIVERABLE"
                    ELSE IF high THEN "HIGH_ASSURANCE" ELSE "REVIEW_READY_WITH_GAPS"
  <2>5. Delivery(p, g, s, d).tier =
          Tier(StrictEquivalent(p, g[1], g[2]).disposition,
               GapBlockers(p, Reconciled(s[1], s[2], d), StrictEquivalent(p, g[1], g[2])),
               Reconciled(s[1], s[2], d),
               {LaneWorld(p, g[1]), LaneWorld(p, g[2])}, ReconcileBlockers(p, s[1], s[2], d))
    BY TierIs
  <2>6. Delivery(p, h, t, e).tier =
          Tier(StrictEquivalent(p, h[1], h[2]).disposition,
               GapBlockers(p, Reconciled(t[1], t[2], e), StrictEquivalent(p, h[1], h[2])),
               Reconciled(t[1], t[2], e),
               {LaneWorld(p, h[1]), LaneWorld(p, h[2])}, ReconcileBlockers(p, t[1], t[2], e))
    <3> HIDE DEF h, t
    <3> QED BY TierIs
  <2> HIDE DEF Tier, h, t
  <2>7. Delivery(p, h, t, e).tier = Delivery(p, g, s, d).tier
    BY <1>1, <2>1, <2>2, <2>3, <2>4, <2>5, <2>6
  <2> QED BY <2>7 DEF e, h, t
<1> QED BY <1>3, <1>4

(* Which evaluator was lane 1 decides nothing about the tier, whatever either
   of them found and the referees ruled.  (derive_delivery_readiness_v1) *)
THEOREM LaneOrderIsNothing == Spec => []TierIgnoresLaneOrder
<1>1. ASSUME ReviewInv, result # Pending PROVE TierIgnoresLaneOrder
  <2>1. /\ DOMAIN decisions = Disputes(safety[1], safety[2])
        /\ \A id \in DOMAIN decisions : decisions[id] \in Verdicts
        /\ result = Delivery(case.package, grades, safety, decisions)
    BY <1>1, RunDelivered
  <2>2. case \in Cases
    BY <1>1 DEF ReviewInv, LanesInv
  <2>3. DOMAIN case.package.contested \subseteq Nat
    BY <2>2, CasesAssumption DEF PackageShape
  <2>4. Delivery(case.package, <<grades[2], grades[1]>>, <<safety[2], safety[1]>>,
                 [id \in DOMAIN decisions |-> Swapped(decisions[id])]).tier
          = Delivery(case.package, grades, safety, decisions).tier
    BY <2>1, <2>3, TierIsSymmetric
  <2> QED BY <2>1, <2>4 DEF TierIgnoresLaneOrder
<1>2. ReviewInv => TierIgnoresLaneOrder
  BY <1>1 DEF TierIgnoresLaneOrder
<1> QED BY <1>2, ReviewInvariant, PTL

(***************************************************************************)
(* Coverage.                                                               *)
(***************************************************************************)
LEMMA Ranks ==
    /\ Rank["uncertain"] = 0 /\ Rank["not_met"] = 1
    /\ Rank["partially_met"] = 2 /\ Rank["met"] = 3
    /\ \A g \in Grades : Rank[g] \in 0..3
    /\ \A g, h \in Grades : Rank[g] <= Rank[h] => HalfUnits[g] <= HalfUnits[h]
    /\ \A g, h \in Grades : Rank[g] = Rank[h] => g = h
BY Units DEF Rank, Grades

(* The worst of some grades is one of them, and no better than any. *)
LEMMA ConservativeIs ==
    ASSUME NEW S \in SUBSET Grades, S # {}
    PROVE  /\ Conservative(S) \in S
           /\ \A g \in S : Rank[Conservative(S)] <= Rank[g]
<1>1. \E g \in S : \A h \in S : Rank[g] <= Rank[h]
  <2>1. CASE "uncertain" \in S
    BY <2>1, Ranks
  <2>2. CASE "uncertain" \notin S /\ "not_met" \in S
    BY <2>2, Ranks DEF Grades
  <2>3. CASE "uncertain" \notin S /\ "not_met" \notin S /\ "partially_met" \in S
    BY <2>3, Ranks DEF Grades
  <2>4. CASE "uncertain" \notin S /\ "not_met" \notin S /\ "partially_met" \notin S
    <3>1. S = {"met"}
      BY <2>4 DEF Grades
    <3> QED BY <3>1, Ranks
  <2> QED BY <2>1, <2>2, <2>3, <2>4
<1>2. Conservative(S) = CHOOSE g \in S : \A h \in S : Rank[g] <= Rank[h]
  BY DEF Conservative
<1> QED BY <1>1, <1>2

(* A world made of one observation for each key. *)
Keys(p) == {<<"requirement", r>> : r \in DOMAIN p.common} \cup {<<"contested", c>> : c \in DOMAIN p.contested}
Built(K, importance, grade) == {Observed(k, importance[k], grade[k]) : k \in K}

LEMMA KeysFinite ==
    ASSUME NEW p, PackageShape(p)
    PROVE  IsFiniteSet(Keys(p))
<1> DEFINE R == {<<"requirement", r>> : r \in DOMAIN p.common}
           C == {<<"contested", c>> : c \in DOMAIN p.contested}
           f == [r \in DOMAIN p.common |-> <<"requirement", r>>]
           g == [c \in DOMAIN p.contested |-> <<"contested", c>>]
<1>1. f \in Surjection(DOMAIN p.common, R) /\ g \in Surjection(DOMAIN p.contested, C)
  BY DEF Surjection
<1>2. IsFiniteSet(DOMAIN p.common) /\ IsFiniteSet(DOMAIN p.contested)
  BY DEF PackageShape
<1>3. Keys(p) = R \cup C
  BY DEF Keys
<1> HIDE DEF R, C, f, g
<1>4. IsFiniteSet(R) /\ IsFiniteSet(C)
  BY <1>1, <1>2, FS_Surjection
<1> QED BY <1>3, <1>4, FS_Union

LEMMA BuiltAddsUp ==
    ASSUME NEW K, IsFiniteSet(K), NEW importance \in [K -> Importances], NEW grade \in [K -> Grades]
    PROVE  LET credits == [k \in K |-> Weight[importance[k]] * HalfUnits[grade[k]]]
               weights == [k \in K |-> Weight[importance[k]]]
           IN  /\ WorldShape(Built(K, importance, grade))
               /\ Earned(Built(K, importance, grade)) = Sum(credits, K)
               /\ Possible(Built(K, importance, grade)) = 2 * Sum(weights, K)
               /\ \A k \in K : credits[k] \in Nat /\ weights[k] \in Nat
<1> DEFINE W == Built(K, importance, grade)
           ob(k) == Observed(k, importance[k], grade[k])
           b == [k \in K |-> ob(k)]
           credits == [k \in K |-> Weight[importance[k]] * HalfUnits[grade[k]]]
           weights == [k \in K |-> Weight[importance[k]]]
<1>1. W = {ob(k) : k \in K}
  BY DEF Built
<1>2. \A k \in K : /\ ob(k).item = k /\ ob(k).importance = importance[k] /\ ob(k).grade = grade[k]
                   /\ ob(k).importance \in Importances /\ ob(k).grade \in Grades
  BY DEF Observed
<1>3. b \in Surjection(K, W)
  BY <1>1 DEF Surjection
<1>4. b \in Bijection(K, W)
  <2>1. \A j, k \in K : b[j] = b[k] => j = k
    BY <1>2
  <2> QED BY <1>3, <2>1 DEF Bijection, Injection, IsInjective, Surjection
<1>5. WorldShape(W)
  <2>1. IsFiniteSet(W)
    <3> HIDE DEF b, W
    <3> QED BY <1>3, FS_Surjection
  <2> QED BY <1>1, <1>2, <2>1 DEF WorldShape
<1>6. \A k \in K : b[k] \in W /\ b[k].importance = importance[k] /\ b[k].grade = grade[k]
  BY <1>1, <1>2
<1> HIDE DEF b, W, ob
<1>7. \A k \in K : Weight[importance[k]] \in {1, 2, 3} /\ HalfUnits[grade[k]] \in {0, 1, 2}
  BY Units
<1>8. \A k \in K : /\ credits[k] \in Nat /\ credits[k] = Gain(W)[b[k]]
                   /\ weights[k] \in Nat /\ weights[k] = Stake(W)[b[k]]
  <2> SUFFICES ASSUME NEW k \in K
               PROVE  /\ credits[k] \in Nat /\ credits[k] = Gain(W)[b[k]]
                      /\ weights[k] \in Nat /\ weights[k] = Stake(W)[b[k]]
    OBVIOUS
  <2>1. credits[k] = Weight[importance[k]] * HalfUnits[grade[k]] /\ weights[k] = Weight[importance[k]]
    OBVIOUS
  <2>2. /\ Gain(W)[b[k]] = Weight[importance[k]] * HalfUnits[grade[k]]
        /\ Stake(W)[b[k]] = Weight[importance[k]]
        /\ Gain(W)[b[k]] \in Nat /\ Stake(W)[b[k]] \in Nat
    BY <1>5, <1>6, GainsAreNat
  <2> QED BY <2>1, <2>2
<1> HIDE DEF credits, weights
<1>9. Sum(credits, K) = Sum(Gain(W), W) /\ Sum(weights, K) = Sum(Stake(W), W)
  BY <1>4, <1>8, SumReindexes
<1>10. Earned(W) = Sum(credits, K) /\ Possible(W) = 2 * Sum(weights, K)
  BY <1>5, <1>9, SumsOfWorld
<1> QED BY <1>5, <1>8, <1>10 DEF W, credits, weights

(* Of two worlds of the same weights, the one with no worse grades covers no
   less. *)
LEMMA BetterCovers ==
    ASSUME NEW K, IsFiniteSet(K), NEW importance \in [K -> Importances],
           NEW low \in [K -> Grades], NEW high \in [K -> Grades],
           \A k \in K : Rank[low[k]] <= Rank[high[k]], NEW tenths \in Nat,
           CoversTenths(Built(K, importance, low), tenths)
    PROVE  CoversTenths(Built(K, importance, high), tenths)
<1> DEFINE v == [k \in K |-> Weight[importance[k]] * HalfUnits[low[k]]]
           w == [k \in K |-> Weight[importance[k]] * HalfUnits[high[k]]]
           s == [k \in K |-> Weight[importance[k]]]
<1>1. /\ Earned(Built(K, importance, low)) = Sum(v, K) /\ Earned(Built(K, importance, high)) = Sum(w, K)
      /\ Possible(Built(K, importance, low)) = 2 * Sum(s, K)
      /\ Possible(Built(K, importance, high)) = 2 * Sum(s, K)
      /\ \A k \in K : v[k] \in Nat /\ w[k] \in Nat /\ s[k] \in Nat
  BY BuiltAddsUp
<1>2. \A k \in K : v[k] <= w[k]
  <2> SUFFICES ASSUME NEW k \in K PROVE v[k] <= w[k]
    OBVIOUS
  <2> DEFINE i == Weight[importance[k]]
             a == HalfUnits[low[k]]
             b == HalfUnits[high[k]]
  <2>1. i \in {1, 2, 3} /\ a \in {0, 1, 2} /\ b \in {0, 1, 2} /\ a <= b
    BY Units, Ranks
  <2>2. v[k] = i * a /\ w[k] = i * b
    OBVIOUS
  <2> HIDE DEF i, a, b
  <2>3. i * a <= i * b
    BY <2>1
  <2> QED BY <2>2, <2>3
<1> HIDE DEF v, w, s
<1>3. Sum(v, K) <= Sum(w, K) /\ Sum(v, K) \in Nat /\ Sum(w, K) \in Nat /\ Sum(s, K) \in Nat
  BY <1>1, <1>2, SumCompares, SumIsNat
<1>4. 10 * Sum(v, K) >= tenths * (2 * Sum(s, K))
  BY <1>1 DEF CoversTenths
<1>5. tenths * (2 * Sum(s, K)) \in Nat
  BY <1>3
<1>6. 10 * Sum(w, K) >= tenths * (2 * Sum(s, K))
  BY <1>3, <1>4, <1>5
<1> QED BY <1>1, <1>6 DEF CoversTenths

(* The worlds of a package as built worlds. *)
With(p, lane, contests) == OrdinaryWorld(p.common, lane) \cup contests

Keyed(p, lane, imp, gr, contests) ==
    /\ \A r \in DOMAIN p.common : /\ imp[<<"requirement", r>>] = p.common[r]
                                 /\ gr[<<"requirement", r>>] = lane.ordinary[r]
    /\ \A o \in contests : \E c \in DOMAIN p.contested :
         o = Observed(<<"contested", c>>, imp[<<"contested", c>>], gr[<<"contested", c>>])
    /\ \A c \in DOMAIN p.contested :
         Observed(<<"contested", c>>, imp[<<"contested", c>>], gr[<<"contested", c>>]) \in contests

LEMMA WorldIsBuilt ==
    ASSUME NEW p, NEW lane, NEW imp, NEW gr, NEW contests, Keyed(p, lane, imp, gr, contests)
    PROVE  With(p, lane, contests) = Built(Keys(p), imp, gr)
<1> DEFINE B == Built(Keys(p), imp, gr)
           ob(k) == Observed(k, imp[k], gr[k])
           ord(r) == Observed(<<"requirement", r>>, p.common[r], lane.ordinary[r])
           con(c) == Observed(<<"contested", c>>, imp[<<"contested", c>>], gr[<<"contested", c>>])
<1>1. \A o : o \in B <=> \E k \in Keys(p) : o = ob(k)
  BY DEF Built
<1>2. \A o : o \in OrdinaryWorld(p.common, lane) <=> \E r \in DOMAIN p.common : o = ord(r)
  BY DEF OrdinaryWorld
<1>3. \A o : o \in contests <=> \E c \in DOMAIN p.contested : o = con(c)
  BY DEF Keyed
<1>4. /\ \A r \in DOMAIN p.common : <<"requirement", r>> \in Keys(p) /\ ob(<<"requirement", r>>) = ord(r)
      /\ \A c \in DOMAIN p.contested : <<"contested", c>> \in Keys(p) /\ ob(<<"contested", c>>) = con(c)
  BY DEF Keys, Keyed
<1>5. \A k \in Keys(p) : (\E r \in DOMAIN p.common : k = <<"requirement", r>>)
                         \/ (\E c \in DOMAIN p.contested : k = <<"contested", c>>)
  BY DEF Keys
<1> HIDE DEF B, ob, ord, con
<1>6. \A o : o \in OrdinaryWorld(p.common, lane) \cup contests <=> o \in B
  <2> SUFFICES ASSUME NEW o PROVE o \in OrdinaryWorld(p.common, lane) \cup contests <=> o \in B
    OBVIOUS
  <2>1. ASSUME o \in OrdinaryWorld(p.common, lane) PROVE o \in B
    <3>1. PICK r \in DOMAIN p.common : o = ord(r)
      BY <1>2, <2>1
    <3> QED BY <1>1, <1>4, <3>1
  <2>2. ASSUME o \in contests PROVE o \in B
    <3>1. PICK c \in DOMAIN p.contested : o = con(c)
      BY <1>3, <2>2
    <3> QED BY <1>1, <1>4, <3>1
  <2>3. ASSUME o \in B PROVE o \in OrdinaryWorld(p.common, lane) \cup contests
    <3>1. PICK k \in Keys(p) : o = ob(k)
      BY <1>1, <2>3
    <3>2. CASE \E r \in DOMAIN p.common : k = <<"requirement", r>>
      <4>1. PICK r \in DOMAIN p.common : k = <<"requirement", r>>
        BY <3>2
      <4>2. ob(k) = ord(r)
        BY <1>4, <4>1
      <4> QED BY <1>2, <3>1, <4>2
    <3>3. CASE \E c \in DOMAIN p.contested : k = <<"contested", c>>
      <4>1. PICK c \in DOMAIN p.contested : k = <<"contested", c>>
        BY <3>3
      <4>2. ob(k) = con(c)
        BY <1>4, <4>1
      <4> QED BY <1>3, <3>1, <4>2
    <3> QED BY <1>5, <3>2, <3>3
  <2> QED BY <2>1, <2>2, <2>3
<1>7. OrdinaryWorld(p.common, lane) \cup contests = B
  BY <1>6
<1> QED BY <1>7 DEF B, With

(* Of a package whose alternatives weigh what their contests weigh, a lane
   covers in every world what the matrix credits it with. *)
LEMMA EveryWorldCovers ==
    ASSUME NEW p, PackageShape(p), NEW lane, LaneShape(p, lane),
           \A c \in DOMAIN p.contested, side \in Alternatives : p.contested[c][side] = p.weight[c],
           NEW choice \in [DOMAIN p.contested -> Alternatives], CoversTenths(LaneWorld(p, lane), 7)
    PROVE  CoversTenths(World(p.common, p.contested, lane, choice), 7)
<1> DEFINE least == [c \in DOMAIN p.contested |->
                       Conservative({lane.contested[c][side] :
                           side \in {s \in Alternatives : p.contested[c][s] # "none"}})]
           chosen == [c \in DOMAIN p.contested |-> lane.contested[c][choice[c]]]
           K == Keys(p)
           imp == [k \in K |-> IF k[1] = "requirement" THEN p.common[k[2]] ELSE p.weight[k[2]]]
           low == [k \in K |-> IF k[1] = "requirement" THEN lane.ordinary[k[2]] ELSE least[k[2]]]
           high == [k \in K |-> IF k[1] = "requirement" THEN lane.ordinary[k[2]] ELSE chosen[k[2]]]
<1>1. \A c \in DOMAIN p.contested :
         /\ p.weight[c] \in Importances /\ choice[c] \in Alternatives
         /\ \A side \in Alternatives : p.contested[c][side] = p.weight[c] /\ p.contested[c][side] # "none"
         /\ \A side \in Alternatives : lane.contested[c][side] \in Grades
  BY DEF PackageShape, LaneShape, Importances
<1>2. \A c \in DOMAIN p.contested :
         /\ least[c] \in Grades /\ chosen[c] \in Grades /\ Rank[least[c]] <= Rank[chosen[c]]
  <2> SUFFICES ASSUME NEW c \in DOMAIN p.contested
               PROVE  /\ least[c] \in Grades /\ chosen[c] \in Grades /\ Rank[least[c]] <= Rank[chosen[c]]
    OBVIOUS
  <2> DEFINE S == {lane.contested[c][side] : side \in {s \in Alternatives : p.contested[c][s] # "none"}}
  <2>1. least[c] = Conservative(S) /\ chosen[c] = lane.contested[c][choice[c]]
    OBVIOUS
  <2>2. S \in SUBSET Grades /\ lane.contested[c][choice[c]] \in S
    BY <1>1
  <2> HIDE DEF S, least, chosen
  <2> QED BY <2>1, <2>2, ConservativeIs
<1>5. /\ \A r \in DOMAIN p.common : /\ imp[<<"requirement", r>>] = p.common[r]
                                    /\ low[<<"requirement", r>>] = lane.ordinary[r]
                                    /\ high[<<"requirement", r>>] = lane.ordinary[r]
      /\ \A c \in DOMAIN p.contested : /\ imp[<<"contested", c>>] = p.weight[c]
                                       /\ low[<<"contested", c>>] = least[c]
                                       /\ high[<<"contested", c>>] = chosen[c]
  <2>1. /\ \A r \in DOMAIN p.common : <<"requirement", r>> \in K
        /\ \A c \in DOMAIN p.contested : <<"contested", c>> \in K
    BY DEF Keys
  <2> HIDE DEF K, least, chosen
  <2> QED BY <2>1
<1>3. LaneWorld(p, lane) = Built(K, imp, low)
  <2> DEFINE e(c) == Observed(<<"contested", c>>, p.weight[c],
                              Conservative({lane.contested[c][side] :
                                  side \in {s \in Alternatives : p.contested[c][s] # "none"}}))
             f(c) == Observed(<<"contested", c>>, p.weight[c], least[c])
  <2>1. LaneWorld(p, lane) = OrdinaryWorld(p.common, lane) \cup {e(c) : c \in DOMAIN p.contested}
    BY DEF LaneWorld
  <2>2. \A c \in DOMAIN p.contested : e(c) = f(c)
    OBVIOUS
  <2>3. {e(c) : c \in DOMAIN p.contested} = {f(c) : c \in DOMAIN p.contested}
    <3> HIDE DEF e, f
    <3> QED BY <2>2
  <2>4. OrdinaryWorld(p.common, lane) \cup {f(c) : c \in DOMAIN p.contested} = Built(K, imp, low)
    <3> DEFINE S == {f(c) : c \in DOMAIN p.contested}
    <3> HIDE DEF least, K, imp, low, high
    <3>0. \A c \in DOMAIN p.contested : f(c) = Observed(<<"contested", c>>, imp[<<"contested", c>>], low[<<"contested", c>>])
      BY <1>5
    <3> HIDE DEF f
    <3>1. /\ \A o \in S : \E c \in DOMAIN p.contested :
              o = Observed(<<"contested", c>>, imp[<<"contested", c>>], low[<<"contested", c>>])
          /\ \A c \in DOMAIN p.contested :
              Observed(<<"contested", c>>, imp[<<"contested", c>>], low[<<"contested", c>>]) \in S
      BY <3>0
    <3>3. \A r \in DOMAIN p.common : /\ imp[<<"requirement", r>>] = p.common[r]
                                     /\ low[<<"requirement", r>>] = lane.ordinary[r]
      BY <1>5
    <3> HIDE DEF S
    <3>4. Keyed(p, lane, imp, low, S)
      BY <3>1, <3>3 DEF Keyed
    <3>2. With(p, lane, S) = Built(Keys(p), imp, low)
      BY <3>4, WorldIsBuilt
    <3> QED BY <3>2 DEF S, K, With
  <2> HIDE DEF e, f
  <2> QED BY <2>1, <2>3, <2>4
<1>4. World(p.common, p.contested, lane, choice) = Built(K, imp, high)
  <2> DEFINE e(c) == Observed(<<"contested", c>>, p.contested[c][choice[c]], lane.contested[c][choice[c]])
             f(c) == Observed(<<"contested", c>>, p.weight[c], chosen[c])
  <2>1. {d \in DOMAIN p.contested : p.contested[d][choice[d]] # "none"} = DOMAIN p.contested
    BY <1>1
  <2>2. World(p.common, p.contested, lane, choice)
          = OrdinaryWorld(p.common, lane) \cup {e(c) : c \in DOMAIN p.contested}
    BY <2>1 DEF World
  <2>3. \A c \in DOMAIN p.contested : e(c) = f(c)
    BY <1>1
  <2>4. {e(c) : c \in DOMAIN p.contested} = {f(c) : c \in DOMAIN p.contested}
    <3> HIDE DEF e, f
    <3> QED BY <2>3
  <2>5. OrdinaryWorld(p.common, lane) \cup {f(c) : c \in DOMAIN p.contested} = Built(K, imp, high)
    <3> DEFINE S == {f(c) : c \in DOMAIN p.contested}
    <3> HIDE DEF chosen, K, imp, low, high
    <3>0. \A c \in DOMAIN p.contested : f(c) = Observed(<<"contested", c>>, imp[<<"contested", c>>], high[<<"contested", c>>])
      BY <1>5
    <3> HIDE DEF f
    <3>1. /\ \A o \in S : \E c \in DOMAIN p.contested :
              o = Observed(<<"contested", c>>, imp[<<"contested", c>>], high[<<"contested", c>>])
          /\ \A c \in DOMAIN p.contested :
              Observed(<<"contested", c>>, imp[<<"contested", c>>], high[<<"contested", c>>]) \in S
      BY <3>0
    <3>3. \A r \in DOMAIN p.common : /\ imp[<<"requirement", r>>] = p.common[r]
                                     /\ high[<<"requirement", r>>] = lane.ordinary[r]
      BY <1>5
    <3> HIDE DEF S
    <3>4. Keyed(p, lane, imp, high, S)
      BY <3>1, <3>3 DEF Keyed
    <3>2. With(p, lane, S) = Built(Keys(p), imp, high)
      BY <3>4, WorldIsBuilt
    <3> QED BY <3>2 DEF S, K, With
  <2> HIDE DEF e, f
  <2> QED BY <2>2, <2>4, <2>5
<1>0. \A k \in K : \/ k[1] = "requirement" /\ k[2] \in DOMAIN p.common
                   \/ k[1] # "requirement" /\ k[2] \in DOMAIN p.contested
  BY DEF Keys
<1>6. /\ imp \in [K -> Importances] /\ low \in [K -> Grades] /\ high \in [K -> Grades]
      /\ \A k \in K : Rank[low[k]] <= Rank[high[k]]
  <2>1. /\ \A r \in DOMAIN p.common : p.common[r] \in Importances /\ lane.ordinary[r] \in Grades
    BY DEF PackageShape, LaneShape
  <2> HIDE DEF K, least, chosen
  <2>2. \A k \in K : /\ imp[k] \in Importances /\ low[k] \in Grades /\ high[k] \in Grades
                     /\ Rank[low[k]] <= Rank[high[k]]
    BY <1>1, <1>2, <1>0, <2>1, Ranks
  <2> QED BY <2>2
<1>7. IsFiniteSet(K)
  BY KeysFinite
<1> HIDE DEF K, imp, low, high
<1>8. CoversTenths(Built(K, imp, high), 7)
  BY <1>3, <1>6, <1>7, BetterCovers
<1> QED BY <1>4, <1>8

(* A delivered report covers seven tenths in every lane and every world, of
   any finite baseline whose alternatives weigh what their contests weigh.
   (_lane_fraction) *)
THEOREM DeliveryIsCovered == Spec => []DeliveredMeansCovered
<1>1. ReviewInv => DeliveredMeansCovered
  <2> DEFINE p == case.package
  <2> SUFFICES ASSUME ReviewInv, result.tier \in Deliverable,
                      \A c \in DOMAIN p.contested, side \in Alternatives : p.contested[c][side] = p.weight[c],
                      NEW l \in 1..2, NEW choice \in [DOMAIN p.contested -> Alternatives]
               PROVE  CoversTenths(World(p.common, p.contested, grades[l], choice), 7)
    BY DEF DeliveredMeansCovered
  <2>1. Len(grades) = 2 /\ CoversTenths(LaneWorld(p, grades[l]), 7)
    BY Delivered, RunDelivered, DeliverableMeans
  <2>2. PackageShape(p) /\ LaneShape(p, grades[l])
    BY <2>1, GradesAreLanes
  <2> HIDE DEF p
  <2> QED BY <2>1, <2>2, EveryWorldCovers
<1> QED BY <1>1, ReviewInvariant, PTL

(***************************************************************************)
(* One contest more.                                                       *)
(***************************************************************************)
Plus(W, k, i, g) == W \cup {Observed(k, i, g)}

LEMMA PlusCounts ==
    ASSUME NEW W, WorldShape(W), NEW k, \A o \in W : o.item # k,
           NEW i \in Importances, NEW g \in Grades
    PROVE  /\ WorldShape(Plus(W, k, i, g))
           /\ \A j \in Importances :
                /\ HalfCredits(W, j) \in Nat /\ Count(W, j) \in Nat
                /\ HalfCredits(Plus(W, k, i, g), j) = HalfCredits(W, j) + IF i = j THEN HalfUnits[g] ELSE 0
                /\ Count(Plus(W, k, i, g), j) = Count(W, j) + IF i = j THEN 1 ELSE 0
<1> DEFINE x == Observed(k, i, g)
           V == Plus(W, k, i, g)
<1>1. x.item = k /\ x.importance = i /\ x.grade = g
  BY DEF Observed
<1>2. V = W \cup {x} /\ x \in V /\ V \ {x} = W
  BY <1>1 DEF Plus
<1>3. WorldShape(V)
  <2>1. IsFiniteSet(V)
    <3> HIDE DEF x, V
    <3> QED BY <1>2, FS_AddElement DEF WorldShape
  <2> HIDE DEF x, V
  <2> QED BY <1>1, <1>2, <2>1 DEF WorldShape
<1> HIDE DEF x, V
<1>4. ASSUME NEW j \in Importances
      PROVE  /\ HalfCredits(W, j) \in Nat /\ Count(W, j) \in Nat
             /\ HalfCredits(V, j) = HalfCredits(W, j) + IF i = j THEN HalfUnits[g] ELSE 0
             /\ Count(V, j) = Count(W, j) + IF i = j THEN 1 ELSE 0
  <2>1. /\ HalfCredits(V \ {x}, j) \in Nat /\ Count(V \ {x}, j) \in Nat
        /\ HalfCredits(V, j) = HalfCredits(V \ {x}, j) + IF x.importance = j THEN HalfUnits[x.grade] ELSE 0
        /\ Count(V, j) = Count(V \ {x}, j) + IF x.importance = j THEN 1 ELSE 0
    BY <1>2, <1>3, CountWithout
  <2> QED BY <1>1, <1>2, <2>1
<1> QED BY <1>3, <1>4 DEF V

LEMMA PlusAddsUp ==
    ASSUME NEW W, WorldShape(W), NEW k, \A o \in W : o.item # k,
           NEW i \in Importances, NEW g \in Grades
    PROVE  /\ HalfCredited(W) \in Nat /\ Total(W) \in Nat
           /\ HalfCredited(Plus(W, k, i, g)) = HalfCredited(W) + Weight[i] * HalfUnits[g]
           /\ Total(Plus(W, k, i, g)) = Total(W) + Weight[i]
<1> DEFINE V == Plus(W, k, i, g)
           h == HalfUnits[g]
<1>1. \A j \in Importances :
                /\ HalfCredits(W, j) \in Nat /\ Count(W, j) \in Nat
                /\ HalfCredits(V, j) = HalfCredits(W, j) + IF i = j THEN h ELSE 0
                /\ Count(V, j) = Count(W, j) + IF i = j THEN 1 ELSE 0
  BY PlusCounts
<1>2. h \in {0, 1, 2}
  BY Units
<1> HIDE DEF V, h
<1>6. /\ HalfCredited(W) \in Nat /\ Total(W) \in Nat
      /\ HalfCredited(V) = HalfCredited(W) + Weight[i] * h
      /\ Total(V) = Total(W) + Weight[i]
  <2>1. CASE i = "critical"
    BY <1>1, <1>2, <2>1, Units DEF HalfCredited, Total, Importances
  <2>2. CASE i = "material"
    BY <1>1, <1>2, <2>2, Units DEF HalfCredited, Total, Importances
  <2>3. CASE i = "supporting"
    BY <1>1, <1>2, <2>3, Units DEF HalfCredited, Total, Importances
  <2> QED BY <2>1, <2>2, <2>3 DEF Importances
<1> QED BY <1>6 DEF V, h

(* What passes. *)
AllGraded(W) == \A o \in W : o.grade # "uncertain"

LEMMA PassIs ==
    ASSUME NEW W, WorldShape(W)
    PROVE  /\ Score(W).disposition \in {"PASS", "FAIL", "INCONCLUSIVE"}
           /\ Score(W).disposition = "INCONCLUSIVE" <=> ~AllGraded(W)
           /\ Score(W).disposition = "PASS" <=>
                /\ AllGraded(W)
                /\ HalfCredits(W, "critical") >= 2 * Count(W, "critical")
                /\ 10 * HalfCredited(W) >= 18 * Total(W)
           /\ HalfCredits(W, "critical") <= 2 * Count(W, "critical")
<1>1. /\ HalfCredits(W, "critical") \in Nat /\ Count(W, "critical") \in Nat
      /\ HalfCredits(W, "critical") <= 2 * Count(W, "critical")
  BY CriticalSums
<1>2. HalfCredited(W) \in Nat /\ Total(W) \in Nat
  BY SumsOfWorld, SumsCount
<1>3. CriticalBelowFloor(W) <=> ~(HalfCredits(W, "critical") >= 2 * Count(W, "critical"))
  BY <1>1 DEF CriticalBelowFloor
<1>4. CoverageBelowFloor(W) <=> ~(10 * HalfCredited(W) >= 18 * Total(W))
  BY <1>2 DEF CoverageBelowFloor
<1> QED BY <1>1, <1>3, <1>4, ScoreIs DEF AllGraded

LEMMA OneMoreItem ==
    ASSUME NEW W, WorldShape(W), NEW k, \A o \in W : o.item # k,
           NEW i \in Importances, NEW g \in Grades, NEW h \in Grades
    PROVE  /\ Score(Plus(W, k, i, g)).disposition # "INCONCLUSIVE" => g # "uncertain"
           /\ g # "met" /\ Score(Plus(W, k, i, g)).disposition = "PASS" => Score(W).disposition = "PASS"
           /\ g = "met" /\ Score(W).disposition = "PASS" => Score(Plus(W, k, i, g)).disposition = "PASS"
           /\ /\ Score(Plus(W, k, i, g)).disposition = "FAIL"
              /\ Rank[h] <= Rank[g] /\ h # "uncertain"
              => Score(Plus(W, k, i, h)).disposition = "FAIL"
<1> DEFINE V == Plus(W, k, i, g)
           U == Plus(W, k, i, h)
           w == Weight[i]
           a == HalfUnits[g]
           b == HalfUnits[h]
<1>1. WorldShape(V) /\ WorldShape(U)
  BY PlusCounts
<1>2. /\ AllGraded(V) <=> AllGraded(W) /\ g # "uncertain"
      /\ AllGraded(U) <=> AllGraded(W) /\ h # "uncertain"
  <2>1. ASSUME NEW q \in Grades
        PROVE  AllGraded(Plus(W, k, i, q)) <=> (AllGraded(W) /\ q # "uncertain")
    <3> DEFINE x == Observed(k, i, q)
    <3>1. x.grade = q
      BY DEF Observed
    <3>2. Plus(W, k, i, q) = W \cup {x}
      BY DEF Plus
    <3> HIDE DEF x
    <3> QED BY <3>1, <3>2 DEF AllGraded
  <2> QED BY <2>1
<1>3. /\ w \in {1, 2, 3} /\ a \in {0, 1, 2} /\ b \in {0, 1, 2}
      /\ i = "critical" => w = 3
      /\ g = "met" => a = 2
      /\ g # "met" => a \in {0, 1}
      /\ Rank[h] <= Rank[g] => b <= a
  BY Units, Ranks DEF Grades
<1>4. /\ HalfCredits(W, "critical") \in Nat /\ Count(W, "critical") \in Nat
      /\ HalfCredits(V, "critical") = HalfCredits(W, "critical") + IF i = "critical" THEN a ELSE 0
      /\ Count(V, "critical") = Count(W, "critical") + IF i = "critical" THEN 1 ELSE 0
      /\ HalfCredits(U, "critical") = HalfCredits(W, "critical") + IF i = "critical" THEN b ELSE 0
      /\ Count(U, "critical") = Count(W, "critical") + IF i = "critical" THEN 1 ELSE 0
  BY PlusCounts DEF Importances
<1>5. /\ HalfCredited(W) \in Nat /\ Total(W) \in Nat
      /\ HalfCredited(V) = HalfCredited(W) + w * a /\ Total(V) = Total(W) + w
      /\ HalfCredited(U) = HalfCredited(W) + w * b /\ Total(U) = Total(W) + w
  BY PlusAddsUp
<1> HIDE DEF V, U, w, a, b
<1>6. Score(V).disposition # "INCONCLUSIVE" => g # "uncertain"
  BY <1>1, <1>2, PassIs
<1>7. ASSUME g # "met", Score(V).disposition = "PASS"
      PROVE  Score(W).disposition = "PASS"
  <2>1. /\ AllGraded(V) /\ HalfCredits(V, "critical") >= 2 * Count(V, "critical")
        /\ 10 * HalfCredited(V) >= 18 * Total(V)
    BY <1>1, <1>7, PassIs
  <2>2. HalfCredits(W, "critical") <= 2 * Count(W, "critical")
    BY PassIs
  <2>3. HalfCredits(W, "critical") >= 2 * Count(W, "critical")
    BY <1>3, <1>4, <1>7, <2>1, <2>2
  <2>4. w * a <= w /\ w * a \in Nat
    BY <1>3, <1>7
  <2>5. 10 * HalfCredited(W) >= 18 * Total(W)
    BY <1>3, <1>5, <2>1, <2>4
  <2> QED BY <1>2, <2>1, <2>3, <2>5, PassIs
<1>8. ASSUME g = "met", Score(W).disposition = "PASS"
      PROVE  Score(V).disposition = "PASS"
  <2>1. /\ AllGraded(W) /\ HalfCredits(W, "critical") >= 2 * Count(W, "critical")
        /\ 10 * HalfCredited(W) >= 18 * Total(W)
    BY <1>8, PassIs
  <2>2. HalfCredits(V, "critical") >= 2 * Count(V, "critical")
    BY <1>3, <1>4, <1>8, <2>1
  <2>3. w * a = 2 * w
    BY <1>3, <1>8
  <2>4. 10 * HalfCredited(V) >= 18 * Total(V)
    BY <1>3, <1>5, <2>1, <2>3
  <2> QED BY <1>1, <1>2, <1>8, <2>1, <2>2, <2>4, PassIs
<1>9. ASSUME Score(V).disposition = "FAIL", Rank[h] <= Rank[g], h # "uncertain"
      PROVE  Score(U).disposition = "FAIL"
  <2>1. /\ AllGraded(V)
        /\ HalfCredits(V, "critical") < 2 * Count(V, "critical") \/ 10 * HalfCredited(V) < 18 * Total(V)
    <3>1. /\ HalfCredits(V, "critical") \in Nat /\ Count(V, "critical") \in Nat
          /\ HalfCredited(V) \in Nat /\ Total(V) \in Nat
      BY <1>1, SumsOfWorld, SumsCount, CriticalSums
    <3>2. /\ AllGraded(V)
          /\ ~(HalfCredits(V, "critical") >= 2 * Count(V, "critical")) \/ ~(10 * HalfCredited(V) >= 18 * Total(V))
      BY <1>1, <1>9, PassIs
    <3> QED BY <3>1, <3>2
  <2>2. AllGraded(U)
    BY <1>2, <1>9, <2>1
  <2>3. w * b <= w * a /\ w * b \in Nat /\ w * a \in Nat
    BY <1>3, <1>9
  <2>4. ~(HalfCredits(U, "critical") >= 2 * Count(U, "critical")) \/ ~(10 * HalfCredited(U) >= 18 * Total(U))
    <3>1. CASE HalfCredits(V, "critical") < 2 * Count(V, "critical")
      BY <1>3, <1>4, <1>9, <3>1
    <3>2. CASE 10 * HalfCredited(V) < 18 * Total(V)
      BY <1>3, <1>5, <2>3, <3>2
    <3> QED BY <2>1, <3>1, <3>2
  <2> QED BY <1>1, <2>2, <2>4, PassIs
<1> QED BY <1>6, <1>7, <1>8, <1>9 DEF V, U

(***************************************************************************)
(* What the handoff recomputes.                                            *)
(***************************************************************************)
LEMMA OneContestWorlds ==
    ASSUME NEW p, PackageShape(p), NEW lane, LaneShape(p, lane),
           NEW c, DOMAIN p.contested = {c}
    PROVE  /\ \A side \in Alternatives :
                /\ p.contested[c][side] = "none" =>
                    World(p.common, p.contested, lane, Always(p.contested, side))
                      = OrdinaryWorld(p.common, lane)
                /\ p.contested[c][side] # "none" =>
                    World(p.common, p.contested, lane, Always(p.contested, side))
                      = Plus(OrdinaryWorld(p.common, lane), <<"contested", c>>,
                             p.contested[c][side], lane.contested[c][side])
           /\ RowWorld(p, lane) =
                Plus(OrdinaryWorld(p.common, lane), <<"contested", c>>, p.weight[c],
                     Conservative({lane.contested[c][side] : side \in Alternatives}))
<1> DEFINE W == OrdinaryWorld(p.common, lane)
<1>1. ASSUME NEW side \in Alternatives
      PROVE  World(p.common, p.contested, lane, Always(p.contested, side)) =
               IF p.contested[c][side] = "none" THEN W
               ELSE Plus(W, <<"contested", c>>, p.contested[c][side], lane.contested[c][side])
  <2> DEFINE choice == Always(p.contested, side)
             I == {d \in DOMAIN p.contested : p.contested[d][choice[d]] # "none"}
             ob(d) == Observed(<<"contested", d>>, p.contested[d][choice[d]], lane.contested[d][choice[d]])
  <2>1. choice[c] = side
    BY DEF Always
  <2>2. World(p.common, p.contested, lane, choice) = W \cup {ob(d) : d \in I}
    BY DEF World
  <2>3. ob(c) = Observed(<<"contested", c>>, p.contested[c][side], lane.contested[c][side])
    BY <2>1
  <2>4. I = IF p.contested[c][side] = "none" THEN {} ELSE {c}
    BY <2>1
  <2> HIDE DEF choice, I, ob, W
  <2>5. {ob(d) : d \in I} = IF p.contested[c][side] = "none" THEN {} ELSE {ob(c)}
    BY <2>4
  <2> QED BY <2>2, <2>3, <2>5 DEF Plus, choice
<1>2. RowWorld(p, lane) = Plus(W, <<"contested", c>>, p.weight[c],
                               Conservative({lane.contested[c][side] : side \in Alternatives}))
  <2> DEFINE ob(d) == Observed(<<"contested", d>>, p.weight[d],
                               RowGrade(lane, Identity("contested_requirement", d, "none")))
  <2>1. RowWorld(p, lane) = W \cup {ob(d) : d \in DOMAIN p.contested}
    BY DEF RowWorld
  <2>2. RowGrade(lane, Identity("contested_requirement", c, "none"))
          = Conservative({lane.contested[c][side] : side \in Alternatives})
    BY DEF RowGrade, Identity
  <2>3. ob(c) = Observed(<<"contested", c>>, p.weight[c],
                         Conservative({lane.contested[c][side] : side \in Alternatives}))
    BY <2>2
  <2> HIDE DEF ob, W
  <2>4. {ob(d) : d \in DOMAIN p.contested} = {ob(c)}
    OBVIOUS
  <2> QED BY <2>1, <2>3, <2>4 DEF Plus
<1> QED BY <1>1, <1>2

LEMMA NoContestWorlds ==
    ASSUME NEW p, NEW lane, DOMAIN p.contested = {}, NEW side
    PROVE  World(p.common, p.contested, lane, Always(p.contested, side)) = OrdinaryWorld(p.common, lane)
BY DEF World

(* A single contest that decides against the ordinary requirements, however
   it is settled, decides the rows alike. *)
LEMMA RowsFollowContest ==
    ASSUME NEW p, PackageShape(p), NEW lane, LaneShape(p, lane),
           NEW c, DOMAIN p.contested = {c},
           NEW v \in {"PASS", "FAIL"},
           \A side \in Alternatives :
               Score(World(p.common, p.contested, lane, Always(p.contested, side))).disposition = v,
           Score(OrdinaryWorld(p.common, lane)).disposition \in {"PASS", "FAIL"} \ {v}
    PROVE  Score(RowWorld(p, lane)).disposition = v
<1> DEFINE W == OrdinaryWorld(p.common, lane)
           k == <<"contested", c>>
           S == {lane.contested[c][side] : side \in Alternatives}
           low == Conservative(S)
<1>1. WorldShape(W) /\ \A o \in W : o.item # k
  <2>1. \A o \in W : o.item # k
    BY DEF OrdinaryWorld, Observed
  <2> QED BY <2>1, OrdinaryShape
<1>2. \A side \in Alternatives :
         /\ p.contested[c][side] # "none" /\ p.contested[c][side] \in Importances
         /\ lane.contested[c][side] \in Grades
         /\ Score(Plus(W, k, p.contested[c][side], lane.contested[c][side])).disposition = v
  <2> SUFFICES ASSUME NEW side \in Alternatives
               PROVE  /\ p.contested[c][side] # "none" /\ p.contested[c][side] \in Importances
                      /\ lane.contested[c][side] \in Grades
                      /\ Score(Plus(W, k, p.contested[c][side], lane.contested[c][side])).disposition = v
    OBVIOUS
  <2>1. /\ p.contested[c][side] = "none" =>
             World(p.common, p.contested, lane, Always(p.contested, side)) = W
        /\ p.contested[c][side] # "none" =>
             World(p.common, p.contested, lane, Always(p.contested, side))
               = Plus(W, k, p.contested[c][side], lane.contested[c][side])
    BY OneContestWorlds
  <2>2. Score(W).disposition # v
    OBVIOUS
  <2>3. p.contested[c][side] # "none"
    BY <2>1, <2>2
  <2>4. p.contested[c][side] \in Importances \cup {"none"} /\ lane.contested[c][side] \in Grades
    BY DEF PackageShape, LaneShape
  <2> QED BY <2>1, <2>3, <2>4
<1>3. PICK s \in Alternatives : p.contested[c][s] = p.weight[c]
  BY DEF PackageShape
<1>4. S \in SUBSET Grades /\ S # {} /\ lane.contested[c][s] \in S
  BY <1>2 DEF Alternatives
<1>5. low \in S /\ low \in Grades /\ \A g \in S : Rank[low] <= Rank[g]
  <2> HIDE DEF S
  <2> QED BY <1>4, ConservativeIs
<1>6. RowWorld(p, lane) = Plus(W, k, p.weight[c], low)
  BY OneContestWorlds
<1>7. p.weight[c] \in Importances
  BY DEF PackageShape
<1>8. PICK t \in Alternatives : low = lane.contested[c][t]
  BY <1>5
<1> DEFINE g == lane.contested[c][s]
<1>9. /\ g \in Grades /\ Rank[low] <= Rank[g]
      /\ Score(Plus(W, k, p.weight[c], g)).disposition = v
  BY <1>2, <1>3, <1>4, <1>5
<1>10. /\ Score(Plus(W, k, p.contested[c][t], low)).disposition = v
       /\ p.contested[c][t] \in Importances
  BY <1>2, <1>8
<1>11. Score(W).disposition \in {"PASS", "FAIL"} /\ Score(W).disposition # v
  OBVIOUS
<1> HIDE DEF W, k, low, g, S
<1>12. low # "uncertain"
  BY <1>1, <1>5, <1>10, OneMoreItem
<1>13. CASE v = "PASS"
  <2>1. low = "met"
    BY <1>1, <1>5, <1>10, <1>11, <1>13, OneMoreItem
  <2>2. g = "met"
    BY <1>9, <2>1, Ranks DEF Grades
  <2> QED BY <1>6, <1>9, <2>1, <2>2
<1>14. CASE v = "FAIL"
  BY <1>1, <1>5, <1>6, <1>7, <1>9, <1>12, <1>14, OneMoreItem
<1> QED BY <1>13, <1>14

LEMMA RowShape ==
    ASSUME NEW p, PackageShape(p), NEW lane, LaneShape(p, lane), NEW c, DOMAIN p.contested = {c}
    PROVE  WorldShape(RowWorld(p, lane))
<1> DEFINE W == OrdinaryWorld(p.common, lane)
           k == <<"contested", c>>
           S == {lane.contested[c][side] : side \in Alternatives}
<1>1. WorldShape(W) /\ \A o \in W : o.item # k
  <2>1. \A o \in W : o.item # k
    BY DEF OrdinaryWorld, Observed
  <2> QED BY <2>1, OrdinaryShape
<1>2. S \in SUBSET Grades /\ S # {}
  BY DEF LaneShape, Alternatives
<1>3. Conservative(S) \in Grades
  <2> HIDE DEF S
  <2> QED BY <1>2, ConservativeIs
<1>4. p.weight[c] \in Importances
  BY DEF PackageShape
<1>5. RowWorld(p, lane) = Plus(W, k, p.weight[c], Conservative(S))
  BY OneContestWorlds
<1> HIDE DEF W, k, S
<1> QED BY <1>1, <1>3, <1>4, <1>5, PlusCounts

LEMMA MergedIs ==
    ASSUME NEW a, NEW b
    PROVE  MergedDisposition({a, b}) =
             IF LockedScore(a).disposition = LockedScore(b).disposition
             THEN LockedScore(a).disposition ELSE "INCONCLUSIVE"
<1> DEFINE x == LockedScore(a).disposition
           y == LockedScore(b).disposition
           D == {LockedScore(w).disposition : w \in {a, b}}
<1>1. D = {x, y}
  OBVIOUS
<1>2. MergedDisposition({a, b}) = IF Cardinality(D) = 1 THEN CHOOSE d \in D : TRUE ELSE "INCONCLUSIVE"
  BY DEF MergedDisposition
<1> HIDE DEF D, x, y
<1>3. CASE x = y
  <2>1. D = {x}
    BY <1>1, <1>3
  <2>2. Cardinality(D) = 1
    BY <2>1, FS_Singleton
  <2>3. (CHOOSE d \in D : TRUE) = x
    BY <2>1
  <2> QED BY <1>2, <1>3, <2>2, <2>3 DEF x, y
<1>4. CASE x # y
  <2>1. IsFiniteSet({x}) /\ Cardinality({x}) = 1
    BY FS_Singleton
  <2>2. D = {x} \cup {y} /\ y \notin {x}
    BY <1>1, <1>4
  <2>3. Cardinality(D) = 2
    BY <2>1, <2>2, FS_AddElement
  <2> QED BY <1>2, <1>4, <2>3 DEF x, y
<1> QED BY <1>3, <1>4

LEMMA LaneDisposition ==
    ASSUME NEW p, NEW lane
    PROVE  LET r == Score(World(p.common, p.contested, lane, Always(p.contested, "reviewer"))).disposition
               a == Score(World(p.common, p.contested, lane, Always(p.contested, "auditor"))).disposition
           IN  LaneOutcome(p.common, p.contested, lane).disposition = IF r = a THEN r ELSE "INCONCLUSIVE"
<1> DEFINE R == Score(World(p.common, p.contested, lane, Always(p.contested, "reviewer")))
           A == Score(World(p.common, p.contested, lane, Always(p.contested, "auditor")))
           L == LaneOutcome(p.common, p.contested, lane)
<1>1. L = IF "INCONCLUSIVE" \in {R.disposition, A.disposition}
          THEN [disposition |-> "INCONCLUSIVE", reasons |-> Only("BASELINE_EVIDENCE_INSUFFICIENT")]
          ELSE IF R.disposition # A.disposition
          THEN [disposition |-> "INCONCLUSIVE", reasons |-> Only("OUTCOME_SENSITIVE_BASELINE_DISPUTE")]
          ELSE Merge(R, A)
  BY DEF LaneOutcome
<1>2. R.disposition = A.disposition => Merge(R, A).disposition = R.disposition
  BY DEF Merge
<1> HIDE DEF R, A, L
<1>3. L.disposition = IF R.disposition = A.disposition THEN R.disposition ELSE "INCONCLUSIVE"
  <2>1. CASE "INCONCLUSIVE" \in {R.disposition, A.disposition}
    BY <1>1, <2>1
  <2>2. CASE "INCONCLUSIVE" \notin {R.disposition, A.disposition} /\ R.disposition # A.disposition
    BY <1>1, <2>2
  <2>3. CASE "INCONCLUSIVE" \notin {R.disposition, A.disposition} /\ R.disposition = A.disposition
    BY <1>1, <1>2, <2>3
  <2> QED BY <2>1, <2>2, <2>3
<1> QED BY <1>3 DEF R, A, L

(* With at most one contest, the handoff recomputes the strict outcome. *)
LEMMA DispositionIsRecomputed ==
    ASSUME NEW p, PackageShape(p), NEW lanes, LaneShape(p, lanes[1]), LaneShape(p, lanes[2]),
           Cardinality(DOMAIN p.contested) <= 1
    PROVE  DispositionRecomputes(p, lanes, StrictEquivalent(p, lanes[1], lanes[2]).disposition)
<1> DEFINE a == lanes[1]
           b == lanes[2]
           oa == Score(OrdinaryWorld(p.common, a)).disposition
           ob == Score(OrdinaryWorld(p.common, b)).disposition
           la == LaneOutcome(p.common, p.contested, a).disposition
           lb == LaneOutcome(p.common, p.contested, b).disposition
           ordinary == MergedDisposition({OrdinaryWorld(p.common, lanes[l]) : l \in 1..2})
           combined == MergedDisposition({RowWorld(p, lanes[l]) : l \in 1..2})
           fresh == StrictEquivalent(p, a, b).disposition
           w(lane, side) == Score(World(p.common, p.contested, lane, Always(p.contested, side))).disposition
<1>1. ordinary = IF oa = ob THEN oa ELSE "INCONCLUSIVE"
  <2>1. {OrdinaryWorld(p.common, lanes[l]) : l \in 1..2} = {OrdinaryWorld(p.common, a), OrdinaryWorld(p.common, b)}
    OBVIOUS
  <2>2. /\ LockedScore(OrdinaryWorld(p.common, a)) = Score(OrdinaryWorld(p.common, a))
        /\ LockedScore(OrdinaryWorld(p.common, b)) = Score(OrdinaryWorld(p.common, b))
    BY OrdinaryShape, ScoresAgree
  <2> HIDE DEF a, b
  <2> QED BY <2>1, <2>2, MergedIs
<1>2. fresh = IF ordinary = "INCONCLUSIVE" THEN "INCONCLUSIVE"
              ELSE IF la = lb THEN la ELSE "INCONCLUSIVE"
  <2> DEFINE rec == Reconcile(p.common, a, b)
             LA == LaneOutcome(p.common, p.contested, a)
             LB == LaneOutcome(p.common, p.contested, b)
  <2>1. StrictEquivalent(p, a, b) = Sensitivity(p.common, p.contested, a, b)
    BY StrictIsSensitivity
  <2>2. rec.disposition = ordinary
    BY <1>1 DEF Reconcile, Merge
  <2>3. Merge(LA, LB).disposition = IF la = lb THEN la ELSE "INCONCLUSIVE"
    BY DEF Merge
  <2>4. Sensitivity(p.common, p.contested, a, b).disposition =
          IF rec.disposition = "INCONCLUSIVE" THEN rec.disposition ELSE Merge(LA, LB).disposition
    BY DEF Sensitivity, Recorded
  <2> HIDE DEF rec, LA, LB, la, lb, ordinary
  <2> QED BY <2>1, <2>2, <2>3, <2>4
<1>3. /\ la = IF w(a, "reviewer") = w(a, "auditor") THEN w(a, "reviewer") ELSE "INCONCLUSIVE"
      /\ lb = IF w(b, "reviewer") = w(b, "auditor") THEN w(b, "reviewer") ELSE "INCONCLUSIVE"
  BY LaneDisposition
<1>4. /\ oa \in {"PASS", "FAIL", "INCONCLUSIVE"} /\ ob \in {"PASS", "FAIL", "INCONCLUSIVE"}
      /\ w(a, "reviewer") \in {"PASS", "FAIL", "INCONCLUSIVE"} /\ w(b, "reviewer") \in {"PASS", "FAIL", "INCONCLUSIVE"}
  BY ScoreIs
<1>5. DispositionRecomputes(p, lanes, fresh) <=>
        IF ordinary = "INCONCLUSIVE" \/ DOMAIN p.contested = {} THEN fresh = ordinary
        ELSE fresh \in {ordinary, combined, "INCONCLUSIVE"}
  BY DEF DispositionRecomputes
<1>6. CASE ordinary = "INCONCLUSIVE"
  <2> HIDE DEF fresh, ordinary, combined
  <2> QED BY <1>2, <1>5, <1>6 DEF fresh
<1>7. CASE ordinary # "INCONCLUSIVE" /\ DOMAIN p.contested = {}
  <2>1. \A side \in Alternatives : w(a, side) = oa /\ w(b, side) = ob
    BY <1>7, NoContestWorlds
  <2>2. la = oa /\ lb = ob
    BY <1>3, <2>1 DEF Alternatives
  <2> HIDE DEF fresh, ordinary, combined, oa, ob, la, lb
  <2>3. fresh = ordinary
    BY <1>1, <1>2, <1>7, <2>2
  <2> QED BY <1>5, <1>7, <2>3 DEF fresh
<1>8. CASE ordinary # "INCONCLUSIVE" /\ DOMAIN p.contested # {}
  <2>1. PICK c : DOMAIN p.contested = {c}
    <3>1. IsFiniteSet(DOMAIN p.contested) /\ Cardinality(DOMAIN p.contested) \in Nat
      BY FS_CardinalityType DEF PackageShape
    <3>2. Cardinality(DOMAIN p.contested) # 0
      BY <1>8, <3>1, FS_EmptySet
    <3>3. Cardinality(DOMAIN p.contested) = 1
      BY <3>1, <3>2
    <3> QED BY <3>1, <3>3, FS_Singleton
  <2>2. ASSUME fresh # "INCONCLUSIVE", fresh # ordinary
        PROVE  combined = fresh
    <3>1. oa = ob /\ oa = ordinary /\ la = lb /\ fresh = la
      <4> HIDE DEF fresh, ordinary, oa, ob, la, lb
      <4> QED BY <1>1, <1>2, <1>8, <2>2
    <3>2. /\ w(a, "reviewer") = fresh /\ w(a, "auditor") = fresh
          /\ w(b, "reviewer") = fresh /\ w(b, "auditor") = fresh
      <4> HIDE DEF fresh, ordinary, oa, ob, la, lb, w
      <4> QED BY <1>3, <2>2, <3>1
    <3>3. fresh \in {"PASS", "FAIL"} /\ oa \in {"PASS", "FAIL"} \ {fresh} /\ ob \in {"PASS", "FAIL"} \ {fresh}
      <4> HIDE DEF fresh, ordinary, oa, ob, la, lb, w
      <4> QED BY <1>4, <1>8, <2>2, <3>1, <3>2
    <3> DEFINE v == fresh
    <3>4. \A side \in Alternatives : w(a, side) = v /\ w(b, side) = v
      BY <3>2 DEF Alternatives
    <3>5. v \in {"PASS", "FAIL"} /\ oa \in {"PASS", "FAIL"} \ {v} /\ ob \in {"PASS", "FAIL"} \ {v}
      BY <3>3
    <3> HIDE DEF v
    <3>6. Score(RowWorld(p, a)).disposition = v /\ Score(RowWorld(p, b)).disposition = v
      BY <2>1, <3>4, <3>5, RowsFollowContest
    <3>7. LockedScore(RowWorld(p, a)) = Score(RowWorld(p, a)) /\ LockedScore(RowWorld(p, b)) = Score(RowWorld(p, b))
      BY <2>1, RowShape, ScoresAgree
    <3>8. {RowWorld(p, lanes[l]) : l \in 1..2} = {RowWorld(p, a), RowWorld(p, b)}
      OBVIOUS
    <3>9. combined = v
      <4> HIDE DEF a, b
      <4> QED BY <3>6, <3>7, <3>8, MergedIs
    <3> QED BY <3>9 DEF v
  <2> HIDE DEF fresh, ordinary, combined
  <2> QED BY <1>5, <1>8, <2>2 DEF fresh
<1> QED BY <1>6, <1>7, <1>8

(* With nothing that the compiler cannot see, the handoff renders what is
   delivered. *)
LEMMA RowsRecompute ==
    ASSUME NEW p, PackageShape(p), NEW lane, LaneShape(p, lane),
           \A c \in DOMAIN p.contested, side \in Alternatives :
              p.contested[c][side] = "none" =>
                ~(Rank[lane.contested[c][side]]
                    < Rank[lane.contested[c][CHOOSE s \in Alternatives : s # side]])
    PROVE  RowWorld(p, lane) = LaneWorld(p, lane)
<1> DEFINE row(c) == Observed(<<"contested", c>>, p.weight[c],
                              RowGrade(lane, Identity("contested_requirement", c, "none")))
           mat(c) == Observed(<<"contested", c>>, p.weight[c],
                              Conservative({lane.contested[c][side] :
                                  side \in {s \in Alternatives : p.contested[c][s] # "none"}}))
<1>1. \A c \in DOMAIN p.contested : row(c) = mat(c)
  <2> SUFFICES ASSUME NEW c \in DOMAIN p.contested PROVE row(c) = mat(c)
    OBVIOUS
  <2> DEFINE grade(side) == lane.contested[c][side]
             All == {lane.contested[c][side] : side \in Alternatives}
             here == {s \in Alternatives : p.contested[c][s] # "none"}
             Present == {lane.contested[c][side] : side \in here}
  <2>1. RowGrade(lane, Identity("contested_requirement", c, "none")) = Conservative(All)
    BY DEF RowGrade, Identity
  <2>2. /\ All \in SUBSET Grades /\ All # {} /\ Present \in SUBSET All
        /\ \A side \in Alternatives : grade(side) \in Grades
    <3>1. \A side \in Alternatives : grade(side) \in Grades
      BY DEF LaneShape
    <3>2. All \in SUBSET Grades
      BY <3>1
    <3>3. "reviewer" \in Alternatives
      BY DEF Alternatives
    <3>4. All # {}
      BY <3>3
    <3>5. here \subseteq Alternatives
      OBVIOUS
    <3>6. Present \in SUBSET All
      <4> HIDE DEF here
      <4> QED BY <3>5
    <3> HIDE DEF All, Present, grade
    <3> QED BY <3>1, <3>2, <3>4, <3>6
  <2>3. PICK s \in Alternatives : p.contested[c][s] = p.weight[c]
    BY DEF PackageShape
  <2>4. s \in here
    <3>1. p.weight[c] \in Importances
      BY DEF PackageShape
    <3> QED BY <2>3, <3>1 DEF Importances
  <2>5. Present # {}
    <3> HIDE DEF here
    <3>1. grade(s) \in Present
      BY <2>4
    <3> QED BY <3>1
  <2>6. CASE here = Alternatives
    BY <2>1, <2>6
  <2>7. CASE here # Alternatives
    <3>1. PICK t \in Alternatives : p.contested[c][t] = "none"
      BY <2>7
    <3>2. s # t /\ \A q \in Alternatives : q = s \/ q = t
      BY <2>4, <3>1 DEF Alternatives
    <3>3. (CHOOSE q \in Alternatives : q # t) = s
      BY <3>2
    <3>4. ~(Rank[grade(t)] < Rank[grade(s)])
      BY <3>1, <3>3
    <3>5. here = {s}
      BY <2>4, <3>1, <3>2
    <3>6. Present = {grade(s)} /\ All = {grade(s), grade(t)}
      BY <3>2, <3>5
    <3>7. grade(s) \in Grades /\ grade(t) \in Grades
      BY <2>2
    <3> HIDE DEF All, Present, here, grade
    <3>8. Rank[grade(s)] <= Rank[grade(t)]
      BY <3>4, <3>7, Ranks
    <3>9. Conservative(Present) = grade(s)
      BY <2>2, <2>5, <3>6, ConservativeIs
    <3>10. Conservative(All) = grade(s)
      <4>1. Conservative(All) \in All /\ Rank[Conservative(All)] <= Rank[grade(s)]
        BY <2>2, <3>6, ConservativeIs
      <4> QED BY <3>6, <3>7, <3>8, <4>1, Ranks
    <3>11. Conservative(All) = Conservative(Present)
      BY <3>9, <3>10
    <3> QED BY <2>1, <3>11 DEF Present, here
  <2> QED BY <2>6, <2>7
<1>2. /\ RowWorld(p, lane) = OrdinaryWorld(p.common, lane) \cup {row(c) : c \in DOMAIN p.contested}
      /\ LaneWorld(p, lane) = OrdinaryWorld(p.common, lane) \cup {mat(c) : c \in DOMAIN p.contested}
  BY DEF RowWorld, LaneWorld
<1> HIDE DEF row, mat
<1> QED BY <1>1, <1>2

LEMMA RowsRender ==
    ASSUME NEW p, PackageShape(p), NEW g, NEW first, NEW second, NEW d,
           LET kept == Reconciled(first, second, d)
           IN  /\ ReconcileBlockers(p, first, second, d) = {}
               /\ GapBlockers(p, kept, StrictEquivalent(p, g[1], g[2])) = {}
               /\ \A id \in DOMAIN kept :
                    /\ RecordShape(kept[id])
                    /\ p.contract = "v2" => kept[id].location # "elsewhere"
    PROVE  \A id \in DOMAIN Reconciled(first, second, d) :
              RowRenders(p, id, Reconciled(first, second, d)[id])
<1> DEFINE kept == Reconciled(first, second, d)
<1> SUFFICES ASSUME NEW id \in DOMAIN kept PROVE RowRenders(p, id, kept[id])
  OBVIOUS
<1>1. /\ RecordShape(kept[id])
      /\ p.contract = "v2" => kept[id].location # "elsewhere"
      /\ ReconcileBlockers(p, first, second, d) = {}
      /\ GapBlockers(p, kept, StrictEquivalent(p, g[1], g[2])) = {}
  OBVIOUS
<1>2. kept[id].blocking = "none" /\ ~(IsFinding(id) /\ FindingBlocks(p, id.kind))
  BY <1>1, SurvivorsBlock
<1>3. ~Undisclosed(p, id, kept[id]) /\ ~CriticalUnsafe(p, id, kept[id])
  <2> DEFINE of(i) == {c \in {"HIDDEN_MATERIAL_GAP"} : Undisclosed(p, i, kept[i])}
                      \cup {c \in {"CRITICAL_DISCLOSURE_INVALID"} : CriticalUnsafe(p, i, kept[i])}
  <2> HIDE DEF kept
  <2>1. (UNION {of(i) : i \in DOMAIN kept}) \subseteq GapBlockers(p, kept, StrictEquivalent(p, g[1], g[2]))
    BY DEF GapBlockers
  <2>2. of(id) \subseteq UNION {of(i) : i \in DOMAIN kept}
    <3> HIDE DEF of
    <3> QED OBVIOUS
  <2>3. of(id) = {}
    <3> HIDE DEF of
    <3> QED BY <1>1, <2>1, <2>2
  <2> QED BY <2>3
<1>4. p.contract \in {"v2", "v3"}
  BY DEF PackageShape
<1> HIDE DEF kept
<1>5. CASE p.contract = "v3"
  BY <1>2, <1>3, <1>5 DEF RowRenders, Undisclosed, FindingBlocks
<1>6. CASE p.contract = "v2"
  BY <1>1, <1>2, <1>3, <1>6 DEF RowRenders, Undisclosed, RecordShape
<1> QED BY <1>4, <1>5, <1>6

LEMMA KeptIsSubmitted ==
    ASSUME NEW first, NEW second, NEW d, NEW id \in DOMAIN Reconciled(first, second, d)
    PROVE  \/ id \in DOMAIN first /\ Reconciled(first, second, d)[id] = first[id]
           \/ id \in DOMAIN second /\ Reconciled(first, second, d)[id] = second[id]
<1>1. KeptFrom(first, second, d, id) \in {first, second}
  BY DEF KeptFrom
<1>2. id \in DOMAIN KeptFrom(first, second, d, id)
  BY DEF Reconciled
<1>3. Reconciled(first, second, d)[id] = KeptFrom(first, second, d, id)[id]
  BY DEF Reconciled
<1> QED BY <1>1, <1>2, <1>3

LEMMA KeptByBoth ==
    ASSUME NEW first, NEW second, NEW d, NEW id, id \in DOMAIN first, id \in DOMAIN second
    PROVE  id \in DOMAIN Reconciled(first, second, d)
<1>1. KeptFrom(first, second, d, id) \in {first, second}
  BY DEF KeptFrom
<1>2. id \in DOMAIN KeptFrom(first, second, d, id)
  BY <1>1
<1> QED BY <1>2 DEF Reconciled

LEMMA SafetyLaneIs ==
    ASSUME NEW c, NEW candidates, NEW lane \in SafetyLanes(c, candidates)
    PROVE  candidates \subseteq DOMAIN lane /\ \A id \in DOMAIN lane : lane[id] \in c.records
<1>1. PICK found \in SUBSET c.findings : lane \in [candidates \cup found -> c.records]
  BY DEF SafetyLanes
<1> QED BY <1>1

LEMMA RaisingIsUnlisted ==
    ASSUME NEW first, NEW second, ReconcileRaises(first, second)
    PROVE  UnlistedCode(first) \/ UnlistedCode(second)
<1> DEFINE R1 == {first[id] : id \in DOMAIN first}
           R2 == {second[id] : id \in DOMAIN second}
<1>1. ~(Codes(R1 \cup R2) \subseteq BlockingCodes)
  BY DEF ReconcileRaises
<1>2. (UnlistedCode(first) <=> ~(Codes(R1) \subseteq BlockingCodes))
      /\ (UnlistedCode(second) <=> ~(Codes(R2) \subseteq BlockingCodes))
  BY DEF UnlistedCode
<1> HIDE DEF R1, R2
<1>3. Codes(R1 \cup R2) = Codes(R1) \cup Codes(R2)
  BY DEF Codes
<1> QED BY <1>1, <1>2, <1>3

LEMMA GapsHaveRows ==
    ASSUME NEW p, NEW g, NEW first, NEW second, NEW d,
           Candidates(p, g[1], g[2]) \subseteq DOMAIN first,
           Candidates(p, g[1], g[2]) \subseteq DOMAIN second,
           \A r \in p.gaps, l \in 1..2 : g[l].ordinary[r] = "met"
    PROVE  RowsCoverRequirements(p, g, Reconciled(first, second, d))
<1> DEFINE kept == Reconciled(first, second, d)
<1> SUFFICES ASSUME NEW r \in DOMAIN p.common
             PROVE  /\ {g[l].ordinary[r] : l \in 1..2} # {"met"} =>
                        Identity("requirement", r, "none") \in DOMAIN kept
                    /\ r \in p.gaps => Identity("baseline_gap", r, "none") \in DOMAIN kept
  BY DEF RowsCoverRequirements
<1>1. r \in p.gaps => Identity("baseline_gap", r, "none") \in Candidates(p, g[1], g[2])
  BY DEF Candidates
<1>2. {g[l].ordinary[r] : l \in 1..2} = {g[1].ordinary[r], g[2].ordinary[r]}
  OBVIOUS
<1>3. {g[1].ordinary[r], g[2].ordinary[r]} # {"met"} =>
        Identity("requirement", r, "none") \in Candidates(p, g[1], g[2])
  <2>1. r \in p.gaps => {g[1].ordinary[r], g[2].ordinary[r]} = {"met"}
    OBVIOUS
  <2> QED BY <2>1 DEF Candidates
<1> QED BY <1>1, <1>2, <1>3, KeptByBoth

(* What the handoff may refuse although the compiler delivers. *)
LEMMA HandoffRefuses ==
    ASSUME NEW p, PackageShape(p), NEW g, LaneShape(p, g[1]), LaneShape(p, g[2]),
           NEW s, NEW d,
           \A l \in 1..2 : \A id \in DOMAIN s[l] :
              /\ RecordShape(s[l][id])
              /\ p.contract = "v2" => s[l][id].location # "elsewhere",
           \A l \in 1..2 : Candidates(p, g[1], g[2]) \subseteq DOMAIN s[l],
           \A r \in p.gaps, l \in 1..2 : g[l].ordinary[r] = "met",
           \A c \in DOMAIN p.contested, side \in Alternatives, l \in 1..2 :
              p.contested[c][side] = "none" =>
                ~(Rank[g[l].contested[c][side]]
                    < Rank[g[l].contested[c][CHOOSE q \in Alternatives : q # side]]),
           Cardinality(DOMAIN p.contested) <= 1
    PROVE  HandoffRenders(p, g, s, d)
<1> DEFINE kept == Reconciled(s[1], s[2], d)
<1> SUFFICES ASSUME Delivery(p, g, s, d).tier \in Deliverable
             PROVE  /\ \A id \in DOMAIN kept : RowRenders(p, id, kept[id])
                    /\ \A l \in 1..2 : ScoresRecompute(p, g[l])
                    /\ DispositionRecomputes(p, g, StrictEquivalent(p, g[1], g[2]).disposition)
                    /\ RowsCoverRequirements(p, g, kept)
  BY DEF HandoffRenders
<1>1. /\ ReconcileBlockers(p, s[1], s[2], d) = {}
      /\ GapBlockers(p, kept, StrictEquivalent(p, g[1], g[2])) = {}
  BY DeliverableMeans
<1>2. \A id \in DOMAIN kept : /\ RecordShape(kept[id])
                              /\ p.contract = "v2" => kept[id].location # "elsewhere"
  <2> SUFFICES ASSUME NEW id \in DOMAIN kept
               PROVE  /\ RecordShape(kept[id])
                      /\ p.contract = "v2" => kept[id].location # "elsewhere"
    OBVIOUS
  <2>1. \/ id \in DOMAIN s[1] /\ kept[id] = s[1][id]
        \/ id \in DOMAIN s[2] /\ kept[id] = s[2][id]
    BY KeptIsSubmitted
  <2> HIDE DEF kept
  <2> QED BY <2>1
<1>3. \A id \in DOMAIN kept : RowRenders(p, id, kept[id])
  BY <1>1, <1>2, RowsRender
<1>4. \A l \in 1..2 : ScoresRecompute(p, g[l])
  <2> SUFFICES ASSUME NEW l \in 1..2 PROVE ScoresRecompute(p, g[l])
    OBVIOUS
  <2>1. LaneShape(p, g[l])
    OBVIOUS
  <2> DEFINE lane == g[l]
  <2>2. /\ LaneShape(p, lane)
        /\ \A c \in DOMAIN p.contested, side \in Alternatives :
              p.contested[c][side] = "none" =>
                ~(Rank[lane.contested[c][side]]
                    < Rank[lane.contested[c][CHOOSE q \in Alternatives : q # side]])
    BY <2>1
  <2> HIDE DEF lane
  <2>3. RowWorld(p, lane) = LaneWorld(p, lane)
    BY <2>2, RowsRecompute
  <2> QED BY <2>3 DEF ScoresRecompute, lane
<1>5. DispositionRecomputes(p, g, StrictEquivalent(p, g[1], g[2]).disposition)
  BY DispositionIsRecomputed
<1>6. RowsCoverRequirements(p, g, kept)
  BY GapsHaveRows
<1> QED BY <1>3, <1>4, <1>5, <1>6

(* Whatever the evaluators answer, an answer that the compiler accepts is
   refused at the end for one of these reasons only.
   (render_attorney_review_handoff_v1) *)
THEOREM RefusalsHaveReasons == Spec => []RefusalsAreKnown
<1>1. ReviewInv => RefusalsAreKnown
  <2> DEFINE p == case.package
             s == refused.safety
             d == refused.decisions
             Unlisted == \E l \in 1..2 : UnlistedCode(s[l])
             Gap == \E r \in p.gaps, l \in 1..2 : grades[l].ordinary[r] # "met"
             Absent == \E c \in DOMAIN p.contested, side \in Alternatives, l \in 1..2 :
                         /\ p.contested[c][side] = "none"
                         /\ Rank[grades[l].contested[c][side]]
                              < Rank[grades[l].contested[c][CHOOSE q \in Alternatives : q # side]]
             Several == Cardinality(DOMAIN p.contested) > 1
             Location == p.contract = "v2" /\ \E l \in 1..2 : \E id \in DOMAIN s[l] :
                           s[l][id].location = "elsewhere"
  <2> SUFFICES ASSUME ReviewInv, refused # Accepted, ~Unlisted, ~Gap, ~Absent, ~Several, ~Location
               PROVE  FALSE
    BY DEF RefusalsAreKnown
  <2>1. /\ Len(grades) = 2 /\ s \in Seq(SafetyLanesNow) /\ Complete(s, d)
        /\ ~TerminalProductsBuild(s, d)
    BY DEF ReviewInv, RefusedInv
  <2>2. PackageShape(p) /\ LaneShape(p, grades[1]) /\ LaneShape(p, grades[2])
    BY <2>1, GradesAreLanes
  <2>3. \A l \in 1..2 : s[l] \in SafetyLanesNow
    <3> DEFINE X == SafetyLanesNow
    <3>1. s \in Seq(X) /\ Len(s) = 2
      BY <2>1 DEF Complete
    <3> HIDE DEF X, s
    <3>2. \A l \in 1..2 : s[l] \in X
      BY ONLY <3>1
    <3> QED BY <3>2 DEF X
  <2>4. \A record \in case.records : RecordShape(record)
    BY CasesAssumption DEF ReviewInv, LanesInv
  <2>5. \A l \in 1..2 : /\ Candidates(p, grades[1], grades[2]) \subseteq DOMAIN s[l]
                        /\ \A id \in DOMAIN s[l] : RecordShape(s[l][id])
    <3> HIDE DEF s
    <3> QED BY <2>3, <2>4, SafetyLaneIs DEF SafetyLanesNow
  <2>6. ~ReconcileRaises(s[1], s[2])
    <3>1. ~UnlistedCode(s[1]) /\ ~UnlistedCode(s[2])
      OBVIOUS
    <3> QED BY <3>1, RaisingIsUnlisted
  <2>7. HandoffRenders(p, grades, s, d)
    <3>1. Cardinality(DOMAIN p.contested) <= 1
      <4>1. Cardinality(DOMAIN p.contested) \in Nat
        BY <2>2, FS_CardinalityType DEF PackageShape
      <4> QED BY <4>1
    <3>2. \A l \in 1..2 : \A id \in DOMAIN s[l] :
             /\ RecordShape(s[l][id])
             /\ p.contract = "v2" => s[l][id].location # "elsewhere"
      BY <2>5
    <3>3. \A r \in p.gaps, l \in 1..2 : grades[l].ordinary[r] = "met"
      OBVIOUS
    <3>4. \A c \in DOMAIN p.contested, side \in Alternatives, l \in 1..2 :
            p.contested[c][side] = "none" =>
              ~(Rank[grades[l].contested[c][side]]
                  < Rank[grades[l].contested[c][CHOOSE q \in Alternatives : q # side]])
      OBVIOUS
    <3>5. \A l \in 1..2 : Candidates(p, grades[1], grades[2]) \subseteq DOMAIN s[l]
      BY <2>5
    <3> HIDE DEF p, s, d, Unlisted, Gap, Absent, Several, Location
    <3> QED BY <2>2, <3>1, <3>2, <3>3, <3>4, <3>5, HandoffRefuses
  <2> QED BY <2>1, <2>6, <2>7 DEF TerminalProductsBuild
<1> QED BY <1>1, ReviewInvariant, PTL
================================================================================
