-------------------------- MODULE ReportOutcome_proofs --------------------------
(***************************************************************************)
(* What a report's outcome promises, for every finite baseline and every   *)
(* grading of it: the properties of ReportOutcome, from lemmas about the   *)
(* scoring of one world.                                                   *)
(***************************************************************************)
EXTENDS ReportOutcome, FiniteSetTheorems, TLAPS

--------------------------------------------------------------------------------
(***************************************************************************)
(* Worlds.                                                                 *)
(***************************************************************************)
ContestedWorld(contested, lane, choice) ==
    {Observed(<<"contested", c>>, contested[c][choice[c]], lane.contested[c][choice[c]])
        : c \in {d \in DOMAIN contested : contested[d][choice[d]] # "none"}}

(* A world a score may be computed of: finite, with one observation an item. *)
Scorable(world) ==
    /\ IsFiniteSet(world)
    /\ \A o \in world : o = Observed(o.item, o.importance, o.grade)
    /\ \A o, p \in world : o.item = p.item => o = p

(* The worlds of a finite baseline are scorable. *)
LEMMA WorldsScorable ==
    ASSUME NEW common, IsFiniteSet(DOMAIN common),
           NEW contested, IsFiniteSet(DOMAIN contested), NEW lane, NEW choice
    PROVE  /\ Scorable(OrdinaryWorld(common, lane))
           /\ Scorable(World(common, contested, lane, choice))
<1> DEFINE ow == OrdinaryWorld(common, lane)
           cw == ContestedWorld(contested, lane, choice)
           cs == {d \in DOMAIN contested : contested[d][choice[d]] # "none"}
<1>1. IsFiniteSet(ow)
  <2> DEFINE f == [r \in DOMAIN common |->
                      Observed(<<"requirement", r>>, common[r], lane.ordinary[r])]
  <2>1. f \in Surjection(DOMAIN common, ow)
    BY DEF Surjection, OrdinaryWorld
  <2> HIDE DEF f, ow
  <2> QED BY <2>1, FS_Surjection
<1>2. IsFiniteSet(cs)
  <2>1. cs \in SUBSET DOMAIN contested
    OBVIOUS
  <2> HIDE DEF cs
  <2> QED BY <2>1, FS_Subset
<1>3. IsFiniteSet(cw)
  <2> DEFINE g == [c \in cs |-> Observed(<<"contested", c>>, contested[c][choice[c]],
                                         lane.contested[c][choice[c]])]
  <2>1. g \in Surjection(cs, cw)
    BY DEF Surjection, ContestedWorld
  <2> HIDE DEF g, cs, cw
  <2> QED BY <1>2, <2>1, FS_Surjection
<1>4. World(common, contested, lane, choice) = ow \cup cw
  BY DEF World, ContestedWorld
<1>5. IsFiniteSet(ow \cup cw)
  <2> HIDE DEF ow, cw
  <2> QED BY <1>1, <1>3, FS_Union
<1>6. \A o \in ow \cup cw : o = Observed(o.item, o.importance, o.grade)
  BY DEF OrdinaryWorld, ContestedWorld, Observed
<1>7. \A o, p \in ow \cup cw : o.item = p.item => o = p
  <2> SUFFICES ASSUME NEW o \in ow \cup cw, NEW p \in ow \cup cw, o.item = p.item
               PROVE  o = p
    OBVIOUS
  <2>1. CASE o \in ow /\ p \in ow
    BY <2>1 DEF OrdinaryWorld, Observed
  <2>2. CASE o \in cw /\ p \in cw
    BY <2>2 DEF ContestedWorld, Observed
  <2>3. \A x \in ow, y \in cw : x.item # y.item
    BY DEF OrdinaryWorld, ContestedWorld, Observed
  <2> HIDE DEF ow, cw
  <2> QED BY <2>1, <2>2, <2>3
<1> HIDE DEF ow, cw
<1> QED BY <1>1, <1>4, <1>5, <1>6, <1>7 DEF Scorable, ow

--------------------------------------------------------------------------------
(***************************************************************************)
(* The score of a world.                                                   *)
(***************************************************************************)
Met(world, i) == {o \in world : o.importance = i /\ o.grade = "met"}
Partial(world, i) == {o \in world : o.importance = i /\ o.grade = "partially_met"}
Of(world, i) == {o \in world : o.importance = i}

(* What a world counts of one importance. *)
LEMMA Counts ==
    ASSUME NEW world, Scorable(world), NEW i
    PROVE  /\ IsFiniteSet(Met(world, i)) /\ IsFiniteSet(Partial(world, i))
           /\ IsFiniteSet(Of(world, i))
           /\ Cardinality(Met(world, i)) \in Nat /\ Cardinality(Partial(world, i)) \in Nat
           /\ Count(world, i) \in Nat /\ Count(world, i) = Cardinality(Of(world, i))
           /\ HalfCredits(world, i) \in Nat
           /\ HalfCredits(world, i)
                = 2 * Cardinality(Met(world, i)) + Cardinality(Partial(world, i))
<1>1. /\ Met(world, i) \in SUBSET world /\ Partial(world, i) \in SUBSET world
      /\ Of(world, i) \in SUBSET world
  BY DEF Met, Partial, Of
<1>2. /\ IsFiniteSet(Met(world, i)) /\ IsFiniteSet(Partial(world, i))
      /\ IsFiniteSet(Of(world, i))
  BY <1>1, FS_Subset DEF Scorable
<1>3. /\ Cardinality(Met(world, i)) \in Nat /\ Cardinality(Partial(world, i)) \in Nat
      /\ Cardinality(Of(world, i)) \in Nat
  BY <1>2, FS_CardinalityType
<1>4. /\ Count(world, i) = Cardinality(Of(world, i))
      /\ HalfCredits(world, i)
                = 2 * Cardinality(Met(world, i)) + Cardinality(Partial(world, i))
  BY DEF Count, HalfCredits, Of, Met, Partial
<1> QED BY <1>2, <1>3, <1>4

(***************************************************************************)
(* Tuples without repetitions, written as their orders.                    *)
(***************************************************************************)
Reflexive(tuple) == \A pair \in tuple : <<pair[1], pair[1]>> \in tuple

LEMMA OnlyOne ==
    ASSUME NEW x
    PROVE  Members(Only(x)) = {x} /\ Reflexive(Only(x)) /\ Members({}) = {} /\ Reflexive({})
  BY DEF Members, Only, Reflexive

(* One tuple after another names what either names. *)
LEMMA ThenBoth ==
    ASSUME NEW s, NEW t, Reflexive(s), Reflexive(t)
    PROVE  Members(Then(s, t)) = Members(s) \cup Members(t) /\ Reflexive(Then(s, t))
<1> DEFINE added == Members(t) \ Members(s)
           late == {pair \in t : pair[1] \in added /\ pair[2] \in added}
           cross == Members(s) \X added
<1>1. Then(s, t) = s \cup cross \cup late
  BY DEF Then
<1>2. \A x \in Members(s) : <<x, x>> \in s
  BY DEF Members, Reflexive
<1>3. \A x \in added : <<x, x>> \in late
  BY DEF Members, Reflexive
<1>4. /\ \A pair \in s : pair[1] \in Members(s)
      /\ \A pair \in cross : pair[1] \in Members(s)
      /\ \A pair \in late : pair[1] \in added
  BY DEF Members
<1>5. \A pair \in Then(s, t) : pair[1] \in Members(s) \cup added
  BY <1>1, <1>4
<1>6. \A x \in Members(s) \cup added : <<x, x>> \in Then(s, t)
  BY <1>1, <1>2, <1>3
<1> HIDE DEF added
<1>7. Members(Then(s, t)) = Members(s) \cup added
  <2>1. ASSUME NEW x \in Members(s) \cup added PROVE x \in Members(Then(s, t))
    <3>1. <<x, x>> \in Then(s, t) /\ <<x, x>>[1] = x
      BY <1>6
    <3> QED BY <3>1 DEF Members
  <2>2. ASSUME NEW x \in Members(Then(s, t)) PROVE x \in Members(s) \cup added
    BY <1>5 DEF Members
  <2> QED BY <2>1, <2>2
<1>8. Reflexive(Then(s, t))
  BY <1>5, <1>6 DEF Reflexive
<1>9. Members(s) \cup added = Members(s) \cup Members(t)
  BY DEF added
<1> QED BY <1>7, <1>8, <1>9

LEMMA SortedNumbers ==
    ASSUME NEW numbers, numbers \subseteq Nat
    PROVE  Members(Sorted(numbers)) = numbers /\ Reflexive(Sorted(numbers))
<1>1. \A n \in numbers : <<n, n>> \in Sorted(numbers)
  BY DEF Sorted
<1>2. \A pair \in Sorted(numbers) : pair[1] \in numbers
  BY DEF Sorted
<1>3. \A n : <<n, n>>[1] = n
  OBVIOUS
<1> QED BY <1>1, <1>2, <1>3 DEF Members, Reflexive

(* A world passes when nothing in it is uncertain and it is below no floor. *)
LEMMA PassingScore ==
    ASSUME NEW world
    PROVE  /\ Score(world).disposition = "PASS" <=>
                /\ \A o \in world : o.grade # "uncertain"
                /\ ~CriticalBelowFloor(world) /\ ~CoverageBelowFloor(world)
           /\ Score(world).disposition = "INCONCLUSIVE" <=> \E o \in world : o.grade = "uncertain"
           /\ Score(world).disposition \in Dispositions
           /\ Members(Score(world).reasons) \subseteq {"GRADE_UNCERTAIN", "CRITICAL_RECALL_BELOW_FLOOR",
                                              "WEIGHTED_COVERAGE_BELOW_FLOOR"}
           /\ Reflexive(Score(world).reasons)
<1> DEFINE critical == OnlyIf("CRITICAL_RECALL_BELOW_FLOOR", CriticalBelowFloor(world))
           coverage == OnlyIf("WEIGHTED_COVERAGE_BELOW_FLOOR", CoverageBelowFloor(world))
           reasons == Then(critical, coverage)
<1>1. /\ critical = {} <=> ~CriticalBelowFloor(world)
      /\ coverage = {} <=> ~CoverageBelowFloor(world)
  BY DEF OnlyIf, Only
<1>2. /\ Reflexive(critical) /\ Members(critical) \subseteq {"CRITICAL_RECALL_BELOW_FLOOR"}
      /\ Reflexive(coverage) /\ Members(coverage) \subseteq {"WEIGHTED_COVERAGE_BELOW_FLOOR"}
  BY OnlyOne DEF OnlyIf
<1> HIDE DEF critical, coverage
<1>3. Reflexive(reasons) /\ Members(reasons) = Members(critical) \cup Members(coverage)
  BY <1>2, ThenBoth
<1> HIDE DEF reasons
<1>4. \A t : t = {} <=> Members(t) = {}
  BY DEF Members
<1>5. reasons = {} <=> ~CriticalBelowFloor(world) /\ ~CoverageBelowFloor(world)
  BY <1>1, <1>3, <1>4
<1>6. CASE \E o \in world : o.grade = "uncertain"
  BY <1>6, OnlyOne DEF Score, Dispositions
<1>7. CASE ~\E o \in world : o.grade = "uncertain"
  <2>1. Score(world) = [disposition |-> IF reasons = {} THEN "PASS" ELSE "FAIL", reasons |-> reasons]
    BY <1>7 DEF Score, reasons, critical, coverage
  <2> QED BY <1>2, <1>3, <1>5, <1>7, <2>1 DEF Dispositions
<1> QED BY <1>6, <1>7

(* In a world that passes, every critical observation is met. *)
LEMMA CriticalsMet ==
    ASSUME NEW world, Scorable(world), Score(world).disposition = "PASS",
           NEW o \in world, o.importance = "critical"
    PROVE  o.grade = "met"
<1> DEFINE m == Met(world, "critical")
           p == Partial(world, "critical")
           a == Of(world, "critical")
<1>1. ~(2 * Cardinality(m) + Cardinality(p) < 2 * Cardinality(a))
  BY PassingScore, Counts DEF CriticalBelowFloor
<1>2. /\ IsFiniteSet(m) /\ IsFiniteSet(p) /\ IsFiniteSet(a)
      /\ Cardinality(m) \in Nat /\ Cardinality(p) \in Nat /\ Cardinality(a) \in Nat
  BY Counts
<1>3. m \cap p = {} /\ m \cup p \in SUBSET a /\ m \in SUBSET a
  BY DEF Met, Partial, Of
<1> HIDE DEF m, p, a
<1>4. Cardinality(m) + Cardinality(p) <= Cardinality(a)
  <2>1. Cardinality(m \cup p) = Cardinality(m) + Cardinality(p) - Cardinality({})
    BY <1>2, <1>3, FS_Union
  <2>2. Cardinality(m \cup p) <= Cardinality(a) /\ Cardinality({}) = 0
    BY <1>2, <1>3, FS_Subset, FS_EmptySet
  <2> QED BY <1>2, <2>1, <2>2
<1>5. Cardinality(a) = Cardinality(m)
  <2>1. Cardinality(m) <= Cardinality(a)
    BY <1>2, <1>3, FS_Subset
  <2> QED BY <1>1, <1>2, <1>4, <2>1
<1>6. a = m
  BY <1>2, <1>3, <1>5, FS_Subset
<1> QED BY <1>6 DEF m, a, Met, Of

(* The world in which one observation is raised to met. *)
RaisedWorld(world, o) == (world \ {o}) \cup {Observed(o.item, o.importance, "met")}

(* Raising one observation counts as many of each importance, and credits no less. *)
LEMMA RaisingCredits ==
    ASSUME NEW world, Scorable(world), NEW o \in world, o.grade # "met", NEW i
    PROVE  /\ Count(RaisedWorld(world, o), i) = Count(world, i)
           /\ HalfCredits(RaisedWorld(world, o), i) \in Nat
           /\ HalfCredits(RaisedWorld(world, o), i) >= HalfCredits(world, i)
<1> DEFINE p == Observed(o.item, o.importance, "met")
           raised == RaisedWorld(world, o)
<1>1. p.item = o.item /\ p.importance = o.importance /\ p.grade = "met"
  BY DEF Observed
<1>2. p \notin world
  BY <1>1 DEF Scorable
<1>3. /\ Count(raised, i) = Cardinality(Of(raised, i))
      /\ HalfCredits(raised, i)
            = 2 * Cardinality(Met(raised, i)) + Cardinality(Partial(raised, i))
  BY DEF Count, HalfCredits, Of, Met, Partial
<1>4. raised = (world \ {o}) \cup {p}
  BY DEF RaisedWorld
<1> HIDE DEF p, raised
<1>5. CASE i # o.importance
  <2>1. /\ Of(raised, i) = Of(world, i) /\ Met(raised, i) = Met(world, i)
        /\ Partial(raised, i) = Partial(world, i)
    BY <1>1, <1>4, <1>5 DEF Of, Met, Partial
  <2> QED BY <1>3, <2>1, Counts DEF raised
<1>6. CASE i = o.importance
  <2>1. Of(raised, i) = (Of(world, i) \ {o}) \cup {p} /\ o \in Of(world, i)
        /\ p \notin Of(world, i) \ {o}
    BY <1>1, <1>2, <1>4, <1>6 DEF Of
  <2>2. Met(raised, i) = Met(world, i) \cup {p} /\ p \notin Met(world, i)
    BY <1>1, <1>2, <1>4, <1>6 DEF Met
  <2>3. Partial(raised, i) = Partial(world, i) \ {o}
    BY <1>1, <1>4 DEF Partial
  <2>4. /\ IsFiniteSet(Of(world, i) \ {o})
        /\ Cardinality(Of(world, i) \ {o}) = Cardinality(Of(world, i)) - 1
    BY <2>1, Counts, FS_RemoveElement
  <2>5. Cardinality(Of(raised, i)) = Cardinality(Of(world, i)) - 1 + 1
    BY <2>1, <2>4, FS_AddElement
  <2>6. Cardinality(Met(raised, i)) = Cardinality(Met(world, i)) + 1
    BY <2>2, Counts, FS_AddElement
  <2>7. IsFiniteSet(Partial(raised, i))
        /\ Cardinality(Partial(raised, i)) >= Cardinality(Partial(world, i)) - 1
    <3> DEFINE q == Partial(world, i)
    <3>1. IsFiniteSet(q) /\ Cardinality(q) \in Nat
      BY Counts
    <3> HIDE DEF q
    <3>2. IsFiniteSet(q \ {o}) /\ Cardinality(q \ {o}) >= Cardinality(q) - 1
      BY <3>1, FS_RemoveElement
    <3> QED BY <2>3, <3>2 DEF q
  <2>8. Cardinality(Partial(raised, i)) \in Nat
    BY <2>7, FS_CardinalityType
  <2> QED BY <1>3, <2>5, <2>6, <2>7, <2>8, Counts DEF raised
<1> QED BY <1>5, <1>6

(* Raising one observation of a world that passes leaves it passing. *)
LEMMA RaisingKeepsPass ==
    ASSUME NEW world, Scorable(world), NEW o \in world, Score(world).disposition = "PASS"
    PROVE  Score(RaisedWorld(world, o)).disposition = "PASS"
<1> DEFINE raised == RaisedWorld(world, o)
<1>1. CASE o.grade = "met"
  <2>1. o = Observed(o.item, o.importance, "met")
    BY <1>1 DEF Scorable
  <2>2. raised = world
    BY <2>1 DEF RaisedWorld
  <2> QED BY <2>2
<1>2. CASE o.grade # "met"
  <2>1. \A x \in raised : x.grade # "uncertain"
    BY PassingScore DEF RaisedWorld, Observed
  <2>2. \A i \in Importances :
            /\ Count(world, i) \in Nat /\ HalfCredits(world, i) \in Nat
            /\ Count(raised, i) = Count(world, i) /\ HalfCredits(raised, i) \in Nat
            /\ HalfCredits(raised, i) >= HalfCredits(world, i)
    BY <1>2, Counts, RaisingCredits
  <2> HIDE DEF raised
  <2>3. ~CriticalBelowFloor(raised)
    BY <2>2, PassingScore DEF CriticalBelowFloor, Importances
  <2>4. ~CoverageBelowFloor(raised)
    <3>1. ~CoverageBelowFloor(world)
      BY PassingScore
    <3> QED BY <2>2, <3>1 DEF CoverageBelowFloor, HalfCredited, Total, Weight, Importances
  <2> QED BY <2>1, <2>3, <2>4, PassingScore DEF raised
<1> QED BY <1>1, <1>2

(* Raising one requirement of a lane raises one observation of each of its worlds. *)
LEMMA RequirementRaised ==
    ASSUME NEW common, NEW contested, NEW choice, NEW r \in DOMAIN common,
           NEW lane, NEW raised, raised.contested = lane.contested,
           lane.ordinary \in [DOMAIN common -> Grades],
           raised.ordinary = [lane.ordinary EXCEPT ![r] = "met"]
    PROVE  LET o == Observed(<<"requirement", r>>, common[r], lane.ordinary[r])
           IN /\ o \in OrdinaryWorld(common, lane)
              /\ OrdinaryWorld(common, raised) = RaisedWorld(OrdinaryWorld(common, lane), o)
              /\ World(common, contested, raised, choice)
                    = RaisedWorld(World(common, contested, lane, choice), o)
<1> DEFINE o == Observed(<<"requirement", r>>, common[r], lane.ordinary[r])
           p == Observed(<<"requirement", r>>, common[r], "met")
           Of1(x) == Observed(<<"requirement", x>>, common[x], lane.ordinary[x])
           Of2(x) == Observed(<<"requirement", x>>, common[x], raised.ordinary[x])
           cw == ContestedWorld(contested, lane, choice)
<1>1. p = Observed(o.item, o.importance, "met")
  BY DEF Observed
<1>2. raised.ordinary[r] = "met" /\ \A x \in DOMAIN common \ {r} : raised.ordinary[x] = lane.ordinary[x]
  OBVIOUS
<1>3. Of2(r) = p /\ \A x \in DOMAIN common \ {r} : Of2(x) = Of1(x) /\ Of1(x) # o
  BY <1>2 DEF Observed
<1>4. OrdinaryWorld(common, lane) = {Of1(x) : x \in DOMAIN common}
      /\ OrdinaryWorld(common, raised) = {Of2(x) : x \in DOMAIN common}
  BY DEF OrdinaryWorld
<1>5. o = Of1(r)
  OBVIOUS
<1> HIDE DEF o, p, Of1, Of2
<1>6. {Of2(x) : x \in DOMAIN common} = ({Of1(x) : x \in DOMAIN common} \ {o}) \cup {p}
  BY <1>3, <1>5
<1>7. o \notin cw
  BY DEF o, cw, ContestedWorld, Observed
<1>8. /\ World(common, contested, lane, choice) = OrdinaryWorld(common, lane) \cup cw
      /\ World(common, contested, raised, choice) = OrdinaryWorld(common, raised) \cup cw
  BY DEF World, ContestedWorld, cw
<1> HIDE DEF cw
<1>9. /\ o \in OrdinaryWorld(common, lane)
      /\ OrdinaryWorld(common, raised) = RaisedWorld(OrdinaryWorld(common, lane), o)
      /\ World(common, contested, raised, choice)
                    = RaisedWorld(World(common, contested, lane, choice), o)
  <2>1. o \in OrdinaryWorld(common, lane)
    BY <1>4, <1>5
  <2>2. OrdinaryWorld(common, raised) = (OrdinaryWorld(common, lane) \ {o}) \cup {p}
    BY <1>4, <1>6
  <2>3. World(common, contested, raised, choice)
            = (World(common, contested, lane, choice) \ {o}) \cup {p}
    BY <1>7, <1>8, <2>2
  <2> QED BY <1>1, <2>1, <2>2, <2>3 DEF RaisedWorld
<1> QED BY <1>9 DEF o

(* Raising one alternative of a lane raises at most one observation of each of its worlds. *)
LEMMA AlternativeRaised ==
    ASSUME NEW common, NEW contested, NEW choice,
           NEW c \in DOMAIN contested, NEW side \in Alternatives,
           NEW lane, NEW raised, raised.ordinary = lane.ordinary,
           lane.contested = [d \in DOMAIN contested |-> lane.contested[d]],
           lane.contested[c] = [s \in Alternatives |-> lane.contested[c][s]],
           raised.contested = [lane.contested EXCEPT ![c][side] = "met"]
    PROVE  LET world == World(common, contested, lane, choice)
           IN \/ World(common, contested, raised, choice) = world
              \/ \E o \in world : World(common, contested, raised, choice) = RaisedWorld(world, o)
<1> DEFINE cs == {d \in DOMAIN contested : contested[d][choice[d]] # "none"}
           Of1(d) == Observed(<<"contested", d>>, contested[d][choice[d]],
                              lane.contested[d][choice[d]])
           Of2(d) == Observed(<<"contested", d>>, contested[d][choice[d]],
                              raised.contested[d][choice[d]])
           ow == OrdinaryWorld(common, lane)
<1>1. /\ World(common, contested, lane, choice) = ow \cup {Of1(d) : d \in cs}
      /\ World(common, contested, raised, choice) = ow \cup {Of2(d) : d \in cs}
  BY DEF World, OrdinaryWorld
<1>2. /\ \A d \in DOMAIN contested \ {c} : raised.contested[d] = lane.contested[d]
      /\ raised.contested[c] = [lane.contested[c] EXCEPT ![side] = "met"]
  OBVIOUS
<1>3. \A s : s # side => raised.contested[c][s] = lane.contested[c][s]
  <2> SUFFICES ASSUME NEW s, s # side PROVE raised.contested[c][s] = lane.contested[c][s]
    OBVIOUS
  <2> QED BY <1>2
<1>4. \A d \in DOMAIN contested \ {c} : Of2(d) = Of1(d) /\ Of1(d) # Of1(c)
  BY <1>2 DEF Observed
<1>5. CASE c \in cs /\ choice[c] = side
  <2>1. Of2(c) = Observed(Of1(c).item, Of1(c).importance, "met")
    BY <1>2, <1>5 DEF Observed
  <2>2. Of1(c) \notin ow
    BY DEF OrdinaryWorld, Observed
  <2>3. cs \subseteq DOMAIN contested
    OBVIOUS
  <2> HIDE DEF Of1, Of2, cs, ow
  <2>4. Of1(c) \in {Of1(d) : d \in cs}
    BY <1>5
  <2>5. {Of2(d) : d \in cs} = ({Of1(d) : d \in cs} \ {Of1(c)}) \cup {Of2(c)}
    BY <1>4, <1>5, <2>3
  <2>6. ow \cup {Of2(d) : d \in cs}
            = ((ow \cup {Of1(d) : d \in cs}) \ {Of1(c)}) \cup {Of2(c)}
    BY <2>2, <2>5
  <2>7. World(common, contested, raised, choice)
            = RaisedWorld(World(common, contested, lane, choice), Of1(c))
    BY <1>1, <2>1, <2>6 DEF RaisedWorld
  <2>8. Of1(c) \in World(common, contested, lane, choice)
    BY <1>1, <2>4
  <2> QED BY <2>7, <2>8
<1>6. CASE ~(c \in cs /\ choice[c] = side)
  <2>1. \A d \in cs : Of2(d) = Of1(d)
    BY <1>3, <1>4, <1>6
  <2> HIDE DEF Of1, Of2, cs, ow
  <2>2. {Of2(d) : d \in cs} = {Of1(d) : d \in cs}
    BY <2>1
  <2> QED BY <1>1, <2>2
<1> QED BY <1>5, <1>6

--------------------------------------------------------------------------------
(***************************************************************************)
(* The outcome of a lane and of a report.                                  *)
(***************************************************************************)
(* A lane passes when both its worlds do. *)
LEMMA LanePasses ==
    ASSUME NEW common, NEW contested, NEW lane
    PROVE  LaneOutcome(common, contested, lane).disposition = "PASS" <=>
               \A side \in Alternatives :
                   Score(World(common, contested, lane, Always(contested, side))).disposition = "PASS"
  BY DEF LaneOutcome, Merge, Alternatives

(* A report passes when both lanes do and its requirements could be reconciled. *)
LEMMA ReportPasses ==
    ASSUME NEW common, NEW contested, NEW first, NEW second
    PROVE  Sensitivity(common, contested, first, second).disposition = "PASS" <=>
               /\ Reconcile(common, first, second).disposition # "INCONCLUSIVE"
               /\ LaneOutcome(common, contested, first).disposition = "PASS"
               /\ LaneOutcome(common, contested, second).disposition = "PASS"
  BY DEF Sensitivity, Recorded, Merge

(* Two outcomes that differ at most in the order of their reasons. *)
Alike(x, y) == x.disposition = y.disposition /\ Members(x.reasons) = Members(y.reasons)

LEMMA MergedEitherWay ==
    ASSUME NEW x, NEW y, Reflexive(x.reasons), Reflexive(y.reasons)
    PROVE  /\ Alike(Merge(x, y), Merge(y, x))
           /\ Reflexive(Merge(x, y).reasons)
           /\ Members(Merge(x, y).reasons)
                 \subseteq {"GRADER_DISAGREEMENT"} \cup Members(x.reasons) \cup Members(y.reasons)
<1>1. CASE x.disposition # y.disposition
  BY <1>1, OnlyOne DEF Merge, Alike
<1>2. CASE x.disposition = y.disposition
  BY <1>2, ThenBoth DEF Merge, Alike
<1> QED BY <1>1, <1>2

(* The reasons of a lane are a tuple, as those of a score are. *)
LEMMA LaneReasons ==
    ASSUME NEW common, NEW contested, NEW lane
    PROVE  Reflexive(LaneOutcome(common, contested, lane).reasons)
<1> DEFINE reviewer == Score(World(common, contested, lane, Always(contested, "reviewer")))
           auditor == Score(World(common, contested, lane, Always(contested, "auditor")))
<1>1. Reflexive(reviewer.reasons) /\ Reflexive(auditor.reasons)
  BY PassingScore
<1>2. Reflexive(Merge(reviewer, auditor).reasons)
  <2> HIDE DEF reviewer, auditor
  <2> QED BY <1>1, MergedEitherWay
<1> QED BY <1>2, OnlyOne DEF LaneOutcome

LEMMA DisputesNamed ==
    ASSUME NEW common, NEW contested, DOMAIN contested \subseteq Nat, NEW lane
    PROVE  /\ Members(Determinative(common, contested, lane))
                = {c \in DOMAIN contested : /\ DecidedByDispute(common, contested, lane)
                                            /\ Differs(contested, lane, c)}
           /\ Reflexive(Determinative(common, contested, lane))
<1> DEFINE D == {c \in DOMAIN contested : /\ DecidedByDispute(common, contested, lane)
                                          /\ Differs(contested, lane, c)}
<1>1. D \subseteq Nat
  OBVIOUS
<1>2. Determinative(common, contested, lane) = Sorted(D)
  BY DEF Determinative
<1> HIDE DEF D
<1>3. Members(Sorted(D)) = D /\ Reflexive(Sorted(D))
  BY <1>1, SortedNumbers
<1> QED BY <1>2, <1>3 DEF D

(* Exchanging the lanes changes nothing but the order of what is named. *)
LEMMA Exchanged ==
    ASSUME NEW common, NEW contested, DOMAIN contested \subseteq Nat, NEW first, NEW second
    PROVE  LET here == Sensitivity(common, contested, first, second)
               there == Sensitivity(common, contested, second, first)
           IN /\ here.disposition = there.disposition
              /\ Members(here.reasons) = Members(there.reasons)
              /\ Members(here.determinative) = Members(there.determinative)
<1> DEFINE here == Sensitivity(common, contested, first, second)
           there == Sensitivity(common, contested, second, first)
           L1 == LaneOutcome(common, contested, first)
           L2 == LaneOutcome(common, contested, second)
           D1 == Determinative(common, contested, first)
           D2 == Determinative(common, contested, second)
           R == Reconcile(common, first, second)
           Q == Reconcile(common, second, first)
<1>1. Alike(R, Q)
  BY PassingScore, MergedEitherWay DEF Reconcile
<1>2. Alike(Merge(L1, L2), Merge(L2, L1))
  <2>1. Reflexive(L1.reasons) /\ Reflexive(L2.reasons)
    BY LaneReasons
  <2> HIDE DEF L1, L2
  <2> QED BY <2>1, MergedEitherWay
<1>3. Members(Then(D1, D2)) = Members(Then(D2, D1))
  <2>1. Reflexive(D1) /\ Reflexive(D2)
    BY DisputesNamed
  <2> HIDE DEF D1, D2
  <2>2. /\ Members(Then(D1, D2)) = Members(D1) \cup Members(D2)
        /\ Members(Then(D2, D1)) = Members(D2) \cup Members(D1)
    BY <2>1, ThenBoth
  <2> QED BY <2>2
<1>4. /\ here = IF R.disposition = "INCONCLUSIVE" THEN Recorded(R, {})
                ELSE Recorded(Merge(L1, L2), Then(D1, D2))
      /\ there = IF Q.disposition = "INCONCLUSIVE" THEN Recorded(Q, {})
                 ELSE Recorded(Merge(L2, L1), Then(D2, D1))
  BY DEF Sensitivity
<1> HIDE DEF here, there, L1, L2, D1, D2, R, Q
<1>5. CASE R.disposition = "INCONCLUSIVE"
  <2>1. Q.disposition = "INCONCLUSIVE" /\ Members(Q.reasons) = Members(R.reasons)
    BY <1>1, <1>5 DEF Alike
  <2>2. here = Recorded(R, {}) /\ there = Recorded(Q, {})
    BY <1>4, <1>5, <2>1
  <2> QED BY <1>5, <2>1, <2>2 DEF Recorded, here, there
<1>6. CASE R.disposition # "INCONCLUSIVE"
  <2>1. Q.disposition # "INCONCLUSIVE"
    BY <1>1, <1>6 DEF Alike
  <2>2. /\ here = Recorded(Merge(L1, L2), Then(D1, D2))
        /\ there = Recorded(Merge(L2, L1), Then(D2, D1))
    BY <1>4, <1>6, <2>1
  <2> QED BY <1>2, <1>3, <2>2 DEF Recorded, Alike, here, there
<1> QED BY <1>5, <1>6

--------------------------------------------------------------------------------
(***************************************************************************)
(* The invariant, and what follows from it.                                *)
(***************************************************************************)
OutcomeInv ==
    /\ baseline \in Baselines
    /\ \A l \in DOMAIN lanes : lanes[l] \in Aggregates(baseline)
    /\ record # Pending => /\ DOMAIN lanes = {1, 2}
                           /\ record = SensitivityOf(lanes[1], lanes[2])

(* The record is made of two lanes that cover the baseline. *)
LEMMA OutcomeInvariant == Spec => []OutcomeInv
<1>1. Init => OutcomeInv
  BY DEF Init, OutcomeInv
<1>2. OutcomeInv /\ [Next]_vars => OutcomeInv'
  <2> SUFFICES ASSUME OutcomeInv, [Next]_vars PROVE OutcomeInv'
    OBVIOUS
  <2>1. CASE UNCHANGED vars
    BY <2>1 DEF OutcomeInv, SensitivityOf, vars
  <2>2. ASSUME NEW l \in 1..2, AggregateLane(l) PROVE OutcomeInv'
    <3>1. record = Pending
      BY <2>2 DEF OutcomeInv, AggregateLane
    <3> QED BY <2>2, <3>1 DEF OutcomeInv, AggregateLane, AnswerLane
  <2>3. CASE EvaluateReport
    BY <2>3 DEF OutcomeInv, EvaluateReport, SensitivityOf
  <2> QED BY <2>1, <2>2, <2>3 DEF Next
<1> QED BY <1>1, <1>2, PTL DEF Spec

(* What an aggregate of a baseline looks like. *)
LEMMA AggregateShape ==
    ASSUME NEW b \in Baselines, NEW a \in Aggregates(b)
    PROVE  /\ IsFiniteSet(DOMAIN b.common) /\ IsFiniteSet(DOMAIN b.contested)
           /\ a = [ordinary |-> a.ordinary, contested |-> a.contested]
           /\ a.ordinary \in [DOMAIN b.common -> Grades]
           /\ a.contested = [c \in DOMAIN b.contested |-> a.contested[c]]
           /\ \A c \in DOMAIN b.contested :
                 a.contested[c] = [side \in Alternatives |-> a.contested[c][side]]
<1>1. IsFiniteSet(DOMAIN b.common) /\ IsFiniteSet(DOMAIN b.contested)
  BY BaselinesAssumption
<1>2. /\ a = [ordinary |-> a.ordinary, contested |-> a.contested]
      /\ a.ordinary \in [DOMAIN b.common -> GradeChoices]
      /\ a.contested = [c \in DOMAIN b.contested |-> a.contested[c]]
  BY DEF Aggregates
<1>3. \A c \in DOMAIN b.contested :
          a.contested[c] \in [Alternatives -> GradeChoices \cup {"none"}]
  BY DEF Aggregates, Graded
<1>4. a.ordinary \in [DOMAIN b.common -> Grades]
  BY <1>2, GradesAssumption
<1> QED BY <1>1, <1>2, <1>3, <1>4

(* A record that was made is of two aggregates, and says what they score. *)
LEMMA RecordMade ==
    ASSUME OutcomeInv, record # Pending
    PROVE  /\ baseline \in Baselines
           /\ lanes[1] \in Aggregates(baseline) /\ lanes[2] \in Aggregates(baseline)
           /\ record = SensitivityOf(lanes[1], lanes[2])
  BY DEF OutcomeInv

LEMMA ContestedPlaces ==
    ASSUME OutcomeInv PROVE DOMAIN baseline.contested \subseteq Nat
  BY BaselinesAssumption DEF OutcomeInv

(* A report passes only if every critical item is met in both lanes, in every world
   (evaluate_outcome_sensitivity_v22 scores two of them). *)
THEOREM PassingReportsMeetCriticals == Spec => []PassMeansCriticalsMet
<1>1. OutcomeInv => PassMeansCriticalsMet
  <2> SUFFICES ASSUME OutcomeInv, record.disposition = "PASS", NEW l \in {1, 2},
                      NEW choice \in Choices,
                      NEW o \in World(baseline.common, baseline.contested, lanes[l], choice),
                      o.importance = "critical"
               PROVE  o.grade = "met"
    BY DEF PassMeansCriticalsMet
  <2> DEFINE common == baseline.common
             contested == baseline.contested
             lane == lanes[l]
             W(side) == World(common, contested, lane, Always(contested, side))
  <2>1. record # Pending
    BY DEF Pending
  <2>2. /\ baseline \in Baselines /\ lanes[1] \in Aggregates(baseline)
        /\ lanes[2] \in Aggregates(baseline)
        /\ record = Sensitivity(common, contested, lanes[1], lanes[2])
    BY <2>1, RecordMade DEF SensitivityOf
  <2>3. IsFiniteSet(DOMAIN common) /\ IsFiniteSet(DOMAIN contested)
    BY <2>2, AggregateShape
  <2>4. \A side \in Alternatives : Score(W(side)).disposition = "PASS" /\ Scorable(W(side))
    <3>1. LaneOutcome(common, contested, lane).disposition = "PASS"
      BY <2>2, ReportPasses
    <3> QED BY <2>3, <3>1, LanePasses, WorldsScorable
  <2>5. \E side \in Alternatives : o \in W(side)
    <3>1. CASE o \in OrdinaryWorld(common, lane)
      BY <3>1 DEF World, Alternatives
    <3>2. CASE o \in ContestedWorld(contested, lane, choice)
      <4>1. PICK c \in DOMAIN contested :
               /\ contested[c][choice[c]] # "none"
               /\ o = Observed(<<"contested", c>>, contested[c][choice[c]],
                               lane.contested[c][choice[c]])
        BY <3>2 DEF ContestedWorld
      <4>2. choice[c] \in Alternatives
        BY <4>1 DEF Choices
      <4>3. Always(contested, choice[c])[c] = choice[c]
        BY <4>1 DEF Always
      <4>4. o \in W(choice[c])
        BY <4>1, <4>3 DEF World
      <4> QED BY <4>2, <4>4
    <3> QED BY <3>1, <3>2 DEF World, ContestedWorld
  <2> HIDE DEF W
  <2> QED BY <2>4, <2>5, CriticalsMet
<1> QED BY <1>1, OutcomeInvariant, PTL

(* Exchanging the lanes changes neither the disposition nor what the record
   names, only the order of it (_merge_grader_outcomes_v22). *)
THEOREM LaneOrderReorders == Spec => []LanesInterchangeable
<1>1. OutcomeInv => LanesInterchangeable
  <2> SUFFICES ASSUME OutcomeInv, record # Pending
               PROVE  LET exchanged == Sensitivity(baseline.common, baseline.contested, lanes[2], lanes[1])
                      IN /\ record.disposition = exchanged.disposition
                         /\ Members(record.reasons) = Members(exchanged.reasons)
                         /\ Members(record.determinative) = Members(exchanged.determinative)
    BY DEF LanesInterchangeable
  <2>1. record = Sensitivity(baseline.common, baseline.contested, lanes[1], lanes[2])
    BY RecordMade DEF SensitivityOf
  <2> QED BY <2>1, ContestedPlaces, Exchanged
<1> QED BY <1>1, OutcomeInvariant, PTL

(* A lane that passes still passes with one requirement raised. *)
LEMMA LanePassesRaised ==
    ASSUME NEW b \in Baselines, NEW a \in Aggregates(b), NEW r \in DOMAIN b.common,
           LaneOutcome(b.common, b.contested, a).disposition = "PASS"
    PROVE  LaneOutcome(b.common, b.contested, RaisedRequirement(a, r)).disposition = "PASS"
<1> DEFINE raised == RaisedRequirement(a, r)
           o == Observed(<<"requirement", r>>, b.common[r], a.ordinary[r])
<1>1. /\ IsFiniteSet(DOMAIN b.common) /\ IsFiniteSet(DOMAIN b.contested)
      /\ a = [ordinary |-> a.ordinary, contested |-> a.contested]
      /\ a.ordinary \in [DOMAIN b.common -> Grades]
  BY AggregateShape
<1>2. raised.contested = a.contested /\ raised.ordinary = [a.ordinary EXCEPT ![r] = "met"]
  BY <1>1 DEF RaisedRequirement
<1> HIDE DEF raised
<1> SUFFICES ASSUME NEW side \in Alternatives
             PROVE  Score(World(b.common, b.contested, raised,
                                Always(b.contested, side))).disposition = "PASS"
  BY LanePasses DEF raised
<1> DEFINE world == World(b.common, b.contested, a, Always(b.contested, side))
<1>3. Score(world).disposition = "PASS" /\ Scorable(world)
  BY <1>1, LanePasses, WorldsScorable
<1>4. World(b.common, b.contested, raised, Always(b.contested, side)) = RaisedWorld(world, o)
  BY <1>1, <1>2, RequirementRaised
<1>5. o \in world
  BY <1>1, <1>2, RequirementRaised DEF World
<1> HIDE DEF world, o
<1> QED BY <1>3, <1>4, <1>5, RaisingKeepsPass

(* A lane that passes still passes with one alternative raised. *)
LEMMA LanePassesWithAlternative ==
    ASSUME NEW b \in Baselines, NEW a \in Aggregates(b),
           NEW c \in DOMAIN b.contested, NEW s \in Alternatives,
           LaneOutcome(b.common, b.contested, a).disposition = "PASS"
    PROVE  /\ LaneOutcome(b.common, b.contested, RaisedAlternative(a, c, s)).disposition = "PASS"
           /\ OrdinaryWorld(b.common, RaisedAlternative(a, c, s)) = OrdinaryWorld(b.common, a)
<1> DEFINE raised == RaisedAlternative(a, c, s)
<1>1. /\ IsFiniteSet(DOMAIN b.common) /\ IsFiniteSet(DOMAIN b.contested)
      /\ a = [ordinary |-> a.ordinary, contested |-> a.contested]
      /\ a.contested = [d \in DOMAIN b.contested |-> a.contested[d]]
      /\ a.contested[c] = [side \in Alternatives |-> a.contested[c][side]]
  BY AggregateShape
<1>2. /\ raised.ordinary = a.ordinary
      /\ raised.contested = [a.contested EXCEPT ![c][s] = "met"]
  BY <1>1 DEF RaisedAlternative
<1> HIDE DEF raised
<1>3. OrdinaryWorld(b.common, raised) = OrdinaryWorld(b.common, a)
  BY <1>2 DEF OrdinaryWorld
<1>4. ASSUME NEW side \in Alternatives
      PROVE  Score(World(b.common, b.contested, raised,
                         Always(b.contested, side))).disposition = "PASS"
  <2> DEFINE world == World(b.common, b.contested, a, Always(b.contested, side))
             after == World(b.common, b.contested, raised, Always(b.contested, side))
  <2>1. Score(world).disposition = "PASS" /\ Scorable(world)
    BY <1>1, LanePasses, WorldsScorable
  <2>2. after = world \/ \E o \in world : after = RaisedWorld(world, o)
    BY <1>1, <1>2, AlternativeRaised
  <2> HIDE DEF world, after
  <2>3. Score(after).disposition = "PASS"
    BY <2>1, <2>2, RaisingKeepsPass
  <2> QED BY <2>3 DEF after
<1> QED BY <1>3, <1>4, LanePasses DEF raised

(* The requirements of a lane that passes hold nothing uncertain, and pass alone when
   nothing is contested. *)
LEMMA RequirementsOfPassing ==
    ASSUME NEW common, NEW contested, NEW lane,
           LaneOutcome(common, contested, lane).disposition = "PASS"
    PROVE  /\ Score(OrdinaryWorld(common, lane)).disposition # "INCONCLUSIVE"
           /\ DOMAIN contested = {} => Score(OrdinaryWorld(common, lane)).disposition = "PASS"
<1> DEFINE world == World(common, contested, lane, Always(contested, "reviewer"))
<1>1. Score(world).disposition = "PASS"
  BY LanePasses DEF Alternatives
<1>2. OrdinaryWorld(common, lane) \subseteq world
  BY DEF World
<1>3. DOMAIN contested = {} => world = OrdinaryWorld(common, lane)
  BY DEF World
<1> HIDE DEF world
<1> QED BY <1>1, <1>2, <1>3, PassingScore

(* Better grades never make a report that passes fail: it still passes, or its lanes
   disagree over the requirements, which _score_v22 scores before any dispute. *)
THEOREM BetterGradesStay == Spec => []BetterGradesNeverFail
<1>1. OutcomeInv => BetterGradesNeverFail
  <2> SUFFICES ASSUME OutcomeInv, record.disposition = "PASS" PROVE BetterGradesNeverFail
    BY DEF BetterGradesNeverFail
  <2> DEFINE common == baseline.common
             contested == baseline.contested
             Passes(lane) == LaneOutcome(common, contested, lane).disposition = "PASS"
  <2>1. record # Pending
    BY DEF Pending
  <2>2. /\ baseline \in Baselines /\ lanes[1] \in Aggregates(baseline)
        /\ lanes[2] \in Aggregates(baseline)
        /\ record = Sensitivity(common, contested, lanes[1], lanes[2])
    BY <2>1, RecordMade DEF SensitivityOf
  <2>3. /\ Passes(lanes[1]) /\ Passes(lanes[2])
        /\ Reconcile(common, lanes[1], lanes[2]).disposition # "INCONCLUSIVE"
    BY <2>2, ReportPasses
  <2>4. ASSUME NEW r \in DOMAIN common
        PROVE  \/ SensitivityOf(RaisedRequirement(lanes[1], r),
                                RaisedRequirement(lanes[2], r)).disposition = "PASS"
               \/ DivideOverRequirements(r)
    <3> DEFINE f == RaisedRequirement(lanes[1], r)
               s == RaisedRequirement(lanes[2], r)
    <3>1. Passes(f) /\ Passes(s)
      BY <2>2, <2>3, LanePassesRaised
    <3> HIDE DEF f, s
    <3>2. /\ Score(OrdinaryWorld(common, f)).disposition # "INCONCLUSIVE"
          /\ Score(OrdinaryWorld(common, s)).disposition # "INCONCLUSIVE"
          /\ DOMAIN contested = {} =>
                Score(OrdinaryWorld(common, f)).disposition
                    = Score(OrdinaryWorld(common, s)).disposition
      BY <3>1, RequirementsOfPassing
    <3>3. CASE Reconcile(common, f, s).disposition # "INCONCLUSIVE"
      BY <3>1, <3>3, ReportPasses DEF SensitivityOf, f, s
    <3>4. CASE Reconcile(common, f, s).disposition = "INCONCLUSIVE"
      <4>1. /\ Score(OrdinaryWorld(common, f)).disposition
                  # Score(OrdinaryWorld(common, s)).disposition
            /\ Reconcile(common, f, s).reasons = Only("GRADER_DISAGREEMENT")
        BY <3>2, <3>4 DEF Reconcile, Merge
      <4> QED BY <3>2, <4>1 DEF DivideOverRequirements, f, s
    <3> QED BY <3>3, <3>4
  <2>5. ASSUME NEW c \in DOMAIN contested, NEW side \in Alternatives
        PROVE  SensitivityOf(RaisedAlternative(lanes[1], c, side),
                             RaisedAlternative(lanes[2], c, side)).disposition = "PASS"
    <3> DEFINE f == RaisedAlternative(lanes[1], c, side)
               s == RaisedAlternative(lanes[2], c, side)
    <3>1. /\ Passes(f) /\ Passes(s)
          /\ OrdinaryWorld(common, f) = OrdinaryWorld(common, lanes[1])
          /\ OrdinaryWorld(common, s) = OrdinaryWorld(common, lanes[2])
      BY <2>2, <2>3, LanePassesWithAlternative
    <3> HIDE DEF f, s
    <3>2. Reconcile(common, f, s) = Reconcile(common, lanes[1], lanes[2])
      BY <3>1 DEF Reconcile
    <3>3. Sensitivity(common, contested, f, s).disposition = "PASS"
      BY <2>3, <3>1, <3>2, ReportPasses
    <3> QED BY <3>3 DEF SensitivityOf, f, s
  <2> QED BY <2>4, <2>5 DEF BetterGradesNeverFail
<1> QED BY <1>1, OutcomeInvariant, PTL

(* When a dispute decides a report, settling the disputes the record names changes what
   some lane scores (changing_ids of evaluate_outcome_sensitivity_v22). *)
THEOREM NamedDisputesAreDecisive == Spec => []NamedDisputesDecide
<1> DEFINE sensitive == "OUTCOME_SENSITIVE_BASELINE_DISPUTE"
<1>1. OutcomeInv => NamedDisputesDecide
  <2> SUFFICES ASSUME OutcomeInv, sensitive \in Members(record.reasons)
               PROVE  \E l \in {1, 2} :
                  Score(World(baseline.common, baseline.contested, lanes[l],
                              Always(baseline.contested, "reviewer"))).disposition
                  # Score(World(baseline.common, baseline.contested, lanes[l],
                       [c \in DOMAIN baseline.contested |->
                           IF c \in Members(record.determinative) THEN "auditor" ELSE "reviewer"])).disposition
    BY DEF NamedDisputesDecide
  <2> DEFINE common == baseline.common
             contested == baseline.contested
             settled == [c \in DOMAIN contested |->
                            IF c \in Members(record.determinative) THEN "auditor" ELSE "reviewer"]
  <2>1. record # Pending
    BY DEF Pending, Members
  <2>2. record = Sensitivity(common, contested, lanes[1], lanes[2])
    BY <2>1, RecordMade DEF SensitivityOf
  <2> DEFINE R == Reconcile(common, lanes[1], lanes[2])
             L(l) == LaneOutcome(common, contested, lanes[l])
             D(l) == Determinative(common, contested, lanes[l])
  <2>3. sensitive \notin Members(R.reasons)
    <3>1. \A world : Reflexive(Score(world).reasons) /\ sensitive \notin Members(Score(world).reasons)
      BY PassingScore
    <3>2. ASSUME NEW x, NEW y, Reflexive(x.reasons), Reflexive(y.reasons),
                 sensitive \notin Members(x.reasons), sensitive \notin Members(y.reasons)
          PROVE  sensitive \notin Members(Merge(x, y).reasons)
      BY <3>2, MergedEitherWay
    <3> QED BY <3>1, <3>2 DEF Reconcile
  <2>4. record = Recorded(Merge(L(1), L(2)), Then(D(1), D(2)))
    <3>1. record = IF R.disposition = "INCONCLUSIVE" THEN Recorded(R, {})
                   ELSE Recorded(Merge(L(1), L(2)), Then(D(1), D(2)))
      BY <2>2 DEF Sensitivity
    <3> HIDE DEF R, L, D
    <3> QED BY <2>3, <3>1 DEF Recorded
  <2>5. /\ \E l \in {1, 2} : sensitive \in Members(L(l).reasons)
        /\ Members(record.determinative) = Members(D(1)) \cup Members(D(2))
    <3>1. Reflexive(L(1).reasons) /\ Reflexive(L(2).reasons)
      BY LaneReasons
    <3>2. Reflexive(D(1)) /\ Reflexive(D(2))
      BY DisputesNamed, ContestedPlaces
    <3> HIDE DEF L, D
    <3>3. sensitive \in Members(L(1).reasons) \cup Members(L(2).reasons)
      BY <2>4, <3>1, MergedEitherWay DEF Recorded
    <3>4. Members(Then(D(1), D(2))) = Members(D(1)) \cup Members(D(2))
      BY <3>2, ThenBoth
    <3> QED BY <2>4, <3>3, <3>4 DEF Recorded
  <2> HIDE DEF R, D
  <2>6. ASSUME NEW l \in {1, 2}, sensitive \in Members(L(l).reasons)
        PROVE  Score(World(common, contested, lanes[l], Always(contested, "reviewer"))).disposition
               # Score(World(common, contested, lanes[l], settled)).disposition
    <3> DEFINE lane == lanes[l]
               W(choice) == World(common, contested, lane, choice)
               auditor == Always(contested, "auditor")
    <3>1. Score(W(Always(contested, "reviewer"))).disposition # Score(W(auditor)).disposition
      <4> DEFINE reviewed == Score(W(Always(contested, "reviewer")))
                 audited == Score(W(auditor))
      <4>1. /\ Reflexive(reviewed.reasons) /\ sensitive \notin Members(reviewed.reasons)
            /\ Reflexive(audited.reasons) /\ sensitive \notin Members(audited.reasons)
        BY PassingScore
      <4>2. L(l) = IF "INCONCLUSIVE" \in {reviewed.disposition, audited.disposition}
                   THEN [disposition |-> "INCONCLUSIVE", reasons |-> Only("BASELINE_EVIDENCE_INSUFFICIENT")]
                   ELSE IF reviewed.disposition # audited.disposition
                   THEN [disposition |-> "INCONCLUSIVE", reasons |-> Only(sensitive)]
                   ELSE Merge(reviewed, audited)
        BY DEF LaneOutcome
      <4> HIDE DEF reviewed, audited, L
      <4>3. sensitive \notin Members(Merge(reviewed, audited).reasons)
        BY <4>1, MergedEitherWay
      <4>4. reviewed.disposition # audited.disposition
        BY <2>6, <4>2, <4>3, OnlyOne
      <4> QED BY <4>4 DEF reviewed, audited
    <3>2. \A c \in DOMAIN contested :
             /\ contested[c][settled[c]] = contested[c][auditor[c]]
             /\ contested[c][settled[c]] # "none" =>
                    lane.contested[c][settled[c]] = lane.contested[c][auditor[c]]
      <4> SUFFICES ASSUME NEW c \in DOMAIN contested
                   PROVE  /\ contested[c][settled[c]] = contested[c][auditor[c]]
                          /\ contested[c][settled[c]] # "none" =>
                               lane.contested[c][settled[c]] = lane.contested[c][auditor[c]]
        OBVIOUS
      <4>1. auditor[c] = "auditor"
        BY DEF Always
      <4>2. CASE c \in Members(record.determinative)
        BY <4>1, <4>2
      <4>3. CASE c \notin Members(record.determinative)
        <5>1. settled[c] = "reviewer" /\ c \notin Members(D(l))
          BY <2>5, <4>3
        <5>2. c \notin {d \in DOMAIN contested : /\ DecidedByDispute(common, contested, lane)
                                               /\ Differs(contested, lane, d)}
          BY <5>1, DisputesNamed, ContestedPlaces DEF D
        <5>3. DecidedByDispute(common, contested, lane)
          BY <2>6 DEF DecidedByDispute
        <5>4. ~Differs(contested, lane, c)
          BY <5>2, <5>3
        <5> QED BY <4>1, <5>1, <5>4 DEF Differs
      <4> QED BY <4>2, <4>3
    <3>3. W(settled) = W(auditor)
      <4> DEFINE cs == {c \in DOMAIN contested : contested[c][auditor[c]] # "none"}
                 E(choice, c) == Observed(<<"contested", c>>, contested[c][choice[c]],
                                          lane.contested[c][choice[c]])
      <4> HIDE DEF settled, auditor
      <4>1. {c \in DOMAIN contested : contested[c][settled[c]] # "none"} = cs
        BY <3>2
      <4>2. \A c \in cs : E(settled, c) = E(auditor, c)
        BY <3>2
      <4>3. /\ W(settled) = OrdinaryWorld(common, lane) \cup {E(settled, c) : c \in cs}
            /\ W(auditor) = OrdinaryWorld(common, lane) \cup {E(auditor, c) : c \in cs}
        BY <4>1 DEF World
      <4> HIDE DEF cs, E, W
      <4>4. {E(settled, c) : c \in cs} = {E(auditor, c) : c \in cs}
        BY <4>2
      <4> QED BY <4>3, <4>4
    <3> QED BY <3>1, <3>3
  <2> QED BY <2>5, <2>6
<1> QED BY <1>1, OutcomeInvariant, PTL
================================================================================
