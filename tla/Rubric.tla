--------------------------------- MODULE Rubric ---------------------------------
(***************************************************************************)
(* From the grades of two lanes to one disposition: _score_v22,            *)
(* reconcile_grader_lanes_v22 and evaluate_outcome_sensitivity_v22 of      *)
(* attorney_v22_compiler.py, under RUBRIC_V22.                             *)
(*                                                                         *)
(* A world is the set of observations one scoring looks at: which item,    *)
(* of what importance, graded how.  The code scores lists; the order of a  *)
(* list of observations decides nothing.  The reason codes and the         *)
(* contested items of a record are tuples whose order is part of its       *)
(* fingerprint.  Credits are counted in halves and the floors compared by  *)
(* cross-multiplication, so every number is an integer.                    *)
(***************************************************************************)
EXTENDS Naturals, FiniteSets

Importances == {"critical", "material", "supporting"}
Grades == {"met", "partially_met", "not_met", "uncertain"}
Dispositions == {"PASS", "FAIL", "INCONCLUSIVE"}
Reasons == {"GRADE_UNCERTAIN", "CRITICAL_RECALL_BELOW_FLOOR", "WEIGHTED_COVERAGE_BELOW_FLOOR",
            "GRADER_DISAGREEMENT", "BASELINE_EVIDENCE_INSUFFICIENT",
            "OUTCOME_SENSITIVE_BASELINE_DISPUTE"}

(***************************************************************************)
(* A tuple without repetitions is written as its order: the pairs <<x, y>> *)
(* with y at x's place or after it.                                        *)
(***************************************************************************)
Members(tuple) == {pair[1] : pair \in tuple}
Only(x) == {<<x, x>>}
OnlyIf(x, condition) == IF condition THEN Only(x) ELSE {}
Sorted(numbers) == {pair \in numbers \X numbers : pair[1] <= pair[2]}

(* tuple(dict.fromkeys(..)) of two tuples: the second adds what is new. *)
Then(first, second) ==
    LET added == Members(second) \ Members(first)
    IN first \cup (Members(first) \X added) \cup {pair \in second : pair[1] \in added /\ pair[2] \in added}

Outcome == [disposition : Dispositions, reasons : SUBSET (Reasons \X Reasons)]

Observed(item, importance, grade) ==
    [item |-> item, importance |-> importance, grade |-> grade]

HalfCreditsSwapped(world, importance) ==
    Cardinality({o \in world : o.importance = importance /\ o.grade = "met"})
    + 2 * Cardinality({o \in world : o.importance = importance /\ o.grade = "partially_met"})

Count(world, importance) == Cardinality({o \in world : o.importance = importance})
HalfCredits(world, importance) ==
    2 * Cardinality({o \in world : o.importance = importance /\ o.grade = "met"})
    + Cardinality({o \in world : o.importance = importance /\ o.grade = "partially_met"})

Weight == [critical |-> 3, material |-> 2, supporting |-> 1]
Total(world) == Weight.critical * Count(world, "critical")
                + Weight.material * Count(world, "material")
                + Weight.supporting * Count(world, "supporting")
HalfCredited(world) == Weight.critical * HalfCredits(world, "critical")
                       + Weight.material * HalfCredits(world, "material")
                       + Weight.supporting * HalfCredits(world, "supporting")

(* critical_recall_floor = 1.0 and weighted_coverage_floor = 0.90; a world
   without critical items, or without items, falls below neither. *)
CriticalBelowFloor(world) == HalfCredits(world, "critical") < 2 * Count(world, "critical")
CoverageBelowFloor(world) == 10 * HalfCredited(world) < 9 * 2 * Total(world)

Score(world) ==
    IF \E o \in world : o.grade = "uncertain"
    THEN [disposition |-> "INCONCLUSIVE", reasons |-> Only("GRADE_UNCERTAIN")]
    ELSE LET reasons == Then(OnlyIf("CRITICAL_RECALL_BELOW_FLOOR", CriticalBelowFloor(world)),
                             OnlyIf("WEIGHTED_COVERAGE_BELOW_FLOOR", CoverageBelowFloor(world)))
         IN [disposition |-> IF reasons = {} THEN "PASS" ELSE "FAIL", reasons |-> reasons]

MergeFirst(first, second) == first

(* _merge_grader_outcomes_v22: variance between the lanes counts only when
   it changes the scored outcome. *)
Merge(first, second) ==
    IF first.disposition # second.disposition
    THEN [disposition |-> "INCONCLUSIVE", reasons |-> Only("GRADER_DISAGREEMENT")]
    ELSE [disposition |-> first.disposition, reasons |-> Then(first.reasons, second.reasons)]

(***************************************************************************)
(* A baseline here is a function common, from requirements to their        *)
(* importance, and a function contested, from the places of the contested  *)
(* items to the importance of their reviewer and auditor alternatives      *)
(* ("none" when the alternative is absent).  A lane gives every            *)
(* requirement a grade and every contested item a grade for each           *)
(* alternative it has.                                                     *)
(***************************************************************************)
Alternatives == {"reviewer", "auditor"}

OrdinaryWorld(common, lane) ==
    {Observed(<<"requirement", r>>, common[r], lane.ordinary[r]) : r \in DOMAIN common}

(* The world in which each contested item is settled by choice[item]. *)
World(common, contested, lane, choice) ==
    OrdinaryWorld(common, lane)
    \cup {Observed(<<"contested", c>>, contested[c][choice[c]], lane.contested[c][choice[c]])
            : c \in {d \in DOMAIN contested : contested[d][choice[d]] # "none"}}

Always(contested, side) == [c \in DOMAIN contested |-> side]

(* The observations of one item under its two alternatives differ. *)
Differs(contested, lane, c) ==
    \/ contested[c]["reviewer"] # contested[c]["auditor"]
    \/ /\ contested[c]["reviewer"] # "none"
       /\ lane.contested[c]["reviewer"] # lane.contested[c]["auditor"]

Reconcile(common, first, second) ==
    Merge(Score(OrdinaryWorld(common, first)), Score(OrdinaryWorld(common, second)))

LaneOutcomeOfReviewer(common, contested, lane) ==
    Score(World(common, contested, lane, Always(contested, "reviewer")))

(* lane_outcome, with only the two worlds in which every contested item goes
   the same way. *)
LaneOutcome(common, contested, lane) ==
    LET reviewer == Score(World(common, contested, lane, Always(contested, "reviewer")))
        auditor == Score(World(common, contested, lane, Always(contested, "auditor")))
    IN IF "INCONCLUSIVE" \in {reviewer.disposition, auditor.disposition}
       THEN [disposition |-> "INCONCLUSIVE", reasons |-> Only("BASELINE_EVIDENCE_INSUFFICIENT")]
       ELSE IF reviewer.disposition # auditor.disposition
       THEN [disposition |-> "INCONCLUSIVE", reasons |-> Only("OUTCOME_SENSITIVE_BASELINE_DISPUTE")]
       ELSE Merge(reviewer, auditor)

(* The contested items whose alternatives differ, in the baseline's order,
   when the two worlds do. *)
DecidedByDispute(common, contested, lane) ==
    "OUTCOME_SENSITIVE_BASELINE_DISPUTE" \in Members(LaneOutcome(common, contested, lane).reasons)

DeterminativeByImportance(common, contested, lane) ==
    Sorted({c \in DOMAIN contested : /\ DecidedByDispute(common, contested, lane)
                                     /\ contested[c]["reviewer"] # contested[c]["auditor"]})

Determinative(common, contested, lane) ==
    Sorted({c \in DOMAIN contested : /\ DecidedByDispute(common, contested, lane)
                                     /\ Differs(contested, lane, c)})

Recorded(outcome, determinative) ==
    [disposition |-> outcome.disposition, reasons |-> outcome.reasons,
     determinative |-> determinative]

(* evaluate_outcome_sensitivity_v22: a reconciliation that is already
   inconclusive stands; otherwise both lanes are scored in both worlds. *)
Sensitivity(common, contested, first, second) ==
    LET reconciled == Reconcile(common, first, second)
    IN IF reconciled.disposition = "INCONCLUSIVE" THEN Recorded(reconciled, {})
       ELSE Recorded(Merge(LaneOutcome(common, contested, first),
                           LaneOutcome(common, contested, second)),
                     Then(Determinative(common, contested, first),
                          Determinative(common, contested, second)))

(* The grades an item's alternatives may get: an absent one gets none. *)
Graded(alternatives, choices) ==
    {g \in [Alternatives -> choices \cup {"none"}] :
        \A side \in Alternatives : g[side] = "none" <=> alternatives[side] = "none"}

(* build_comparison_result_v22, for a candidate and a comparator. *)
Comparison(candidate, comparator) ==
    CASE "INCONCLUSIVE" \in {candidate, comparator} -> "INCONCLUSIVE"
      [] candidate = "PASS" /\ comparator = "FAIL" -> "CANDIDATE_WIN"
      [] candidate = "FAIL" /\ comparator = "PASS" -> "COMPARATOR_WIN"
      [] candidate = "PASS" /\ comparator = "PASS" -> "TIE"
      [] candidate = "FAIL" /\ comparator = "FAIL" -> "NEITHER"
================================================================================
