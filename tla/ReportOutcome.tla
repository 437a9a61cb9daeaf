----------------------------- MODULE ReportOutcome -----------------------------
(***************************************************************************)
(* One report graded against one sealed baseline: the two lanes' aggregates*)
(* arrive one after the other, then the report gets its reconciliation and *)
(* its sensitivity record, as the last steps of _advance_grade make them   *)
(* (attorney_v22_workflow.py).                                             *)
(***************************************************************************)
EXTENDS Rubric

CONSTANTS
    Baselines,      \* the sealed baselines: [common, contested]
    GradeChoices    \* bound: the grades a grader chooses from

ASSUME GradesAssumption == GradeChoices \subseteq Grades
ASSUME BaselinesAssumption ==
    \A b \in Baselines :
        /\ b.common \in [DOMAIN b.common -> Importances]
        /\ b.contested \in [DOMAIN b.contested -> [Alternatives -> Importances \cup {"none"}]]
        /\ IsFiniteSet(DOMAIN b.common) /\ IsFiniteSet(DOMAIN b.contested)
        /\ DOMAIN b.contested \subseteq Nat

VARIABLES
    baseline,   \* the sealed baseline the report is graded against
    lanes,      \* the aggregates accepted so far: lane -> grades
    record      \* the sensitivity record, or Pending

vars == <<baseline, lanes, record>>

Pending == [disposition |-> "PENDING", reasons |-> {}, determinative |-> {}]

(* A lane's aggregate covers the baseline exactly. *)
Aggregates(b) ==
    {a \in [ordinary : [DOMAIN b.common -> GradeChoices],
            contested : [DOMAIN b.contested ->
                            UNION {Graded(b.contested[c], GradeChoices) : c \in DOMAIN b.contested}]] :
        \A c \in DOMAIN b.contested : a.contested[c] \in Graded(b.contested[c], GradeChoices)}

Init ==
    /\ baseline \in Baselines
    /\ lanes = [l \in {} |-> l]
    /\ record = Pending

AnswerLane(l) ==
    /\ \E a \in Aggregates(baseline) :
        lanes' = [k \in DOMAIN lanes \cup {l} |-> IF k = l THEN a ELSE lanes[k]]
    /\ UNCHANGED <<baseline, record>>

AggregateLane(l) == DOMAIN lanes = 1..(l - 1) /\ AnswerLane(l)

EvaluateReport ==
    /\ DOMAIN lanes = {1, 2}
    /\ record = Pending
    /\ record' = Sensitivity(baseline.common, baseline.contested, lanes[1], lanes[2])
    /\ UNCHANGED <<baseline, lanes>>

Next == (\E l \in 1..2 : AggregateLane(l)) \/ EvaluateReport
Spec == Init /\ [][Next]_vars

(***************************************************************************)
(* Properties.                                                             *)
(***************************************************************************)
Choices == [DOMAIN baseline.contested -> Alternatives]

(* A report passes only if both lanes found every critical item fully met,
   whichever alternative each contested item is settled by: the two uniform
   worlds the code scores are enough for the critical floor. *)
PassMeansCriticalsMet ==
    record.disposition = "PASS" =>
        \A l \in {1, 2}, choice \in Choices :
            \A o \in World(baseline.common, baseline.contested, lanes[l], choice) :
                o.importance = "critical" => o.grade = "met"

(* Which grader was lane 1 and which lane 2 decides neither the disposition
   nor what the record names.  It does decide the order of the reason codes and
   of the contested items, and so the fingerprint
   (_merge_grader_outcomes_v22, evaluate_outcome_sensitivity_v22). *)
LanesInterchangeable ==
    record # Pending =>
        LET exchanged == Sensitivity(baseline.common, baseline.contested, lanes[2], lanes[1])
        IN /\ record.disposition = exchanged.disposition
           /\ Members(record.reasons) = Members(exchanged.reasons)
           /\ Members(record.determinative) = Members(exchanged.determinative)

SensitivityOf(first, second) == Sensitivity(baseline.common, baseline.contested, first, second)
RaisedRequirement(lane, r) == [lane EXCEPT !.ordinary[r] = "met"]
RaisedAlternative(lane, c, side) == [lane EXCEPT !.contested[c][side] = "met"]

(* Both lanes raise one requirement to met and then, with a dispute in the
   baseline, differ over the requirements alone. *)
DivideOverRequirements(r) ==
    /\ DOMAIN baseline.contested # {}
    /\ Reconcile(baseline.common, RaisedRequirement(lanes[1], r),
                 RaisedRequirement(lanes[2], r)).reasons = Only("GRADER_DISAGREEMENT")

(* A report that passes still passes when both lanes raise one requirement,
   or one alternative, to met; it may only become inconclusive, because the
   requirements are reconciled before the disputes are looked at. *)
BetterGradesNeverFail ==
    record.disposition = "PASS" =>
        /\ \A r \in DOMAIN baseline.common :
             \/ SensitivityOf(RaisedRequirement(lanes[1], r),
                              RaisedRequirement(lanes[2], r)).disposition = "PASS"
             \/ DivideOverRequirements(r)
        /\ \A c \in DOMAIN baseline.contested, side \in Alternatives :
             SensitivityOf(RaisedAlternative(lanes[1], c, side),
                           RaisedAlternative(lanes[2], c, side)).disposition = "PASS"

(* When a report is inconclusive because a dispute decides it, the disputes
   the record names do decide it: with every other dispute settled for the
   reviewer, settling the named ones for the auditor changes what some lane
   scores. *)
NamedDisputesDecide ==
    "OUTCOME_SENSITIVE_BASELINE_DISPUTE" \in Members(record.reasons) =>
        \E l \in {1, 2} :
            Score(World(baseline.common, baseline.contested, lanes[l],
                        Always(baseline.contested, "reviewer"))).disposition
            # Score(World(baseline.common, baseline.contested, lanes[l],
                    [c \in DOMAIN baseline.contested |->
                        IF c \in Members(record.determinative) THEN "auditor" ELSE "reviewer"])).disposition

================================================================================
