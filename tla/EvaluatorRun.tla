------------------------------ MODULE EvaluatorRun ------------------------------
(***************************************************************************)
(* One Protocol 2.2 run (attorney_v22_workflow.py): the calls the          *)
(* controller issues one at a time, what a submitted answer does to the    *)
(* run, and when the run ends.  A submission is one step: it happens under *)
(* the submission guard and its files change atomically (RunCommit).       *)
(*                                                                         *)
(* A call stands for the request issued for it: within a run the request   *)
(* is a function of the call and of the answers accepted before it.        *)
(***************************************************************************)
EXTENDS SourceBaseline, Rubric

CONSTANTS
    Labels,         \* the sequence of anonymous report labels
    Candidate,      \* the label that hides the candidate report
    MaxFragmentItems, MaxFragments, MaxItems,   \* 5, 128 and 640 in the code
    LegacyItems,    \* 128: what the V2.1 models built on the way may hold
    ReviewItems,    \* bound: the sequences of proposals one fragment may add
    AuditItems,     \* bound: the sequences of concerns one fragment may add
    GradeChoices    \* bound: the grades a grader chooses from

ASSUME LabelsAssumption ==
    /\ Labels \in Seq(STRING) /\ Len(Labels) \in {1, 2}
    /\ \A i, j \in DOMAIN Labels : Labels[i] = Labels[j] => i = j
    /\ Candidate \in {Labels[i] : i \in DOMAIN Labels}
ASSUME LimitsAssumption ==
    /\ MaxFragmentItems \in Nat \ {0} /\ MaxFragments \in Nat \ {0}
    /\ MaxItems \in Nat \ {0} /\ LegacyItems \in Nat
ASSUME AnswersAssumption ==
    /\ \A s \in ReviewItems : s \in Seq(Proposals) /\ Len(s) <= MaxFragmentItems
    /\ \A s \in AuditItems : s \in Seq(Concern) /\ Len(s) <= MaxFragmentItems
    /\ \A s \in AuditItems : \A k \in DOMAIN s :     \* an omission has a correction
        s[k].target = NoTarget => s[k].correction # NoProposal
    /\ GradeChoices \subseteq Grades /\ GradeChoices # {}

VARIABLES
    accepted,       \* the accepted calls, in order
    pending,        \* the one call that awaits an answer, or NoCall
    proposals, concerns, decisions, grades,     \* the accepted answers
    baseline,       \* the sealed baseline, or NoBaseline
    aggregates,     \* <<label, lane>> -> the lane's grades
    sensitivities,  \* label -> the report's sensitivity record
    result          \* the run's terminal result, or NoResult

sourceVars == <<proposals, concerns, decisions, baseline>>
gradeVars == <<grades, aggregates, sensitivities>>
runVars == <<accepted, pending, sourceVars, gradeVars, result>>

Reports == {Labels[i] : i \in DOMAIN Labels}
Lanes == {1, 2}
Nothing == [k \in {} |-> k]
NoBaseline == [requirements |-> {}, relationships |-> {}, contested |-> Nothing,
               sealed |-> FALSE]
NoResult == [status |-> "none", comparison |-> "none"]

(***************************************************************************)
(* Calls and the answers to them.                                          *)
(***************************************************************************)
Call(operation, label, lane, item) ==
    [operation |-> operation, label |-> label, lane |-> lane, item |-> item]
NoCall == Call("none", "none", 0, 0)
ReviewCall(n) == Call("source_review_fragment", "none", 0, n)
AuditCall(n) == Call("source_audit_fragment", "none", 0, n)
RefereeCall(i) == Call("source_referee_fragment", "none", 0, i)

Operations == {"none", "source_review_fragment", "source_audit_fragment",
               "source_referee_fragment", "ordinary_grade_fragment", "contested_grade_fragment"}
Calls == [operation : Operations, label : Reports \cup {"none"}, lane : 0..2, item : Nat]

Fragment(items, complete) == [items |-> items, complete |-> complete]

(* The payloads the strict models take for a call: a fragment that does not
   finish its operation adds something. *)
Answers(call) ==
    CASE call.operation = "source_review_fragment" ->
            {Fragment(s, c) : s \in ReviewItems, c \in BOOLEAN} \ {Fragment(<<>>, FALSE)}
      [] call.operation = "source_audit_fragment" ->
            {Fragment(s, c) : s \in AuditItems, c \in BOOLEAN} \ {Fragment(<<>>, FALSE)}
      [] call.operation = "source_referee_fragment" -> Decision
      [] call.operation = "ordinary_grade_fragment" ->
            [Batch(baseline.requirements, call.item) -> GradeChoices]
      [] call.operation = "contested_grade_fragment" ->
            Graded(baseline.contested[call.item], GradeChoices)
      [] call.operation = "none" -> {}

(***************************************************************************)
(* The grading steps: for every label and lane, the ordinary batches and   *)
(* then the contested requirements, in order (_grade_steps).               *)
(***************************************************************************)
LaneSteps(b) == BatchCount(b.requirements) + Cardinality(DOMAIN b.contested)
GradeSteps(b) == Len(Labels) * 2 * LaneSteps(b)

ContestedItem(b, k) ==
    CHOOSE i \in DOMAIN b.contested : Cardinality({j \in DOMAIN b.contested : j <= i}) = k

LaneStep(b, label, lane, k) ==
    IF k <= BatchCount(b.requirements)
    THEN Call("ordinary_grade_fragment", label, lane, k)
    ELSE Call("contested_grade_fragment", label, lane,
              ContestedItem(b, k - BatchCount(b.requirements)))

GradeStepOneLane(b, n) ==
    LaneStep(b, Labels[(n - 1) \div (2 * LaneSteps(b)) + 1], 1, ((n - 1) % LaneSteps(b)) + 1)

GradeStep(b, n) ==
    LaneStep(b, Labels[(n - 1) \div (2 * LaneSteps(b)) + 1],
             (((n - 1) \div LaneSteps(b)) % 2) + 1, ((n - 1) % LaneSteps(b)) + 1)

(* The contested requirements carry their alternatives' importance. *)
ImportanceOf(p) == IF p = NoProposal THEN "none" ELSE Importance[p]
Seal(c, d) ==
    LET b == Baseline(proposals, c, d)
    IN [requirements |-> b.requirements, relationships |-> b.relationships,
        contested |-> [i \in DOMAIN b.contested |->
            [side \in Alternatives |-> ImportanceOf(b.contested[i][side])]],
        sealed |-> TRUE]

(* aggregate_grader_lane_v22: the lane's grade of every item. *)
LaneGrades(b, given, label, lane) ==
    [ordinary |-> [r \in b.requirements |->
        LET k == CHOOSE n \in 1..BatchCount(b.requirements) : r \in Batch(b.requirements, n)
        IN given[Call("ordinary_grade_fragment", label, lane, k)][r]],
     contested |-> [i \in DOMAIN b.contested |->
        given[Call("contested_grade_fragment", label, lane, i)]]]

ReportSensitivity(b, first, second) ==
    Sensitivity([r \in b.requirements |-> Importance[r]], b.contested, first, second)

Result(records) ==
    [status |-> IF \E l \in DOMAIN records : records[l].disposition = "INCONCLUSIVE"
                THEN "INCONCLUSIVE" ELSE "COMPLETED",
     comparison |-> IF Len(Labels) = 1 THEN "none"
                    ELSE Comparison(records[Candidate].disposition,
                            records[CHOOSE l \in Reports : l # Candidate].disposition)]

(***************************************************************************)
(* What a submission does: it is refused, exceeds a limit, raises from the *)
(* compiler, or is accepted.                                               *)
(***************************************************************************)
(* preflight_evaluator_response_v22 on an answer to the pending call. *)
Preflight(call, answer) ==
    /\ call.operation = "source_review_fragment" => ProposalsDistinct(proposals \o answer.items)
    /\ call.operation = "source_audit_fragment" =>
        /\ \A k \in DOMAIN answer.items : answer.items[k].target <= Len(proposals)
        /\ ConcernsDistinct(concerns \o answer.items)

RefusedUnbound(call, answer) ==
    \/ pending = NoCall \/ call.operation # pending.operation
    \/ pending.operation # "source_review_fragment" /\ call # pending
    \/ ~Preflight(pending, answer)
Refused(call, answer) == pending = NoCall \/ call # pending \/ ~Preflight(call, answer)

LimitExceeded(call, answer) ==
    \/ /\ call.operation = "source_review_fragment" /\ ~answer.complete
       /\ call.item >= MaxFragments \/ Len(proposals \o answer.items) >= MaxItems
    \/ /\ call.operation = "source_audit_fragment" /\ ~answer.complete
       /\ call.item >= MaxFragments \/ Len(concerns \o answer.items) >= MaxItems

(* Completing the audit converts both inventories to the V2.1 models; the
   last decision, or an audit without concerns, compiles the baseline. *)
CompilerRaises(call, answer) ==
    \/ /\ call.operation = "source_review_fragment" /\ answer.complete
       /\ Len(proposals \o answer.items) > MaxItems
    \/ /\ call.operation = "source_audit_fragment" /\ answer.complete
       /\ \/ Len(concerns \o answer.items) > MaxItems
          \/ Len(proposals) > LegacyItems
          \/ Len(concerns \o answer.items) > LegacyItems
          \/ concerns \o answer.items = <<>> /\ ~Compiles(proposals, <<>>, <<>>)
    \/ /\ call.operation = "source_referee_fragment"
       /\ call.item = Len(concerns)
       /\ ~Compiles(proposals, concerns, Append(decisions, answer))

Accepts(call, answer) ==
    ~Refused(call, answer) /\ ~LimitExceeded(call, answer) /\ ~CompilerRaises(call, answer)

(***************************************************************************)
(* _advance: the effects of an accepted answer.                            *)
(***************************************************************************)
InsufficientEvidence ==
    [disposition |-> "INCONCLUSIVE", reasons |-> Only("BASELINE_EVIDENCE_INSUFFICIENT"),
     determinative |-> {}]

(* _seal_baseline_transition: an empty baseline ends the run at once. *)
SealBaseline(c, d) ==
    /\ baseline' = Seal(c, d)
    /\ IF baseline'.requirements = {} /\ DOMAIN baseline'.contested = {}
       THEN /\ aggregates' = [key \in Reports \X Lanes |-> [ordinary |-> Nothing, contested |-> Nothing]]
            /\ sensitivities' = [l \in Reports |-> InsufficientEvidence]
            /\ result' = Result(sensitivities')
            /\ pending' = NoCall
       ELSE /\ pending' = GradeStep(baseline', 1)
            /\ UNCHANGED <<aggregates, sensitivities, result>>

AcceptReview(answer) ==
    /\ pending.operation = "source_review_fragment"
    /\ proposals' = proposals \o answer.items
    /\ pending' = IF answer.complete THEN AuditCall(1) ELSE ReviewCall(pending.item + 1)
    /\ UNCHANGED <<concerns, decisions, baseline, gradeVars, result>>

AcceptAudit(answer) ==
    /\ pending.operation = "source_audit_fragment"
    /\ concerns' = concerns \o answer.items
    /\ IF answer.complete /\ concerns' = <<>>
       THEN SealBaseline(<<>>, <<>>)
       ELSE /\ pending' = IF answer.complete THEN RefereeCall(1) ELSE AuditCall(pending.item + 1)
            /\ UNCHANGED <<baseline, aggregates, sensitivities, result>>
    /\ UNCHANGED <<proposals, decisions, grades>>

AcceptDecision(answer) ==
    /\ pending.operation = "source_referee_fragment"
    /\ decisions' = Append(decisions, answer)
    /\ IF Len(decisions') < Len(concerns)
       THEN /\ pending' = RefereeCall(Len(decisions') + 1)
            /\ UNCHANGED <<baseline, aggregates, sensitivities, result>>
       ELSE SealBaseline(concerns, decisions')
    /\ UNCHANGED <<proposals, concerns, grades>>

Extended(f, key, value) == [k \in DOMAIN f \cup {key} |-> IF k = key THEN value ELSE f[k]]

LaneDone(given, label, lane) ==
    Cardinality({c \in DOMAIN given : c.label = label /\ c.lane = lane}) = LaneSteps(baseline)

(* _advance_grade: a lane whose last call this is gets its aggregate, a
   report whose second lane this is gets its sensitivity record. *)
AcceptGrade(answer) ==
    LET label == pending.label
        lane == pending.lane
        laneDone == LaneDone(grades', label, lane)
    IN /\ pending.operation \in {"ordinary_grade_fragment", "contested_grade_fragment"}
       /\ grades' = Extended(grades, pending, answer)
       /\ aggregates' = IF laneDone
                        THEN Extended(aggregates, <<label, lane>>,
                                      LaneGrades(baseline, grades', label, lane))
                        ELSE aggregates
       /\ sensitivities' = IF laneDone /\ lane = 2
                           THEN Extended(sensitivities, label,
                                    ReportSensitivity(baseline, aggregates'[<<label, 1>>],
                                                      aggregates'[<<label, 2>>]))
                           ELSE sensitivities
       /\ IF Cardinality(DOMAIN grades') < GradeSteps(baseline)
          THEN /\ pending' = GradeStep(baseline, Cardinality(DOMAIN grades') + 1)
               /\ UNCHANGED result
          ELSE /\ pending' = NoCall
               /\ result' = Result(sensitivities')
       /\ UNCHANGED sourceVars

Advance(answer) ==
    /\ accepted' = Append(accepted, pending)
    /\ \/ AcceptReview(answer)
       \/ AcceptAudit(answer)
       \/ AcceptDecision(answer)
       \/ AcceptGrade(answer)

(* initialize_evaluation_v22 *)
RunInit ==
    /\ accepted = <<>>
    /\ pending = ReviewCall(1)
    /\ proposals = <<>> /\ concerns = <<>> /\ decisions = <<>>
    /\ grades = Nothing
    /\ baseline = NoBaseline
    /\ aggregates = Nothing
    /\ sensitivities = Nothing
    /\ result = NoResult

(* submit_evaluator_response_v22, called with a strict answer; an answer
   that is not accepted leaves the run as it was. *)
Submit(answer) == Accepts(pending, answer) /\ Advance(answer)

RunNext == \E answer \in Answers(pending) : Submit(answer)
RunSpec == RunInit /\ [][RunNext]_runVars

(***************************************************************************)
(* Properties.                                                             *)
(***************************************************************************)
Outcomes == [disposition : Dispositions, reasons : SUBSET (Reasons \X Reasons),
             determinative : SUBSET ((DOMAIN baseline.contested) \X (DOMAIN baseline.contested))]

RunTypeOK ==
    /\ accepted \in Seq(Calls)
    /\ pending \in Calls
    /\ proposals \in Seq(Proposals) /\ concerns \in Seq(Concern) /\ decisions \in Seq(Decision)
    /\ DOMAIN grades \subseteq Calls
    /\ baseline.requirements \subseteq Proposals
    /\ DOMAIN baseline.contested \subseteq DOMAIN concerns
    /\ DOMAIN aggregates \subseteq Reports \X Lanes
    /\ DOMAIN sensitivities \subseteq Reports
    /\ \A l \in DOMAIN sensitivities : sensitivities[l] \in Outcomes
    /\ result.status \in {"none", "COMPLETED", "INCONCLUSIVE"}

Ended == result # NoResult

(* At any time a run is exactly one of awaiting an answer and ended, and no
   call is issued twice: the manifest's call identifiers stay unique. *)
CallsUnique ==
    /\ Ended <=> pending = NoCall
    /\ \A i, j \in DOMAIN accepted : accepted[i] = accepted[j] => i = j
    /\ \A i \in DOMAIN accepted : accepted[i] # pending

(* The grades of one lane of one report that cover a requirement. *)
Covering(label, lane, r) ==
    {c \in DOMAIN grades : c.operation = "ordinary_grade_fragment" /\ c.label = label
                            /\ c.lane = lane /\ r \in DOMAIN grades[c]}

(* A run that ended over a baseline with content graded every requirement
   and every contested requirement exactly once in each of two lanes of
   every report, and nothing else. *)
EndedMeansCovered ==
    (Ended /\ baseline.requirements \cup DOMAIN baseline.contested # {}) =>
        /\ \A l \in Reports, lane \in Lanes :
            /\ \A r \in baseline.requirements : Cardinality(Covering(l, lane, r)) = 1
            /\ {c.item : c \in {g \in DOMAIN grades : g.operation = "contested_grade_fragment"
                                   /\ g.label = l /\ g.lane = lane}} = DOMAIN baseline.contested
        /\ \A c \in DOMAIN grades : c.operation = "ordinary_grade_fragment" =>
            DOMAIN grades[c] # {} /\ DOMAIN grades[c] \subseteq baseline.requirements

Ruled(t, decision) == {i \in DOMAIN concerns : concerns[i].target = t /\ decisions[i] = decision}

(* Nobody ruled against the t-th proposal. *)
Upheld(t) == Ruled(t, "unresolved") \cup Ruled(t, "accept_auditor") = {}

(* Some ruling leaves the t-th proposal open, or takes it away. *)
OpenOrGone(t) ==
    \/ Ruled(t, "unresolved") # {}
    \/ \E i \in Ruled(t, "accept_auditor") : concerns[i].correction = NoProposal

(* The i-th concern's correction was accepted and counts: another ruling about
   the same proposal that leaves it open, or takes it away, drops it. *)
RuledIn(i) ==
    /\ decisions[i] = "accept_auditor"
    /\ concerns[i].target # NoTarget =>
        concerns[i].correction # NoProposal /\ ~OpenOrGone(concerns[i].target)

(* Every ruling shows in the sealed baseline, in whatever order and however
   many about one proposal: the requirements are the proposals nobody ruled
   against, the accepted omissions, and the accepted corrections of proposals
   that no other ruling leaves open or takes away; and the contested ones are
   the unresolved concerns, each with its own two sides.  An accepted
   correction is dropped in that one case, and without a trace
   (_apply_fragmented_decisions). *)
RulingsShow ==
    baseline.sealed =>
        /\ baseline.requirements =
             {proposals[t] : t \in {u \in DOMAIN proposals : Upheld(u)}}
             \cup {concerns[i].correction : i \in {k \in DOMAIN concerns : RuledIn(k)}}
        /\ DOMAIN baseline.contested = {i \in DOMAIN concerns : decisions[i] = "unresolved"}
        /\ \A i \in DOMAIN baseline.contested :
             /\ concerns[i].target # NoTarget =>
                  baseline.contested[i]["reviewer"] = Importance[proposals[concerns[i].target]]
             /\ concerns[i].target = NoTarget => baseline.contested[i]["reviewer"] = "none"
             /\ concerns[i].correction # NoProposal =>
                  baseline.contested[i]["auditor"] = Importance[concerns[i].correction]
             /\ concerns[i].correction = NoProposal => baseline.contested[i]["auditor"] = "none"
================================================================================
