---------------------------- MODULE ReadinessReview ----------------------------
(***************************************************************************)
(* One delivery-readiness run as _advance_response_v1 drives it            *)
(* (attorney_readiness_workflow.py): two grading lanes, then two safety    *)
(* lanes over the gap candidates, then one referee per dispute, and with   *)
(* the last of these answers the terminal products.  An answer whose       *)
(* terminal products cannot be built is refused and leaves no trace.       *)
(* A grading lane is one step here; EvaluatorRun has the single calls of a *)
(* run of the same kind.                                                   *)
(***************************************************************************)
EXTENDS Readiness, Sequences

CONSTANTS
    Cases   \* what a run may be about: [package, grades, records, findings],
            \* the last three being the bounds on what evaluators answer

(* What a run is initialised with: contests have an alternative of their own
   importance. *)
PackageShape(p) ==
    /\ IsFiniteSet(DOMAIN p.common) /\ IsFiniteSet(DOMAIN p.contested)
    /\ DOMAIN p.contested \subseteq Nat
    /\ p.common \in [DOMAIN p.common -> Importances]
    /\ p.contested \in [DOMAIN p.contested -> [Alternatives -> Importances \cup {"none"}]]
    /\ p.weight \in [DOMAIN p.contested -> Importances]
    /\ p.gaps \subseteq DOMAIN p.common
    /\ p.contract \in {"v2", "v3"}
    /\ p.origin \in {"generated", "external"}
    /\ \A d \in DOMAIN p.contested :
         \E side \in Alternatives : p.contested[d][side] = p.weight[d]

RecordShape(record) ==
    /\ record.location \in {"report", "none", "elsewhere"}
    /\ record.quoted \in BOOLEAN /\ record.cleared \in BOOLEAN

ASSUME CasesAssumption ==
    \A c \in Cases :
        /\ PackageShape(c.package)
        /\ c.grades \subseteq Grades
        /\ \A record \in c.records : RecordShape(record)

VARIABLES
    case,       \* the run's package and the bounds on its answers
    grades,     \* accepted grading lanes, in order
    safety,     \* accepted safety lanes, in order
    decisions,  \* accepted referee decisions: dispute -> verdict
    result,     \* the delivery result, once the run has completed
    refused     \* the last answer, when it was refused: [safety, decisions]

vars == <<case, grades, safety, decisions, result, refused>>

NoDecisions == [id \in {} |-> "none"]
Accepted == [safety |-> <<>>, decisions |-> NoDecisions]
Pending == [tier |-> "PENDING", blockers |-> {}]

GradingLanes(c) ==
    [ordinary : [DOMAIN c.package.common -> c.grades],
     contested : [DOMAIN c.package.contested -> [Alternatives -> c.grades]]]

(* A safety lane assesses every candidate and proposes some findings. *)
SafetyLanes(c, candidates) ==
    UNION {{lane \in [candidates \cup found -> c.records] :
               \A id \in candidates \cup found :
                   IF IsFinding(id) THEN FindingAllowed(c.package, id, lane[id])
                   ELSE AssessmentAllowed(c.package, id, lane[id])}
             : found \in SUBSET c.findings}

Init ==
    /\ case \in Cases
    /\ grades = <<>>
    /\ safety = <<>>
    /\ decisions = NoDecisions
    /\ result = Pending
    /\ refused = Accepted

(* The terminal products are built with the answer that completes the
   review; a ValueError among them refuses that answer. *)
TerminalProductsBuild(s, d) ==
    /\ ~ReconcileRaises(s[1], s[2])
    /\ HandoffRenders(case.package, grades, s, d)

Complete(s, d) == Len(s) = 2 /\ Disputes(s[1], s[2]) = DOMAIN d

Submit(s, d) ==
    /\ UNCHANGED <<case, grades>>
    /\ IF Complete(s, d) /\ ~TerminalProductsBuild(s, d)
       THEN /\ refused' = [safety |-> s, decisions |-> d]
            /\ UNCHANGED <<safety, decisions, result>>
       ELSE /\ safety' = s /\ decisions' = d /\ refused' = Accepted
            /\ result' = IF Complete(s, d) THEN Delivery(case.package, grades, s, d) ELSE result

GradeLane ==
    /\ Len(grades) < 2
    /\ \E g \in GradingLanes(case) : grades' = Append(grades, g)
    /\ UNCHANGED <<case, safety, decisions, result, refused>>

SubmitSafety ==
    /\ Len(grades) = 2 /\ Len(safety) < 2
    /\ \E lane \in SafetyLanes(case, Candidates(case.package, grades[1], grades[2])) :
         Submit(Append(safety, lane), decisions)

(* Disputes are decided in one canonical order. *)
NextDispute == CHOOSE id \in Disputes(safety[1], safety[2]) \ DOMAIN decisions : TRUE

DecideDispute ==
    /\ Len(safety) = 2 /\ result = Pending
    /\ \E verdict \in Verdicts :
         Submit(safety, [id \in DOMAIN decisions \cup {NextDispute} |->
                           IF id = NextDispute THEN verdict ELSE decisions[id]])

Next == GradeLane \/ SubmitSafety \/ DecideDispute
Spec == Init /\ [][Next]_vars

(***************************************************************************)
(* Properties.                                                             *)
(***************************************************************************)
Raises(id, record) ==
    record.blocking # "none" \/ (IsFinding(id) /\ FindingBlocks(case.package, id.kind))

(* A delivered report has no blocker that anybody but a referee took away:
   whatever blocker either safety lane raised, the other lane disagreed and
   a referee chose the other lane's record.  (reconcile_safety_lanes_v1) *)
BlockersFallOnlyToReferees ==
    result.tier \in Deliverable =>
        \A l \in 1..2 : \A id \in DOMAIN safety[l] :
            Raises(id, safety[l][id]) =>
                id \in DOMAIN decisions /\ decisions[id] = <<"lane_2", "lane_1">>[l]

Swapped(verdict) ==
    CASE verdict = "lane_1" -> "lane_2" [] verdict = "lane_2" -> "lane_1" [] OTHER -> verdict

(* Which evaluator was lane 1 and which lane 2 does not decide the tier,
   although reconciliation starts from lane 1's records. *)
TierIgnoresLaneOrder ==
    result # Pending =>
        result.tier = Delivery(case.package, <<grades[2], grades[1]>>, <<safety[2], safety[1]>>,
                               [id \in DOMAIN decisions |-> Swapped(decisions[id])]).tier

(* The strict-equivalent outcome is the one the retained Protocol 2.2
   scoring gives the same grades. *)
StrictIsRetained ==
    Len(grades) = 2 =>
        StrictEquivalent(case.package, grades[1], grades[2])
            = Sensitivity(case.package.common, case.package.contested, grades[1], grades[2])

(* A delivered report covers seven tenths in both lanes however its contests
   are settled, when every alternative weighs what its contest weighs.  (With
   unequal weights the lighter alternative can leave less than seven tenths:
   _lane_fraction counts the contest at one weight.) *)
DeliveredMeansCovered ==
    LET p == case.package
    IN (/\ result.tier \in Deliverable
        /\ \A c \in DOMAIN p.contested, side \in Alternatives : p.contested[c][side] = p.weight[c])
       => \A l \in 1..2, choice \in [DOMAIN p.contested -> Alternatives] :
            CoversTenths(World(p.common, p.contested, grades[l], choice), 7)

(* The safety lane names a code the rubric does not list, as an assessment
   may and a finding may not. *)
UnlistedCode(lane) == ~(Codes({lane[id] : id \in DOMAIN lane}) \subseteq BlockingCodes)

(* What may refuse an answer the compiler accepted: an unlisted blocking
   code, a gap requirement that is not met, an absent alternative graded
   below the present one, several contests, or, under contract v2, a
   disclosure location the report does not have. *)
RefusalsAreKnown ==
    refused # Accepted =>
        \/ \E l \in 1..2 : UnlistedCode(refused.safety[l])
        \/ \E r \in case.package.gaps, l \in 1..2 : grades[l].ordinary[r] # "met"
        \/ \E c \in DOMAIN case.package.contested, side \in Alternatives, l \in 1..2 :
             /\ case.package.contested[c][side] = "none"
             /\ Rank[grades[l].contested[c][side]]
                  < Rank[grades[l].contested[c][CHOOSE s \in Alternatives : s # side]]
        \/ Cardinality(DOMAIN case.package.contested) > 1
        \/ case.package.contract = "v2" /\ \E l \in 1..2 : \E id \in DOMAIN refused.safety[l] :
             refused.safety[l][id].location = "elsewhere"
================================================================================
