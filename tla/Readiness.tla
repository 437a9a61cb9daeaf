------------------------------- MODULE Readiness -------------------------------
(***************************************************************************)
(* Delivery readiness, the pure part: what attorney_readiness_compiler.py  *)
(* derives from two grading lanes, two safety lanes and the referees, and  *)
(* what attorney_readiness_handoff.py then demands of it before it renders *)
(* the attorney's review package.                                          *)
(*                                                                         *)
(* A package p is what the run is initialised with: common, contested (see *)
(* Rubric), weight (a contest's own importance), gaps (the requirements of *)
(* kind gap), prerequisites (open qualification limits and client facts,   *)
(* with their importance), contract (the safety response contract, v2 or   *)
(* v3), origin (generated or external report) and overclaims (the report   *)
(* claims to be complete).  Grades are lanes of Rubric, except that both   *)
(* alternatives of a contest are graded even when one is absent.           *)
(***************************************************************************)
EXTENDS Rubric, FiniteSetsExt

HalfUnits == [met |-> 2, partially_met |-> 1, not_met |-> 0, uncertain |-> 0]
Rank == [uncertain |-> 0, not_met |-> 1, partially_met |-> 2, met |-> 3]
Favourable(grades) == CHOOSE g \in grades : \A h \in grades : Rank[g] >= Rank[h]
Conservative(grades) == CHOOSE g \in grades : \A h \in grades : Rank[g] <= Rank[h]

Earned(world) == MapThenSumSet(LAMBDA o : Weight[o.importance] * HalfUnits[o.grade], world)
Possible(world) == 2 * MapThenSumSet(LAMBDA o : Weight[o.importance], world)
CriticalItems(world) == {o \in world : o.importance = "critical"}
AllCriticalMet(world) == \A o \in CriticalItems(world) : o.grade = "met"
CoversTenths(world, tenths) == 10 * Earned(world) >= tenths * Possible(world)

Inconclusive(reason) == [disposition |-> "INCONCLUSIVE", reasons |-> Only(reason)]

(* _score, with the 0.90 floor and the critical floor of RUBRIC_V22. *)
LockedScore(world) ==
    LET critical == CriticalItems(world)
        reasons == Then(OnlyIf("CRITICAL_RECALL_BELOW_FLOOR", Earned(critical) # Possible(critical)),
                        OnlyIf("WEIGHTED_COVERAGE_BELOW_FLOOR", ~CoversTenths(world, 9)))
    IN IF \E o \in world : o.grade = "uncertain" THEN Inconclusive("GRADE_UNCERTAIN")
       ELSE [disposition |-> IF reasons = {} THEN "PASS" ELSE "FAIL", reasons |-> reasons]

(* _merge_outcomes, of the lanes or of the two worlds. *)
MergeOutcomes(first, second) ==
    IF first.disposition # second.disposition THEN Inconclusive("GRADER_DISAGREEMENT")
    ELSE [disposition |-> first.disposition, reasons |-> Then(first.reasons, second.reasons)]

(* _contested_lane_outcome: the two worlds in which every contest goes the
   same way, and the contests that changed when they disagree. *)
WorldScore(p, lane, side) ==
    LockedScore(World(p.common, p.contested, lane, Always(p.contested, side)))

Settle(reviewer, auditor, changing) ==
    CASE "INCONCLUSIVE" \in {reviewer.disposition, auditor.disposition} ->
             Recorded(Inconclusive("BASELINE_EVIDENCE_INSUFFICIENT"), {})
      [] {reviewer.disposition, auditor.disposition} = {"PASS", "FAIL"} ->
             Recorded(Inconclusive("OUTCOME_SENSITIVE_BASELINE_DISPUTE"), changing)
      [] OTHER -> Recorded(MergeOutcomes(reviewer, auditor), {})

ContestedLaneOutcome(p, lane) ==
    Settle(WorldScore(p, lane, "reviewer"), WorldScore(p, lane, "auditor"),
           Sorted({c \in DOMAIN p.contested : Differs(p.contested, lane, c)}))

StrictBothWorlds(p, first, second) ==
    LET one == ContestedLaneOutcome(p, first)
        two == ContestedLaneOutcome(p, second)
    IN Recorded(MergeOutcomes(one, two), Then(one.determinative, two.determinative))

(* derive_baseline_locked_strict_equivalent_v1. *)
StrictEquivalent(p, first, second) ==
    LET ordinary == MergeOutcomes(LockedScore(OrdinaryWorld(p.common, first)),
                                  LockedScore(OrdinaryWorld(p.common, second)))
    IN IF ordinary.disposition = "INCONCLUSIVE" THEN Recorded(ordinary, {})
       ELSE StrictBothWorlds(p, first, second)

(***************************************************************************)
(* The gap candidates, the safety records about them, and the findings the *)
(* safety lanes add.  An identity names one row of the gap matrix.         *)
(***************************************************************************)
Identity(origin, subject, kind) == [origin |-> origin, subject |-> subject, kind |-> kind]

HardKinds == {"MATERIAL_UNSUPPORTED_ASSERTION", "BASELINE_CONTRADICTION",
              "MISLEADING_CURRENTNESS_OR_AUTHORITY", "UNDISCLOSED_DISPOSITIVE_CLIENT_FACT"}
SoftKinds == {"HIDDEN_OR_UNDERSTATED_LIMITATION", "UNDISCLOSED_GRADER_GAP"}
ReportContentKinds == HardKinds \ {"UNDISCLOSED_DISPOSITIVE_CLIENT_FACT"}
FindingBlocker(kind) == IF kind \in SoftKinds THEN "HIDDEN_MATERIAL_GAP" ELSE kind
BlockingCodes ==
    HardKinds \cup {"INTEGRITY_OR_PROVENANCE_INVALID", "MINIMUM_LANE_COVERAGE_BELOW_FLOOR",
                    "HIDDEN_MATERIAL_GAP", "OUTCOME_DETERMINATIVE_CONTEST",
                    "MISSING_REQUIRED_FOLLOW_UP", "GAP_RATIONALE_INVALID",
                    "CRITICAL_DISCLOSURE_INVALID", "FALSE_RESOLUTION"}

IsFinding(id) == id.origin = "safety_finding"

(* build_gap_candidate_inventory_v1. *)
Candidates(p, first, second) ==
    {Identity("baseline_gap", r, "none") : r \in p.gaps}
    \cup {Identity("requirement", r, "none") :
            r \in {q \in DOMAIN p.common \ p.gaps :
                     {first.ordinary[q], second.ordinary[q]} # {"met"}}}
    \cup {Identity("contested_requirement", c, "none") : c \in DOMAIN p.contested}
    \cup {Identity("prerequisite", q, "none") : q \in DOMAIN p.prerequisites}

(* _importance_contract: a finding about no requirement is material. *)
ImportanceOf(p, id) ==
    CASE id.subject \in DOMAIN p.common -> p.common[id.subject]
      [] id.subject \in DOMAIN p.contested -> p.weight[id.subject]
      [] id.subject \in DOMAIN p.prerequisites -> p.prerequisites[id.subject]
      [] OTHER -> "material"

(* What a lane's grade of the subject shows in the row: for a contest the
   worse of both alternatives, the absent one included. *)
RowGrade(lane, id) ==
    IF id.origin = "contested_requirement"
    THEN Conservative({lane.contested[id.subject][side] : side \in Alternatives})
    ELSE lane.ordinary[id.subject]

(* A record: blocking code, visibility and disclosure location of the gap in
   the report, whether it quotes the report, owner, and scope status.
   _compile_assessment and _compile_finding accept these. *)
AssessmentAllowed(p, id, record) ==
    /\ record.cleared => id.origin = "prerequisite" /\ record.blocking = "none"
    /\ ImportanceOf(p, id) = "critical" =>
        /\ record.cleared \/ p.contract = "v3" \/ record.visibility = "prominent"
        /\ record.owner = "attorney"

FindingAllowed(p, id, record) ==
    /\ ~record.cleared
    /\ record.blocking \in BlockingCodes \cup {"none"}
    /\ id.kind \in ReportContentKinds => record.quoted
    /\ record.blocking # "none" \/ id.kind \in ReportContentKinds =>
        /\ p.contract = "v3" \/ record.visibility = "prominent"
        /\ record.owner = "attorney"

(***************************************************************************)
(* Reconciliation of the safety lanes.                                     *)
(***************************************************************************)
(* build_safety_disputes_v1 under the scoped contracts: one dispute for every
   identity whose records differ, a missing finding included. *)
Disputes(first, second) ==
    {id \in DOMAIN first \cup DOMAIN second :
        \/ id \notin DOMAIN first \cap DOMAIN second
        \/ first[id] # second[id]}

Verdicts == {"lane_1", "lane_2", "blocking", "unresolved"}

Codes(records) == {r.blocking : r \in records} \ {"none"}
RecordsOf(first, second, id) ==
    {lane[id] : lane \in {l \in {first, second} : id \in DOMAIN l}}

UnresolvedCodesFirstLane(id, first, second) ==
    IF IsFinding(id) THEN {FindingBlocker(id.kind)}
    ELSE IF id \in DOMAIN first THEN Codes({first[id]}) ELSE {}

(* _unresolved_dispute_blockers for an assessment dispute. *)
UnresolvedCodes(id, first, second) ==
    LET codes == IF IsFinding(id) THEN {FindingBlocker(id.kind)}
                 ELSE Codes(RecordsOf(first, second, id))
    IN IF codes = {} THEN {"GAP_RATIONALE_INVALID"} ELSE codes

KeptFromFirst(first, second, decisions, id) == IF id \in DOMAIN first THEN first ELSE second

(* The lane whose record an identity keeps: the referee's choice, and where
   nobody chose, lane 1 or whichever lane has one. *)
KeptFrom(first, second, decisions, id) ==
    CASE id \notin DOMAIN decisions -> first
      [] id \in DOMAIN decisions /\ decisions[id] = "lane_1" -> first
      [] id \in DOMAIN decisions /\ decisions[id] = "lane_2" -> second
      [] OTHER -> IF id \in DOMAIN first THEN first ELSE second

(* reconcile_safety_lanes_v1: the surviving records ... *)
Reconciled(first, second, decisions) ==
    [id \in {i \in DOMAIN first \cup DOMAIN second :
                i \in DOMAIN KeptFrom(first, second, decisions, i)} |->
        KeptFrom(first, second, decisions, id)[id]]

FindingBlocks(p, kind) == p.contract # "v3" \/ kind \in HardKinds

(* ... and its blocking codes. *)
ReconcileBlockers(p, first, second, decisions) ==
    LET kept == Reconciled(first, second, decisions)
        open == {id \in DOMAIN decisions : decisions[id] \in {"blocking", "unresolved"}}
    IN (UNION {UnresolvedCodes(id, first, second) : id \in open})
       \cup Codes({kept[id] : id \in DOMAIN kept})
       \cup {FindingBlocker(id.kind) :
               id \in {i \in DOMAIN kept : IsFinding(i) /\ FindingBlocks(p, i.kind)}}

(* It raises on a blocking code the rubric does not list. *)
ReconcileRaises(first, second) ==
    ~(Codes({first[id] : id \in DOMAIN first} \cup {second[id] : id \in DOMAIN second})
        \subseteq BlockingCodes)

(***************************************************************************)
(* The gap matrix's own blockers, and the tier.                            *)
(***************************************************************************)
UndisclosedInReport(p, id, record) ==
    /\ ~record.cleared /\ p.contract # "v3"
    /\ record.visibility = "hidden" \/ record.location = "none" \/ ~record.quoted

Undisclosed(p, id, record) ==
    IF p.contract = "v3" THEN record.location = "elsewhere"
    ELSE /\ ~record.cleared
         /\ record.visibility = "hidden" \/ record.location = "none" \/ ~record.quoted

CriticalUnsafe(p, id, record) ==
    /\ ImportanceOf(p, id) = "critical"
    /\ \/ ~record.cleared /\ p.contract # "v3" /\ record.visibility # "prominent"
       \/ record.owner # "attorney"

(* _gap_blockers, over the matrix compiled from the same safety review: the
   comparisons of a row with the record it was compiled from always agree. *)
GapBlockers(p, kept, strict) ==
    (UNION {{c \in {"HIDDEN_MATERIAL_GAP"} : Undisclosed(p, id, kept[id])}
            \cup {c \in {"CRITICAL_DISCLOSURE_INVALID"} : CriticalUnsafe(p, id, kept[id])}
              : id \in DOMAIN kept})
    \cup {c \in {"OUTCOME_DETERMINATIVE_CONTEST"} : strict.determinative # {}}
    \cup {c \in {"HIDDEN_MATERIAL_GAP"} :
            p.overclaims /\ \E id \in DOMAIN kept : ~kept[id].cleared}

(* _lane_fraction: a contest weighs its own importance and is credited with
   the worse of the alternatives it has. *)
LaneWorld(p, lane) ==
    OrdinaryWorld(p.common, lane)
    \cup {Observed(<<"contested", c>>, p.weight[c],
                   Conservative({lane.contested[c][side] :
                       side \in {s \in Alternatives : p.contested[c][s] # "none"}}))
            : c \in DOMAIN p.contested}

Deliverable == {"HIGH_ASSURANCE", "REVIEW_READY_WITH_GAPS"}
Tiers == Deliverable \cup {"NOT_DELIVERABLE"}

Disqualifying(kept) == \E id \in DOMAIN kept : id.origin # "requirement"

(* derive_delivery_readiness_v1. *)
Delivery(p, grades, safety, decisions) ==
    LET strict == StrictEquivalent(p, grades[1], grades[2])
        kept == Reconciled(safety[1], safety[2], decisions)
        worlds == {LaneWorld(p, grades[l]) : l \in 1..2}
        blockers == ReconcileBlockers(p, safety[1], safety[2], decisions)
                    \cup GapBlockers(p, kept, strict)
                    \cup {c \in {"MINIMUM_LANE_COVERAGE_BELOW_FLOOR"} :
                            \E w \in worlds : ~CoversTenths(w, 7)}
        high == /\ strict.disposition = "PASS"
                /\ \A w \in worlds : CoversTenths(w, 9) /\ AllCriticalMet(w)
                /\ ~Disqualifying(kept)
                /\ p.origin = "generated"
    IN [tier |-> IF blockers # {} THEN "NOT_DELIVERABLE"
                 ELSE IF high THEN "HIGH_ASSURANCE" ELSE "REVIEW_READY_WITH_GAPS",
        blockers |-> blockers]

(***************************************************************************)
(* What render_attorney_review_handoff_v1 recomputes from the matrices     *)
(* before it renders a deliverable result (_validate_delivery_semantics).  *)
(***************************************************************************)
RowRenders(p, id, record) ==
    /\ record.blocking = "none"
    /\ ~CriticalUnsafe(p, id, record)
    /\ IF p.contract = "v3"
       THEN record.location # "elsewhere" /\ ~(IsFinding(id) /\ id.kind \in HardKinds)
       ELSE record.cleared \/ /\ record.visibility # "hidden"
                              /\ record.location = "report"
                              /\ record.quoted

(* The lane's scores, recomputed from the rows. *)
RowWorld(p, lane) ==
    OrdinaryWorld(p.common, lane)
    \cup {Observed(<<"contested", c>>, p.weight[c],
                   RowGrade(lane, Identity("contested_requirement", c, "none")))
            : c \in DOMAIN p.contested}

ScoresRecompute(p, lane) ==
    /\ Earned(RowWorld(p, lane)) = Earned(LaneWorld(p, lane))
    /\ Earned(CriticalItems(RowWorld(p, lane))) = Earned(CriticalItems(LaneWorld(p, lane)))

MergedDisposition(worlds) ==
    LET dispositions == {LockedScore(w).disposition : w \in worlds}
    IN IF Cardinality(dispositions) = 1 THEN CHOOSE d \in dispositions : TRUE ELSE "INCONCLUSIVE"

DispositionRecomputes(p, grades, fresh) ==
    LET ordinary == MergedDisposition({OrdinaryWorld(p.common, grades[l]) : l \in 1..2})
        combined == MergedDisposition({RowWorld(p, grades[l]) : l \in 1..2})
    IN IF ordinary = "INCONCLUSIVE" \/ DOMAIN p.contested = {} THEN fresh = ordinary
       ELSE fresh \in {ordinary, combined, "INCONCLUSIVE"}

(* Every requirement that is not met needs a row of origin requirement. *)
RowsCoverRequirements(p, grades, kept) ==
    \A r \in DOMAIN p.common :
        /\ {grades[l].ordinary[r] : l \in 1..2} # {"met"} =>
            Identity("requirement", r, "none") \in DOMAIN kept
        /\ r \in p.gaps => Identity("baseline_gap", r, "none") \in DOMAIN kept

HandoffRenders(p, grades, safety, decisions) ==
    LET result == Delivery(p, grades, safety, decisions)
        kept == Reconciled(safety[1], safety[2], decisions)
        strict == StrictEquivalent(p, grades[1], grades[2])
    IN result.tier \in Deliverable =>
        /\ \A id \in DOMAIN kept : RowRenders(p, id, kept[id])
        /\ \A l \in 1..2 : ScoresRecompute(p, grades[l])
        /\ DispositionRecomputes(p, grades, strict.disposition)
        /\ RowsCoverRequirements(p, grades, kept)
================================================================================
