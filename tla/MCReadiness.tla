------------------------------- MODULE MCReadiness -------------------------------
EXTENDS ReadinessReview

Record(blocking, visibility, owner, location, quoted, cleared) ==
    [blocking |-> blocking, visibility |-> visibility, owner |-> owner,
     location |-> location, quoted |-> quoted, cleared |-> cleared]

Clean == Record("none", "prominent", "attorney", "report", TRUE, FALSE)
Blocking == [Clean EXCEPT !.blocking = "FALSE_RESOLUTION"]
Hidden == [Clean EXCEPT !.visibility = "hidden"]
Operator == [Clean EXCEPT !.owner = "operator"]
Misplaced == [Clean EXCEPT !.location = "elsewhere"]
Cleared == [Clean EXCEPT !.cleared = TRUE]
Unlisted == [Clean EXCEPT !.blocking = "UNLISTED"]

(* Requirements are numbered from 1; the contested requirement is 6 and the
   prerequisite 7. *)
Sided(reviewer, auditor) == [reviewer |-> reviewer, auditor |-> auditor]
Package(common, contested, weight, gaps, prerequisites) ==
    [common |-> common, contested |-> contested, weight |-> weight, gaps |-> gaps,
     prerequisites |-> prerequisites, contract |-> "v3", origin |-> "generated",
     overclaims |-> FALSE]
None == [x \in {} |-> x]
Facts(importance) == [q \in {7} |-> importance]
Case(package, grading, records, findings) ==
    [package |-> package, grades |-> grading, records |-> records, findings |-> findings]

HardFinding == Identity("safety_finding", 1, "BASELINE_CONTRADICTION")
SoftFinding == Identity("safety_finding", 1, "UNDISCLOSED_GRADER_GAP")

One == Package(<<"critical">>, None, None, {}, None)
Five == Package([r \in 1..5 |-> "supporting"], None, None, {}, None)
Gap == Package(<<"supporting", "critical">>, None, None, {1}, None)
Contest(reviewer, auditor, weight) ==
    Package(<<"material", "material">>, [c \in {6} |-> Sided(reviewer, auditor)],
            [c \in {6} |-> weight], {}, None)

(* Records and findings of both kinds on one requirement; five requirements,
   covered to exactly seven parts in ten among others; an external report; the
   retained contract v2; a prerequisite that may be cleared, once in a report
   that overclaims; a gap requirement; and contests, one of them with an absent
   alternative. *)
ReviewCases ==
    {Case(One, {"met", "not_met"}, {Clean, Blocking}, {HardFinding, SoftFinding}),
     Case(One, Grades, {Clean, Operator}, {SoftFinding}),
     Case(Five, {"met", "partially_met"}, {Clean}, {}),
     Case([One EXCEPT !.origin = "external"], {"met", "not_met"}, {Clean, Blocking}, {SoftFinding}),
     Case([One EXCEPT !.contract = "v2"], {"met", "partially_met"}, {Clean, Hidden, Misplaced}, {SoftFinding}),
     Case([One EXCEPT !.prerequisites = Facts("material"), !.overclaims = TRUE],
          {"met", "partially_met"}, {Clean, Cleared, Blocking}, {}),
     Case([One EXCEPT !.prerequisites = Facts("critical"), !.contract = "v2"],
          {"met"}, {Clean, Cleared, Hidden, Blocking}, {}),
     Case(Gap, {"met", "partially_met"}, {Clean, Blocking, Unlisted}, {}),
     Case(Contest("critical", "supporting", "critical"), {"met", "partially_met", "uncertain"}, {Clean}, {}),
     Case(Contest("material", "material", "material"), {"met", "partially_met"}, {Clean}, {}),
     Case([Contest("material", "none", "material") EXCEPT !.common = <<"material">>],
          {"met", "not_met"}, {Clean, Misplaced}, {})}
================================================================================
