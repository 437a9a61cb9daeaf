---------------------------- MODULE BaselineOutcome ----------------------------
(***************************************************************************)
(* The stable baseline, the pure part of attorney_baseline_compiler.py:    *)
(* what a source review, its audit and the referees' decisions make of     *)
(* each proposal.                                                          *)
(*                                                                         *)
(* A proposal is its statement (normalised; the aggregate has each once,   *)
(* so the statement also stands for the reference PR-0001), its importance *)
(* and the statement it depends on.  Passages, rationales and confidence   *)
(* are left out: they are checked one proposal at a time.                  *)
(***************************************************************************)
EXTENDS Naturals, FiniteSets

CONSTANTS
    Statements,  \* what proposals may say, numbered in the order of their passages
    Importances  \* critical, material, supporting, each with its basis

None == 0  \* no statement

ASSUME StatementsAssumption == Statements \subseteq Nat \ {None} /\ "none" \notin Importances

Proposal == [statement : Statements, importance : Importances, dependency : Statements \cup {None}]
NoProposal == [statement |-> None, importance |-> "none", dependency |-> None]

(* A concern names the proposal it is about, None for an omission, and its
   correction, which only a concern about ambiguity may lack. *)
Concern == {c \in [target : Statements \cup {None}, correction : Proposal \cup {NoProposal}] :
                c.target = None => c.correction # NoProposal}
Finding == [target : Statements, importance : Importances]

Rated(proposal, importance) == [proposal EXCEPT !.importance = importance]

Targets(review) == {p.statement : p \in review}
Proposed(review, target) ==
    IF target \in Targets(review) THEN CHOOSE p \in review : p.statement = target ELSE NoProposal

(* One statement per proposal (_validate_proposal_semantics). *)
Distinct(proposals) ==
    \A p, q \in proposals : p.statement = q.statement => p = q

(***************************************************************************)
(* Disputes: one for every concern, and one for every importance on which  *)
(* the auditor differs (build_baseline_disputes_v1).                       *)
(***************************************************************************)
Semantic(concern) == [kind |-> "semantic", target |-> concern.target, auditor |-> concern.correction]
Importance(review, finding) ==
    [kind |-> "importance", target |-> finding.target,
     auditor |-> Rated(Proposed(review, finding.target), finding.importance)]

Disputes(review, concerns, findings) ==
    {Semantic(c) : c \in concerns}
    \cup {Importance(review, f) :
            f \in {g \in findings : g.importance # Proposed(review, g.target).importance}}

Rulings == {"accept_reviewer", "accept_auditor", "unresolved"}
Decision == [choice : Rulings, importance : Importances]

(* _validate_baseline_referee_choice_v1: an accepted side is accepted with
   the importance that side gave; an unresolved importance stays with one of
   the two; an unresolved concern may get any. *)
Permitted(review, dispute, decision) ==
    LET reviewer == Proposed(review, dispute.target).importance
        auditor == dispute.auditor.importance
    IN CASE decision.choice = "accept_reviewer" -> decision.importance = reviewer
         [] decision.choice = "accept_auditor" -> decision.importance = auditor
         [] OTHER -> dispute.kind = "importance" => decision.importance \in {reviewer, auditor}

(***************************************************************************)
(* compile_canonical_baseline_v1, one target at a time.  The code walks    *)
(* the semantic disputes and then the importance disputes; an aggregate    *)
(* has at most one of each for a target.                                   *)
(***************************************************************************)
About(decided, kind, target) ==
    {d \in DOMAIN decided : d.kind = kind /\ d.target = target}

(* The requirement the target is after its semantic dispute, as a set:
   empty when the referee left it unresolved. *)
AfterConcern(review, decided, target) ==
    IF About(decided, "semantic", target) = {} THEN {Proposed(review, target)}
    ELSE {IF decided[d].choice = "accept_auditor" THEN Rated(d.auditor, decided[d].importance)
          ELSE Rated(Proposed(review, target), decided[d].importance)
            : d \in {s \in About(decided, "semantic", target) : decided[s].choice # "unresolved"}}

(* ... and after its importance dispute. *)
Ordinary(review, decided, target) ==
    IF About(decided, "importance", target) = {} THEN AfterConcern(review, decided, target)
    ELSE {Rated(p, decided[d].importance) :
            p \in AfterConcern(review, decided, target),
            d \in {i \in About(decided, "importance", target) : decided[i].choice # "unresolved"}}

(* Accepted omissions. *)
Additions(decided) ==
    {Rated(d.auditor, decided[d].importance) :
        d \in {s \in About(decided, "semantic", None) : decided[s].choice = "accept_auditor"}}

Requirements(review, decided) ==
    (UNION {Ordinary(review, decided, t) : t \in Targets(review)}) \cup Additions(decided)

(* The reviewer's side of an unresolved concern takes the importance a
   referee settled on. *)
ReviewerSideUnrated(review, decided, target) == Proposed(review, target)

ReviewerSide(review, decided, target) ==
    LET settled == {d \in About(decided, "importance", target) : decided[d].choice # "unresolved"}
    IN IF target = None \/ settled = {} THEN Proposed(review, target)
       ELSE Rated(Proposed(review, target), decided[CHOOSE d \in settled : TRUE].importance)

(* An unresolved importance is contested between the requirement as it is by
   then, or the reviewer's, and the same with the auditor's importance. *)
RatedSide(review, decided, target) ==
    IF AfterConcern(review, decided, target) = {} THEN Proposed(review, target)
    ELSE CHOOSE p \in AfterConcern(review, decided, target) : TRUE

Contest(dispute, importance, reviewer, auditor) ==
    [dispute |-> dispute, importance |-> importance, reviewer |-> reviewer, auditor |-> auditor]

ContestedAtOneTier(review, decided, d) ==
    Contest(d, decided[d].importance,
            Rated(ReviewerSide(review, decided, d.target), decided[d].importance), d.auditor)

Contested(review, decided, d) ==
    IF d.kind = "semantic"
    THEN Contest(d, decided[d].importance, ReviewerSide(review, decided, d.target), d.auditor)
    ELSE Contest(d, decided[d].importance, RatedSide(review, decided, d.target),
                 Rated(RatedSide(review, decided, d.target), d.auditor.importance))

UnresolvedCorrections(decided) ==
    {d \in DOMAIN decided : decided[d].choice = "unresolved" /\ d.auditor # NoProposal}

Unresolved(decided) == {d \in DOMAIN decided : decided[d].choice = "unresolved"}
Contests(review, decided) == {Contested(review, decided, d) : d \in Unresolved(decided)}

Alternatives(contest) == {contest.reviewer, contest.auditor} \ {NoProposal}
================================================================================
