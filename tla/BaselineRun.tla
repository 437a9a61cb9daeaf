------------------------------ MODULE BaselineRun ------------------------------
(***************************************************************************)
(* One run of the stable baseline (attorney_baseline_workflow.py): source  *)
(* review, source audit and referees, one accepted answer at a time, the   *)
(* seal and its completion, the drivers that ask evaluators for the        *)
(* answers, and the corrected siblings made of a completed run.            *)
(*                                                                         *)
(* A commit is one step (RunCommit models what is inside one).  A payload  *)
(* that fails its schema can always be answered, so any answer may be      *)
(* refused; what the guards decide is which may be accepted.               *)
(***************************************************************************)
EXTENDS BaselineEdition, Sequences

CONSTANTS
    Drivers,
    MaxFragments,              \* _MAX_FRAGMENTS: 128 in the code
    ReviewDrafts, AuditDrafts, \* the payloads evaluators may answer with
    Corrections(_),            \* the correction records tried on an edition
    MaxEditions

ASSUME DraftsAssumption ==
    /\ MaxFragments \in Nat \ {0}
    /\ \A r \in ReviewDrafts :
        /\ r.proposals \subseteq Proposal /\ IsFiniteSet(r.proposals)
        /\ r.final \in BOOLEAN
    /\ \A a \in AuditDrafts :
        /\ a.concerns \subseteq Concern /\ IsFiniteSet(a.concerns)
        /\ a.findings \subseteq Finding /\ IsFiniteSet(a.findings)
        /\ a.final \in BOOLEAN

VARIABLES
    reviews, audits,  \* the accepted fragments
    decided,          \* the accepted decisions, by dispute, with the one each names
    review,           \* source-review.json, empty until the review ends
    disputes,         \* what source-review.json and source-audit.json dispute
    phase,
    editions,         \* the sealed baseline, then its corrections
    driver            \* per driver, where it is and what it asked
run == <<reviews, audits, decided, review, disputes, phase>>
vars == <<reviews, audits, decided, review, disputes, phase, editions, driver>>

(***************************************************************************)
(* Aggregates of the accepted fragments.                                   *)
(***************************************************************************)
Gathered(fragments, part) == UNION {fragments[i][part] : i \in DOMAIN fragments}
(* What two items of a part may not share: a proposal its statement, a
   finding its target, a concern its target or the statement it adds. *)
Identity(part, x) ==
    CASE part = "proposals" -> [target |-> None, statement |-> x.statement]
      [] part = "findings" -> [target |-> x.target, statement |-> None]
      [] part = "concerns" -> [target |-> x.target,
                               statement |-> IF x.target = None THEN x.correction.statement ELSE None]
(* No item twice, neither in one fragment nor in two. *)
Apart(fragments, part) ==
    \A i, j \in DOMAIN fragments : \A x \in fragments[i][part], y \in fragments[j][part] :
        Identity(part, x) = Identity(part, y) => i = j /\ x = y

(* aggregate_baseline_review_v1 *)
ReviewAggregates(fragments) == Apart(fragments, "proposals")

(* _audit_importance_progress *)
AuditProgresses(reviewed, fragments) ==
    /\ Apart(fragments, "findings")
    /\ \A f \in Gathered(fragments, "findings") : f.target \in Targets(reviewed)

(* aggregate_baseline_audit_v1: known targets, one concern about each, new
   and different omissions, one finding for each proposal. *)
AuditAggregates(reviewed, fragments) ==
    /\ Apart(fragments, "concerns")
    /\ \A c \in Gathered(fragments, "concerns") :
        IF c.target = None THEN c.correction.statement \notin Targets(reviewed)
        ELSE c.target \in Targets(reviewed)
    /\ Apart(fragments, "findings")
    /\ {f.target : f \in Gathered(fragments, "findings")} = Targets(reviewed)

(***************************************************************************)
(* The drivers (continue_baseline_v1, _drive_one_baseline_role_v1) and the *)
(* submission of an answer (_advance_baseline_response_v1).  The           *)
(* controller binds a payload to the request pending now, whichever        *)
(* request it was written for; a payload of another operation fails the    *)
(* schema, and a decision names its dispute.                               *)
(***************************************************************************)
Sealed == phase \in {"sealed", "completed"}
NextDispute ==
    CHOOSE d \in disputes \ DOMAIN decided : \A e \in disputes \ DOMAIN decided : ~Before(e, d)
NoDispute == [kind |-> "none", target |-> None, auditor |-> NoProposal]
Request ==
    [number |-> Len(reviews) + Len(audits) + Cardinality(DOMAIN decided) + 1,
     operation |-> phase,
     about |-> IF phase = "referee" THEN NextDispute ELSE NoDispute]
NoRequest == [number |-> 0, operation |-> "none", about |-> NoDispute]
Nowhere == [at |-> "out", request |-> NoRequest, attempt |-> 1]
Top == [Nowhere EXCEPT !.at = "top"]

Init ==
    /\ reviews = <<>> /\ audits = <<>> /\ decided = <<>>
    /\ review = {} /\ disputes = {}
    /\ phase = "review"
    /\ editions = <<>>
    /\ driver = [d \in Drivers |-> Nowhere]

Start(d) ==
    /\ driver[d].at = "out" /\ phase # "completed"
    /\ driver' = [driver EXCEPT ![d] = Top]
    /\ UNCHANGED <<run, editions>>

(* _complete_sealed_baseline_v1: a seal is completed by whoever loads it. *)
Complete ==
    /\ phase' = IF phase = "sealed" THEN "completed" ELSE phase
    /\ UNCHANGED <<reviews, audits, decided, review, disputes, editions>>

(* The top of the loop: a completed run returns, a seal is completed,
   otherwise the pending request is read. *)
Return(d) ==
    /\ driver[d].at = "top" /\ Sealed
    /\ Complete
    /\ driver' = [driver EXCEPT ![d] = Nowhere]

Ask(d) ==
    /\ driver[d].at = "top" /\ ~Sealed
    /\ driver' = [driver EXCEPT ![d] = [at |-> "asking", request |-> Request, attempt |-> 1]]
    /\ UNCHANGED <<run, editions>>

FitsOperation(d) == driver[d].at = "asking" /\ driver[d].request.operation = phase

Fits(d) ==
    /\ driver[d].at = "asking"
    /\ driver[d].request.operation = phase
    /\ driver[d].request.about = Request.about

Accepted(d) == driver' = [driver EXCEPT ![d] = Top]

ReviewGoesOn(d) ==
    /\ Fits(d) /\ phase = "review" /\ Len(reviews) + 1 < MaxFragments
    /\ \E draft \in {r \in ReviewDrafts : ~r.final /\ r.proposals # {}} : reviews' = Append(reviews, draft)
    /\ Accepted(d)
    /\ UNCHANGED <<audits, decided, review, disputes, phase, editions>>

ReviewEnds(d) ==
    /\ Fits(d) /\ phase = "review"
    /\ \E draft \in {r \in ReviewDrafts : r.final} : reviews' = Append(reviews, draft)
    /\ ReviewAggregates(reviews')
    /\ review' = Gathered(reviews', "proposals")
    /\ phase' = "audit"
    /\ Accepted(d)
    /\ UNCHANGED <<audits, decided, disputes, editions>>

(* The next request repeats what was found so far, and is refused when that
   is not in order. *)
AuditGoesOnUnread(d) ==
    /\ Fits(d) /\ phase = "audit" /\ Len(audits) + 1 < MaxFragments
    /\ \E draft \in {a \in AuditDrafts : ~a.final /\ a.concerns \cup a.findings # {}} :
        audits' = Append(audits, draft)
    /\ Accepted(d)
    /\ UNCHANGED <<reviews, decided, review, disputes, phase, editions>>

AuditGoesOn(d) ==
    /\ Fits(d) /\ phase = "audit" /\ Len(audits) + 1 < MaxFragments
    /\ \E draft \in {a \in AuditDrafts : ~a.final /\ a.concerns \cup a.findings # {}} :
        audits' = Append(audits, draft)
    /\ AuditProgresses(review, audits')
    /\ Accepted(d)
    /\ UNCHANGED <<reviews, decided, review, disputes, phase, editions>>

Seal ==
    /\ phase' = "sealed"
    /\ \E edition \in Compiled(review, decided') : editions' = <<[edition |-> edition, of |-> 0]>>

AuditEnds(d) ==
    /\ Fits(d) /\ phase = "audit"
    /\ \E draft \in {a \in AuditDrafts : a.final} : audits' = Append(audits, draft)
    /\ AuditAggregates(review, audits')
    /\ disputes' = Disputes(review, Gathered(audits', "concerns"), Gathered(audits', "findings"))
    /\ UNCHANGED <<reviews, decided, review>>
    /\ IF disputes' = {} THEN Seal ELSE phase' = "referee" /\ UNCHANGED editions
    /\ Accepted(d)

Decide(d) ==
    /\ Fits(d) /\ phase = "referee"
    /\ \E decision \in {c \in Decision : Permitted(review, Request.about, c)} :
        decided' = [e \in DOMAIN decided \cup {Request.about} |->
            IF e \in DOMAIN decided THEN decided[e]
            ELSE [choice |-> decision.choice, importance |-> decision.importance, about |-> driver[d].request.about]]
    /\ UNCHANGED <<reviews, audits, review, disputes>>
    /\ IF disputes = DOMAIN decided' THEN Seal ELSE UNCHANGED <<phase, editions>>
    /\ Accepted(d)

Submit(d) == ReviewGoesOn(d) \/ ReviewEnds(d) \/ AuditGoesOn(d) \/ AuditEnds(d) \/ Decide(d)

(* A refused answer: the loop starts again when the request has moved on,
   the evaluator is asked once more, or the driver pauses. *)
RefusedCountsAsDone(d) ==
    /\ driver[d].at = "asking"
    /\ Accepted(d)
    /\ UNCHANGED <<run, editions>>

Refused(d) ==
    /\ driver[d].at = "asking"
    /\ driver' = [driver EXCEPT ![d] = IF driver[d].request # Request THEN Top
                                       ELSE IF driver[d].attempt = 1 THEN [driver[d] EXCEPT !.attempt = 2]
                                       ELSE Nowhere]
    /\ UNCHANGED <<run, editions>>

(* The evaluator raises: the driver pauses, completing a seal on its way. *)
ProviderFails(d) ==
    /\ driver[d].at = "asking"
    /\ Complete
    /\ driver' = [driver EXCEPT ![d] = Nowhere]

(* max_roles is reached, the process is killed, or another process commits
   between this one's verification and its commit, which then raises. *)
Leave(d) ==
    /\ driver[d].at # "out"
    /\ driver' = [driver EXCEPT ![d] = Nowhere]
    /\ UNCHANGED <<run, editions>>

(* initialize_baseline_v1 with a correction: a completed sibling. *)
Correct ==
    /\ phase = "completed" /\ Len(editions) < MaxEditions
    /\ \E i \in DOMAIN editions : \E c \in {r \in Corrections(editions[i].edition) : WellFormed(r)} :
        \E after \in Corrected(editions[i].edition, c) :
            editions' = Append(editions, [edition |-> after, of |-> i, by |-> c])
    /\ UNCHANGED <<run, driver>>

Move(d) == Return(d) \/ Ask(d) \/ Submit(d) \/ Refused(d) \/ ProviderFails(d)
Next == (\E d \in Drivers : Start(d) \/ Move(d) \/ Leave(d)) \/ Correct

(* An evaluator answers or raises, so a driver that runs takes its steps;
   nobody has to start one. *)
Spec == Init /\ [][Next]_vars /\ \A d \in Drivers : WF_vars(Move(d))

(***************************************************************************)
(* Properties.                                                             *)
(***************************************************************************)
(* Fragments, decisions, editions and drivers are of their types. *)
TypeOK ==
    /\ reviews \in Seq(ReviewDrafts) /\ audits \in Seq(AuditDrafts)
    /\ review \subseteq Proposal
    /\ DOMAIN decided \subseteq disputes
    /\ phase \in {"review", "audit", "referee", "sealed", "completed"}
    /\ \A i \in DOMAIN editions :
        /\ editions[i].of \in 0..(i - 1)
        /\ editions[i].edition.requirements \subseteq Proposal
        /\ \A k \in editions[i].edition.contests : Alternatives(k) \subseteq Proposal
    /\ \A d \in Drivers :
        /\ driver[d].at \in {"out", "top", "asking"}
        /\ driver[d].attempt \in {1, 2}
        /\ driver[d].request.number \in 0..Request.number

(* Every commit leaves a run that verifies (_replay_review, _replay_audit,
   _replay_referees, _phase_requires): whatever order two drivers' answers
   land in, the next process to load the directory can build every request,
   aggregate and the baseline again from the accepted answers. *)
OneFinal(fragments, complete) ==
    /\ Len(fragments) <= IF complete THEN MaxFragments ELSE MaxFragments - 1
    /\ \A i \in DOMAIN fragments : fragments[i].final <=> complete /\ i = Len(fragments)
Reviewed == phase # "review"
Audited == phase \notin {"review", "audit"}
RunVerifies ==
    /\ OneFinal(reviews, Reviewed) /\ OneFinal(audits, Audited)
    /\ Reviewed => ReviewAggregates(reviews) /\ review = Gathered(reviews, "proposals")
    /\ Reviewed => AuditProgresses(review, audits)
    /\ Audited => AuditAggregates(review, audits)
    /\ \A d \in DOMAIN decided, e \in disputes \ DOMAIN decided : Before(d, e)
    /\ phase = "referee" => disputes # DOMAIN decided
    /\ Sealed => /\ DOMAIN decided = Disputes(review, Gathered(audits, "concerns"), Gathered(audits, "findings"))
                 /\ \A d \in DOMAIN decided : Permitted(review, d, decided[d])
                 /\ editions[1].edition \in Compiled(review, decided)
    /\ ~Sealed => editions = <<>>

(* A decision is only ever applied to the dispute it was written about, also
   when another driver's decision lands first. *)
DecisionsAnswerTheirDispute ==
    \A d \in DOMAIN decided : decided[d].about = d

Outcome == editions[1].edition
Ruled(choices) == {d \in DOMAIN decided : decided[d].choice \in choices}
Shown ==
    Outcome.requirements \cup UNION {Alternatives(k) : k \in Outcome.contests}

(* What a proposal says after the concern about it, if that was accepted. *)
Replacements(t) == {d \in Ruled({"accept_auditor"}) : d.kind = "semantic" /\ d.target = t}
Said(t) == IF Replacements(t) = {} THEN t ELSE (CHOOSE d \in Replacements(t) : TRUE).auditor.statement
Contesting(t) == {k \in Outcome.contests : k.dispute.target = t}

(* Nothing a reviewer or an auditor stated is lost on the way to the
   baseline: each proposal is there as it was, as what an accepted concern
   made of it, or contested; so is each correction a referee did not reject. *)
NothingDisappears ==
    Sealed =>
        /\ \A t \in Targets(review) : \E p \in Shown : p.statement = Said(t)
        /\ \A d \in {e \in Ruled({"accept_auditor", "unresolved"}) : e.kind = "semantic"} :
            d.auditor = NoProposal \/ \E p \in Shown : p.statement = d.auditor.statement

(* The tier a ruling gives a proposal: that of the side its importance went
   to or, if nobody settled that, of what it now says. *)
SaidTier(t) ==
    IF Replacements(t) = {} THEN Proposed(review, t).importance
    ELSE (CHOOSE d \in Replacements(t) : TRUE).auditor.importance
Regraded(t) == {d \in Ruled({"accept_auditor"}) : d.kind = "importance" /\ d.target = t}
Kept(t) == {d \in Ruled({"accept_reviewer"}) : d.kind = "importance" /\ d.target = t}
RuledTier(t) ==
    IF Regraded(t) # {} THEN (CHOOSE d \in Regraded(t) : TRUE).auditor.importance
    ELSE IF Kept(t) # {} THEN Proposed(review, t).importance
    ELSE SaidTier(t)
AcceptedOmissions == {d \in Ruled({"accept_auditor"}) : d.kind = "semantic" /\ d.target = None}

(* Tiers come from the side the rulings chose.  The requirements are the
   proposals nobody left open, each at the tier of the side it went to, and
   the accepted omissions, each at the auditor's.  A contest shows the
   reviewer's side at that tier too, also one settled in another dispute, and
   the auditor's at the auditor's.  The tier a contest is published at is its
   referee's: one of the two stated for the proposal when the contest is about
   importance, and any tier at all when it is about a concern. *)
TiersFollowRulings ==
    Sealed =>
        /\ {<<p.statement, p.importance>> : p \in Outcome.requirements} =
              {<<Said(t), RuledTier(t)>> : t \in {u \in Targets(review) : Contesting(u) = {}}}
              \cup {<<d.auditor.statement, d.auditor.importance>> : d \in AcceptedOmissions}
        /\ \A k \in Outcome.contests :
            /\ k.reviewer # NoProposal => k.reviewer.importance = RuledTier(k.dispute.target)
            /\ k.auditor # NoProposal => k.auditor.importance = k.dispute.auditor.importance
            /\ k.importance = decided[k.dispute].importance
            /\ k.dispute.kind = "importance" =>
                k.importance \in {Proposed(review, k.dispute.target).importance, k.dispute.auditor.importance}

(* What stands under a number, told without numbers. *)
Standing(edition, n) ==
    IF n <= Cardinality(edition.requirements) THEN Requirement(edition, n)
    ELSE CHOOSE k \in edition.contests : ContestNumber(edition, k) = n
Meant(prior, c, n) ==
    IF n \in DOMAIN Labelled(prior, c) THEN Labelled(prior, c)[n]
    ELSE CHOOSE k \in prior.contests : ContestNumber(prior, k) = n

(* A correction renumbers everything after what it adds, removes or rewords;
   the relationships it keeps or adds still join the things it meant, and
   there are no others. *)
RelationshipsFollow ==
    \A i \in {j \in DOMAIN editions : editions[j].of # 0} :
        LET prior == editions[editions[i].of].edition
            after == editions[i].edition
            c == editions[i].by
        IN {<<Standing(after, l[1]), Standing(after, l[2])>> : l \in after.links}
            = {<<Meant(prior, c, l[1]), Meant(prior, c, l[2])>> : l \in LabelledLinks(prior, c)}

(* Every invocation returns, however often other drivers overtake it. *)
InvocationReturns == \A d \in Drivers : driver[d].at = "top" ~> driver[d].at = "out"
================================================================================
