--------------------------- MODULE BaselineRun_proofs ---------------------------
(***************************************************************************)
(* Theorems about BaselineRun, for any statements, importances, drivers,   *)
(* finite drafts, corrections and bounds.                                  *)
(*                                                                         *)
(* Invariant (IInv) says how the fragments, the aggregates, the decisions, *)
(* the editions and the drivers hang together in every state; TypesHold    *)
(* and RunsVerify are read off it.  What a sealed baseline shows follows   *)
(* from the invariant by cases on the disputes about a proposal            *)
(* (NothingIsLost, TiersAreRuled), and what the relationships of a         *)
(* corrected edition join, from counting: the numbers of an edition are    *)
(* the places of its statements (RelationshipsFollowCorrections).          *)
(***************************************************************************)
EXTENDS BaselineRun, FiniteSetTheorems, SequenceTheorems, TLAPS

(***************************************************************************)
(* A decision lands on the dispute it names: Fits compares the dispute     *)
(* asked about with the one pending, so the invariant is inductive.        *)
(***************************************************************************)

(* Only Decide changes the decisions. *)
LEMMA OnlyDecideDecides ==
    ASSUME Next, ~ \E d \in Drivers : Decide(d)
    PROVE  decided' = decided
<1>1. CASE \E d \in Drivers : Start(d) \/ Leave(d)
  BY <1>1 DEF Start, Leave, run
<1>2. CASE \E d \in Drivers : Move(d)
  BY <1>2 DEF Move, Return, Ask, Submit, ReviewGoesOn, ReviewEnds, AuditGoesOn, AuditEnds, Refused,
      ProviderFails, Complete, run
<1>3. CASE Correct
  BY <1>3 DEF Correct, run
<1> QED BY <1>1, <1>2, <1>3 DEF Next

(* Whatever other drivers do between a driver's question and its answer, the
   decision it brings is never recorded for another dispute
   (AcceptedBaselineRefereeFragmentV1, _controller_bound_response_v1). *)
THEOREM DecisionsLandOnTheirDispute == Spec => []DecisionsAnswerTheirDispute
<1>1. Init => DecisionsAnswerTheirDispute
  BY DEF Init, DecisionsAnswerTheirDispute
<1>2. DecisionsAnswerTheirDispute /\ [Next]_vars => DecisionsAnswerTheirDispute'
  <2> SUFFICES ASSUME DecisionsAnswerTheirDispute, [Next]_vars
               PROVE  DecisionsAnswerTheirDispute'
    OBVIOUS
  <2>1. CASE decided' = decided
    BY <2>1 DEF DecisionsAnswerTheirDispute
  <2>2. CASE \E d \in Drivers : Decide(d)
    <3>1. PICK d \in Drivers : Decide(d)
      BY <2>2
    <3>2. driver[d].request.about = Request.about
      BY <3>1 DEF Decide, Fits
    <3>3. PICK c \in Decision :
            decided' = [e \in DOMAIN decided \cup {Request.about} |->
                IF e \in DOMAIN decided THEN decided[e]
                ELSE [choice |-> c.choice, importance |-> c.importance, about |-> Request.about]]
      BY <3>1, <3>2 DEF Decide
    <3> QED BY <3>3 DEF DecisionsAnswerTheirDispute
  <2> QED BY <2>1, <2>2, OnlyDecideDecides DEF vars
<1> QED BY <1>1, <1>2, PTL DEF Spec

(***************************************************************************)
(* Numbers, proposals and disputes.                                        *)
(***************************************************************************)
(* A nonempty set of natural numbers has a least element. *)
LEMMA LeastNatural ==
    ASSUME NEW S \in SUBSET Nat, S # {}
    PROVE  \E x \in S : \A y \in S : x <= y
<1> DEFINE R == OpToRel(<, Nat)
<1>1. \E x \in S : \A y \in S : ~ (<<y, x>> \in R)
  <2>1. IsWellFoundedOn(R, Nat) /\ S \subseteq Nat
    BY NatLessThanWellFounded
  <2> HIDE DEF R
  <2> QED BY <2>1, WFMin
<1>2. PICK x \in S : \A y \in S : ~ (<<y, x>> \in R)
  BY <1>1
<1>3. \A y \in S : ~(y < x)
  BY <1>2 DEF OpToRel
<1> QED BY <1>3

(* Statements are positive numbers, and a proposal is told from none. *)
LEMMA ProposalFields ==
    /\ None \in Nat /\ None \notin Statements /\ Statements \subseteq Nat
    /\ "none" \notin Importances
    /\ NoProposal \notin Proposal
    /\ \A p \in Proposal \cup {NoProposal} : p.statement \in Nat
    /\ \A p \in Proposal : p.statement \in Statements /\ p.importance \in Importances
    /\ NoProposal.statement = None /\ NoProposal.importance = "none"
<1>1. None \in Nat /\ None \notin Statements /\ Statements \subseteq Nat /\ "none" \notin Importances
  BY StatementsAssumption DEF None
<1>2. \A p \in Proposal : p.statement \in Statements /\ p.importance \in Importances
  BY DEF Proposal
<1>3. NoProposal.statement = None /\ NoProposal.importance = "none"
  BY DEF NoProposal
<1> QED BY <1>1, <1>2, <1>3

(* What a rating does to a proposal. *)
LEMMA RatedProposal ==
    ASSUME NEW p \in Proposal, NEW i \in Importances
    PROVE  /\ Rated(p, i) \in Proposal
           /\ Rated(p, i).statement = p.statement
           /\ Rated(p, i).importance = i
           /\ Rated(p, p.importance) = p
BY DEF Rated, Proposal

(* The proposal under a statement. *)
LEMMA ProposedIsThere ==
    ASSUME NEW reviewed \in SUBSET Proposal, NEW t
    PROVE  /\ t \in Targets(reviewed) => /\ Proposed(reviewed, t) \in reviewed
                                       /\ Proposed(reviewed, t).statement = t
           /\ t \notin Targets(reviewed) => Proposed(reviewed, t) = NoProposal
           /\ Targets(reviewed) \subseteq Statements
BY ProposalFields DEF Targets, Proposed

(* Disputes about proposals. *)
DisputeShape(d) ==
    /\ d = [kind |-> d.kind, target |-> d.target, auditor |-> d.auditor]
    /\ d.kind \in {"semantic", "importance"}
    /\ d.target \in Statements \cup {None}
    /\ d.auditor \in Proposal \cup {NoProposal}
    /\ d.kind = "importance" => d.target # None /\ d.auditor \in Proposal
    /\ d.target = None => d.auditor \in Proposal

LEMMA DisputesShape ==
    ASSUME NEW reviewed \in SUBSET Proposal, NEW concerns \in SUBSET Concern,
           NEW findings \in SUBSET Finding,
           \A f \in findings : f.target \in Targets(reviewed)
    PROVE  \A d \in Disputes(reviewed, concerns, findings) : DisputeShape(d)
<1>1. ASSUME NEW c \in concerns PROVE DisputeShape(Semantic(c))
  BY DEF Semantic, Concern, DisputeShape
<1>2. ASSUME NEW f \in findings PROVE DisputeShape(Importance(reviewed, f))
  <2>1. f.target \in Statements /\ f.importance \in Importances /\ f.target \in Targets(reviewed)
    BY DEF Finding
  <2>2. Proposed(reviewed, f.target) \in Proposal
    BY <2>1, ProposedIsThere
  <2>3. Rated(Proposed(reviewed, f.target), f.importance) \in Proposal
    BY <2>1, <2>2, RatedProposal
  <2> QED BY <2>1, <2>3, ProposalFields DEF Importance, DisputeShape
<1> QED BY <1>1, <1>2 DEF Disputes

(* Before is a strict order. *)
LEMMA BeforeOrders ==
    ASSUME NEW D, \A d \in D : DisputeShape(d)
    PROVE  /\ \A d \in D : ~Before(d, d)
           /\ \A d, e \in D : Before(d, e) => ~Before(e, d)
           /\ \A d, e, f \in D : Before(d, e) /\ Before(e, f) => Before(d, f)
<1>1. \A d \in D : d.target \in Nat /\ d.auditor.statement \in Nat
  BY ProposalFields DEF DisputeShape
<1> QED BY <1>1 DEF Before

(* There is a first dispute among any. *)
LEMMA FirstDispute ==
    ASSUME NEW D, D # {}, \A d \in D : DisputeShape(d)
    PROVE  \E d \in D : \A e \in D : ~Before(e, d)
<1> DEFINE Least(S) == \E d \in S : \A e \in S : ~Before(e, d)
           OfKind(k) == {d \in D : d.kind = k}
<1>1. \A d \in D : d.target \in Nat /\ d.auditor.statement \in Nat
                   /\ d.kind \in {"semantic", "importance"}
  BY ProposalFields DEF DisputeShape
<1>2. ASSUME NEW k, OfKind(k) # {} PROVE Least(OfKind(k))
  <2> DEFINE targets == {d.target : d \in OfKind(k)}
  <2>1. PICK t \in targets : \A u \in targets : t <= u
    <3>1. targets \in SUBSET Nat /\ targets # {}
      BY <1>1, <1>2
    <3> HIDE DEF targets
    <3> QED BY <3>1, LeastNatural
  <2> DEFINE same == {d \in OfKind(k) : d.target = t}
             statements == {d.auditor.statement : d \in same}
  <2>2. PICK s \in statements : \A u \in statements : s <= u
    <3>1. statements \in SUBSET Nat /\ statements # {}
      BY <1>1, <2>1
    <3> HIDE DEF statements
    <3> QED BY <3>1, LeastNatural
  <2>3. PICK d \in same : d.auditor.statement = s
    BY <2>2
  <2>4. ASSUME NEW e \in OfKind(k) PROVE ~Before(e, d)
    <3>1. d.kind = k /\ e.kind = k /\ d.target = t
      BY <2>3, <2>4
    <3>2. t <= e.target /\ t \in Nat /\ e.target \in Nat
      BY <1>1, <2>1
    <3>3. CASE e.target = t
      <4>1. e \in same
        BY <2>4, <3>3
      <4>2. s <= e.auditor.statement /\ s \in Nat /\ e.auditor.statement \in Nat
        BY <1>1, <2>2, <2>4, <4>1
      <4>3. ~(e.auditor.statement < d.auditor.statement)
        BY <2>3, <4>2
      <4>4. e.target = d.target /\ ~(e.target < d.target) /\ e.kind = d.kind
        BY <3>1, <3>2, <3>3
      <4> HIDE DEF same
      <4> QED BY <3>1, <4>3, <4>4 DEF Before
    <3>4. CASE e.target # t
      BY <3>1, <3>2, <3>4 DEF Before
    <3> QED BY <3>3, <3>4
  <2>5. d \in OfKind(k)
    BY <2>3
  <2> QED BY <2>4, <2>5
<1>3. CASE OfKind("importance") # {}
  <2>1. PICK d \in OfKind("importance") : \A e \in OfKind("importance") : ~Before(e, d)
    BY <1>2, <1>3
  <2>2. \A e \in D : e.kind # "importance" => ~Before(e, d)
    BY <1>1, <2>1 DEF Before
  <2> QED BY <2>1, <2>2
<1>4. CASE OfKind("importance") = {}
  <2>1. OfKind("semantic") = D
    BY <1>1, <1>4
  <2> QED BY <1>2, <2>1
<1> QED BY <1>3, <1>4

(* Items told apart within and across fragments are told apart together. *)
LEMMA ApartTogether ==
    ASSUME NEW fragments, NEW part, Apart(fragments, part)
    PROVE  \A x, y \in Gathered(fragments, part) : Identity(part, x) = Identity(part, y) => x = y
BY DEF Apart, Gathered

(* What an audit that aggregates disputes. *)
Aggregated(reviewed, concerns, findings) ==
    /\ reviewed \in SUBSET Proposal
    /\ \A p, q \in reviewed : p.statement = q.statement => p = q
    /\ concerns \in SUBSET Concern /\ findings \in SUBSET Finding
    /\ \A c \in concerns : c.target # None => c.target \in Targets(reviewed)
    /\ \A f \in findings : f.target \in Targets(reviewed)
    /\ \A c, d \in concerns : Identity("concerns", c) = Identity("concerns", d) => c = d
    /\ \A f, g \in findings : f.target = g.target => f = g

LEMMA AuditIsAggregated ==
    ASSUME NEW rs \in Seq(ReviewDrafts), ReviewAggregates(rs), NEW au \in Seq(AuditDrafts),
           AuditAggregates(Gathered(rs, "proposals"), au)
    PROVE  Aggregated(Gathered(rs, "proposals"), Gathered(au, "concerns"), Gathered(au, "findings"))
<1>1. \A i \in DOMAIN rs : rs[i] \in ReviewDrafts
  OBVIOUS
<1>2. \A i \in DOMAIN au : au[i] \in AuditDrafts
  BY ElementOfSeq
<1>3. Gathered(rs, "proposals") \in SUBSET Proposal
  BY <1>1, DraftsAssumption DEF Gathered
<1>4. Gathered(au, "concerns") \in SUBSET Concern /\ Gathered(au, "findings") \in SUBSET Finding
  BY <1>2, DraftsAssumption DEF Gathered
<1>5. \A p, q \in Gathered(rs, "proposals") : p.statement = q.statement => p = q
  BY ApartTogether DEF ReviewAggregates, Identity
<1>6. \A c, d \in Gathered(au, "concerns") : Identity("concerns", c) = Identity("concerns", d) => c = d
  BY ApartTogether DEF AuditAggregates
<1>7. \A f, g \in Gathered(au, "findings") : f.target = g.target => f = g
  BY ApartTogether DEF AuditAggregates, Identity
<1>8. /\ \A c \in Gathered(au, "concerns") : c.target # None => c.target \in Targets(Gathered(rs, "proposals"))
      /\ \A f \in Gathered(au, "findings") : f.target \in Targets(Gathered(rs, "proposals"))
  BY DEF AuditAggregates
<1> QED BY <1>3, <1>4, <1>5, <1>6, <1>7, <1>8 DEF Aggregated

(* There is at most one dispute of each kind about a proposal, disputes about
   omissions differ in what they add, and Before decides between any two. *)
LEMMA DisputesApart ==
    ASSUME NEW reviewed, NEW concerns, NEW findings, Aggregated(reviewed, concerns, findings),
           NEW d \in Disputes(reviewed, concerns, findings),
           NEW e \in Disputes(reviewed, concerns, findings)
    PROVE  /\ DisputeShape(d)
           /\ d.kind = e.kind /\ d.target = e.target /\ d.target # None => d = e
           /\ d = e \/ Before(d, e) \/ Before(e, d)
<1>1. DisputeShape(d) /\ DisputeShape(e)
  BY DisputesShape DEF Aggregated
<1>2. ASSUME d.kind = e.kind, d.target = e.target
             PROVE  d = e \/ (d.target = None /\ d.kind = "semantic" /\ d.auditor.statement # e.auditor.statement)
  <2>1. CASE d.kind = "semantic"
    <3>1. PICK c \in concerns : d = Semantic(c)
      BY <2>1 DEF Disputes, Importance
    <3>2. PICK b \in concerns : e = Semantic(b)
      BY <2>1, <1>2 DEF Disputes, Importance
    <3>3. /\ c.target = d.target /\ c.correction = d.auditor
          /\ b.target = d.target /\ b.correction = e.auditor
      BY <1>2, <3>1, <3>2 DEF Semantic
    <3>4. c = b \/ Identity("concerns", c) # Identity("concerns", b)
      BY DEF Aggregated
    <3>5. CASE c = b
      BY <3>1, <3>2, <3>5
    <3>6. CASE Identity("concerns", c) # Identity("concerns", b)
      BY <2>1, <3>3, <3>6 DEF Identity
    <3> QED BY <3>4, <3>5, <3>6
  <2>2. CASE d.kind # "semantic"
    <3>1. PICK f \in findings : d = Importance(reviewed, f)
      BY <2>2 DEF Disputes, Semantic
    <3>2. PICK g \in findings : e = Importance(reviewed, g)
      BY <2>2, <1>2 DEF Disputes, Semantic
    <3>3. f.target = g.target
      BY <1>2, <3>1, <3>2 DEF Importance
    <3>4. f = g
      BY <3>3 DEF Aggregated
    <3> QED BY <3>1, <3>2, <3>4
  <2> QED BY <2>1, <2>2
<1>3. d.target \in Nat /\ e.target \in Nat /\ d.auditor.statement \in Nat /\ e.auditor.statement \in Nat
      /\ d.kind \in {"semantic", "importance"} /\ e.kind \in {"semantic", "importance"}
  BY <1>1, ProposalFields DEF DisputeShape
<1> QED BY <1>1, <1>2, <1>3 DEF Before

(***************************************************************************)
(* The invariant of a run.                                                 *)
(***************************************************************************)
(* The fragments are drafts, the last of a complete role final. *)
FragmentsInv ==
    /\ phase \in {"review", "audit", "referee", "sealed", "completed"}
    /\ reviews \in Seq(ReviewDrafts) /\ audits \in Seq(AuditDrafts)
    /\ Reviewed => OneFinal(reviews, TRUE)
    /\ ~Reviewed => OneFinal(reviews, FALSE)
    /\ Audited => OneFinal(audits, TRUE)
    /\ ~Audited => OneFinal(audits, FALSE)

(* What has been aggregated is the aggregate of the fragments. *)
AggregatesInv ==
    /\ ~Reviewed => review = {} /\ audits = <<>>
    /\ Reviewed => ReviewAggregates(reviews) /\ review = Gathered(reviews, "proposals")
    /\ Reviewed => AuditProgresses(review, audits)
    /\ ~Audited => disputes = {} /\ decided = <<>>
    /\ Audited => /\ AuditAggregates(review, audits)
                  /\ disputes = Disputes(review, Gathered(audits, "concerns"), Gathered(audits, "findings"))

(* Disputes are decided in their order, each as it may be. *)
DecisionsInv ==
    /\ DOMAIN decided \subseteq disputes /\ IsFiniteSet(DOMAIN decided)
    /\ \A d \in DOMAIN decided :
        /\ decided[d].choice \in Rulings /\ decided[d].importance \in Importances
        /\ Permitted(review, d, decided[d])
    /\ \A d \in DOMAIN decided, e \in disputes \ DOMAIN decided : Before(d, e)
    /\ phase = "referee" => disputes # DOMAIN decided
    /\ Sealed => disputes = DOMAIN decided

(* Requirements apart by their statements, contests between proposals. *)
EditionShape(edition) ==
    /\ edition.requirements \subseteq Proposal /\ IsFiniteSet(edition.requirements)
    /\ \A p, q \in edition.requirements : p.statement = q.statement => p = q
    /\ IsFiniteSet(edition.contests)
    /\ \A k \in edition.contests : Alternatives(k) \subseteq Proposal /\ DisputeShape(k.dispute)

(* The first edition is compiled from the decisions, every other corrected
   from an earlier one. *)
EditionsInv ==
    /\ editions \in Seq({editions[i] : i \in DOMAIN editions})
    /\ ~Sealed => editions = <<>>
    /\ Sealed => /\ Len(editions) >= 1 /\ editions[1].of = 0
                 /\ editions[1].edition \in Compiled(review, decided)
    /\ \A i \in DOMAIN editions :
        /\ EditionShape(editions[i].edition)
        /\ editions[i].of \in 0..(i - 1)
        /\ editions[i].of = 0 => i = 1
        /\ editions[i].of # 0 => /\ WellFormed(editions[i].by)
                                 /\ editions[i].edition
                                      \in Corrected(editions[editions[i].of].edition, editions[i].by)

(* A driver asks a request of the past or the pending one. *)
DriversInv ==
    /\ driver = [d \in Drivers |-> [at |-> driver[d].at, request |-> driver[d].request,
                                    attempt |-> driver[d].attempt]]
    /\ \A d \in Drivers :
        /\ driver[d].at \in {"out", "top", "asking"}
        /\ driver[d].attempt \in {1, 2}
        /\ driver[d].request.number \in 0..Request.number

RunInv == FragmentsInv /\ AggregatesInv /\ DecisionsInv
IInv == RunInv /\ EditionsInv /\ DriversInv

(***************************************************************************)
(* Sequences of fragments.                                                 *)
(***************************************************************************)
(* A fragment that goes on keeps a role open, a final one closes it. *)
LEMMA OneMoreFragment ==
    ASSUME NEW T, \A x \in T : x.final \in BOOLEAN, NEW s \in Seq(T), NEW x \in T, OneFinal(s, FALSE)
    PROVE  /\ Append(s, x) \in Seq(T)
           /\ ~x.final /\ Len(s) + 1 < MaxFragments => OneFinal(Append(s, x), FALSE)
           /\ x.final => OneFinal(Append(s, x), TRUE)
           /\ Len(Append(s, x)) = Len(s) + 1 /\ Len(s) \in Nat
<1>1. Append(s, x) \in Seq(T) /\ Len(Append(s, x)) = Len(s) + 1 /\ Len(s) \in Nat
  OBVIOUS
<1>2. /\ DOMAIN s = 1..Len(s) /\ DOMAIN Append(s, x) = 1..(Len(s) + 1)
      /\ \A i \in 1..Len(s) : Append(s, x)[i] = s[i] /\ s[i] \in T
      /\ Append(s, x)[Len(s) + 1] = x
  BY AppendProperties
<1>3. MaxFragments \in Nat
  BY DraftsAssumption
<1>4. Len(s) <= MaxFragments - 1 /\ \A i \in DOMAIN s : ~s[i].final
  BY DEF OneFinal
<1>5. x.final \in BOOLEAN
  OBVIOUS
<1> DEFINE t == Append(s, x)
<1>6. \A i \in DOMAIN t : i = Len(s) + 1 \/ (i \in 1..Len(s) /\ i # Len(s) + 1)
  BY <1>1, <1>2
<1> HIDE DEF t
<1>7. ASSUME ~x.final, Len(s) + 1 < MaxFragments PROVE OneFinal(t, FALSE)
  <2>1. \A i \in DOMAIN t : ~t[i].final
    BY <1>2, <1>4, <1>6, <1>7 DEF t
  <2>2. Len(t) <= MaxFragments - 1
    BY <1>1, <1>3, <1>7 DEF t
  <2> QED BY <2>1, <2>2 DEF OneFinal
<1>8. ASSUME x.final PROVE OneFinal(t, TRUE)
  <2>1. \A i \in DOMAIN t : t[i].final <=> i = Len(t)
    BY <1>1, <1>2, <1>4, <1>6, <1>8 DEF t
  <2>2. Len(t) <= MaxFragments
    BY <1>1, <1>3, <1>4 DEF t
  <2> QED BY <2>1, <2>2 DEF OneFinal
<1> QED BY <1>1, <1>7, <1>8 DEF t

(* Nothing has been accepted of a role that has not begun. *)
LEMMA NoFragments ==
    /\ OneFinal(<<>>, FALSE)
    /\ \A reviewed : AuditProgresses(reviewed, <<>>)
<1>1. MaxFragments \in Nat \ {0}
  BY DraftsAssumption
<1> QED BY <1>1 DEF OneFinal, AuditProgresses, Apart, Gathered

(***************************************************************************)
(* The dispute the pending request is about.                               *)
(***************************************************************************)
LEMMA DisputesKnown ==
    ASSUME FragmentsInv, AggregatesInv
    PROVE  /\ review \in SUBSET Proposal
           /\ Audited => Aggregated(review, Gathered(audits, "concerns"), Gathered(audits, "findings"))
           /\ \A d \in disputes : DisputeShape(d)
           /\ \A d, e \in disputes : d = e \/ Before(d, e) \/ Before(e, d)
<1>1. review \in SUBSET Proposal
  <2>1. CASE Reviewed
    <3>1. \A i \in DOMAIN reviews : reviews[i] \in ReviewDrafts
      BY ElementOfSeq DEF FragmentsInv
    <3> QED BY <2>1, <3>1, DraftsAssumption DEF AggregatesInv, Gathered
  <2> QED BY <2>1 DEF AggregatesInv
<1>2. Audited => Reviewed
  BY DEF Audited, Reviewed
<1>3. CASE Audited
  <2>1. Aggregated(review, Gathered(audits, "concerns"), Gathered(audits, "findings"))
    BY <1>2, <1>3, AuditIsAggregated DEF FragmentsInv, AggregatesInv
  <2> QED BY <1>1, <1>3, <2>1, DisputesApart DEF AggregatesInv
<1>4. CASE ~Audited
  BY <1>1, <1>4 DEF AggregatesInv
<1> QED BY <1>3, <1>4

LEMMA NextDisputeIsFirst ==
    ASSUME RunInv, phase = "referee"
    PROVE  /\ NextDispute \in disputes \ DOMAIN decided
           /\ Request.about = NextDispute
           /\ \A e \in disputes \ DOMAIN decided : e = NextDispute \/ Before(NextDispute, e)
<1> DEFINE D == disputes \ DOMAIN decided
<1>1. D # {} /\ (\A d \in D : DisputeShape(d))
  BY DisputesKnown DEF RunInv, DecisionsInv
<1>2. \E d \in D : \A e \in D : ~Before(e, d)
  <2> HIDE DEF D
  <2> QED BY <1>1, FirstDispute
<1>3. NextDispute \in D /\ \A e \in D : ~Before(e, NextDispute)
  BY <1>2 DEF NextDispute
<1>4. \A e \in D : e = NextDispute \/ Before(NextDispute, e)
  BY <1>3, DisputesKnown DEF RunInv
<1>5. Request.about = NextDispute
  BY DEF Request
<1> QED BY <1>3, <1>4, <1>5

(***************************************************************************)
(* The run, action by action.                                              *)
(***************************************************************************)
LEMMA DraftsFinal ==
    /\ \A r \in ReviewDrafts : r.final \in BOOLEAN
    /\ \A a \in AuditDrafts : a.final \in BOOLEAN
BY DraftsAssumption

LEMMA RunBegins == Init => RunInv
<1> SUFFICES ASSUME Init PROVE RunInv
  OBVIOUS
<1>1. /\ reviews = <<>> /\ audits = <<>> /\ decided = <<>> /\ disputes = {} /\ review = {}
      /\ phase = "review" /\ DOMAIN decided = {}
  BY DEF Init
<1>2. ~Reviewed /\ ~Audited /\ ~Sealed
  BY <1>1 DEF Reviewed, Audited, Sealed
<1>3. FragmentsInv
  <2>1. <<>> \in Seq(ReviewDrafts) /\ <<>> \in Seq(AuditDrafts)
    OBVIOUS
  <2> QED BY <1>1, <1>2, <2>1, NoFragments DEF FragmentsInv
<1>4. AggregatesInv
  BY <1>1, <1>2 DEF AggregatesInv
<1>5. DecisionsInv
  BY <1>1, <1>2, FS_EmptySet DEF DecisionsInv
<1> QED BY <1>3, <1>4, <1>5 DEF RunInv

LEMMA ReviewGoesOnStep ==
    ASSUME RunInv, NEW d \in Drivers, ReviewGoesOn(d)
    PROVE  RunInv'
<1>1. PICK draft \in ReviewDrafts : ~draft.final /\ reviews' = Append(reviews, draft)
  BY DEF ReviewGoesOn
<1>2. /\ phase = "review" /\ Len(reviews) + 1 < MaxFragments
      /\ UNCHANGED <<audits, decided, review, disputes, phase, editions>>
  BY DEF ReviewGoesOn
<1>3. ~Reviewed /\ ~Audited /\ ~Sealed /\ ~Reviewed' /\ ~Audited' /\ ~Sealed'
  BY <1>2 DEF Reviewed, Audited, Sealed
<1>4. reviews' \in Seq(ReviewDrafts) /\ OneFinal(reviews', FALSE)
  BY <1>1, <1>2, <1>3, DraftsFinal, OneMoreFragment DEF RunInv, FragmentsInv
<1>5. FragmentsInv'
  BY <1>2, <1>3, <1>4 DEF RunInv, FragmentsInv
<1>6. AggregatesInv'
  BY <1>2, <1>3 DEF RunInv, AggregatesInv
<1>7. DecisionsInv'
  BY <1>2, <1>3 DEF RunInv, DecisionsInv
<1> QED BY <1>5, <1>6, <1>7 DEF RunInv

LEMMA ReviewEndsStep ==
    ASSUME RunInv, NEW d \in Drivers, ReviewEnds(d)
    PROVE  RunInv'
<1>1. PICK draft \in ReviewDrafts : draft.final /\ reviews' = Append(reviews, draft)
  BY DEF ReviewEnds
<1>2. /\ phase = "review" /\ phase' = "audit"
      /\ ReviewAggregates(reviews') /\ review' = Gathered(reviews', "proposals")
      /\ UNCHANGED <<audits, decided, disputes, editions>>
  BY DEF ReviewEnds
<1>3. ~Reviewed /\ ~Audited /\ ~Sealed /\ Reviewed' /\ ~Audited' /\ ~Sealed'
  BY <1>2 DEF Reviewed, Audited, Sealed
<1>4. reviews' \in Seq(ReviewDrafts) /\ OneFinal(reviews', TRUE)
  BY <1>1, <1>2, <1>3, DraftsFinal, OneMoreFragment DEF RunInv, FragmentsInv
<1>5. FragmentsInv'
  BY <1>2, <1>3, <1>4 DEF RunInv, FragmentsInv
<1>6. AggregatesInv'
  BY <1>2, <1>3, NoFragments DEF RunInv, AggregatesInv
<1>7. DecisionsInv'
  BY <1>2, <1>3 DEF RunInv, AggregatesInv, DecisionsInv
<1> QED BY <1>5, <1>6, <1>7 DEF RunInv

LEMMA AuditGoesOnStep ==
    ASSUME RunInv, NEW d \in Drivers, AuditGoesOn(d)
    PROVE  RunInv'
<1>1. PICK draft \in AuditDrafts : ~draft.final /\ audits' = Append(audits, draft)
  BY DEF AuditGoesOn
<1>2. /\ phase = "audit" /\ Len(audits) + 1 < MaxFragments
      /\ AuditProgresses(review, audits')
      /\ UNCHANGED <<reviews, decided, review, disputes, phase, editions>>
  BY DEF AuditGoesOn
<1>3. Reviewed /\ ~Audited /\ ~Sealed /\ Reviewed' /\ ~Audited' /\ ~Sealed'
  BY <1>2 DEF Reviewed, Audited, Sealed
<1>4. audits' \in Seq(AuditDrafts) /\ OneFinal(audits', FALSE)
  BY <1>1, <1>2, <1>3, DraftsFinal, OneMoreFragment DEF RunInv, FragmentsInv
<1>5. FragmentsInv'
  BY <1>2, <1>3, <1>4 DEF RunInv, FragmentsInv
<1>6. AggregatesInv'
  BY <1>2, <1>3 DEF RunInv, AggregatesInv
<1>7. DecisionsInv'
  BY <1>2, <1>3 DEF RunInv, DecisionsInv
<1> QED BY <1>5, <1>6, <1>7 DEF RunInv

LEMMA AuditEndsStep ==
    ASSUME RunInv, NEW d \in Drivers, AuditEnds(d)
    PROVE  RunInv'
<1>1. PICK draft \in AuditDrafts : draft.final /\ audits' = Append(audits, draft)
  BY DEF AuditEnds
<1>2. /\ phase = "audit"
      /\ AuditAggregates(review, audits')
      /\ disputes' = Disputes(review, Gathered(audits', "concerns"), Gathered(audits', "findings"))
      /\ UNCHANGED <<reviews, decided, review>>
      /\ phase' = IF disputes' = {} THEN "sealed" ELSE "referee"
  BY DEF AuditEnds, Seal
<1>3. Reviewed /\ ~Audited /\ ~Sealed /\ Reviewed' /\ Audited'
  BY <1>2 DEF Reviewed, Audited, Sealed
<1>4. audits' \in Seq(AuditDrafts) /\ OneFinal(audits', TRUE)
  BY <1>1, <1>2, <1>3, DraftsFinal, OneMoreFragment DEF RunInv, FragmentsInv
<1>5. FragmentsInv'
  BY <1>2, <1>3, <1>4 DEF RunInv, FragmentsInv
<1>6. AuditProgresses(review, audits')
  BY <1>2 DEF AuditAggregates, AuditProgresses
<1>7. AggregatesInv'
  BY <1>2, <1>3, <1>6 DEF RunInv, AggregatesInv
<1>8. DecisionsInv'
  <2>1. decided' = <<>> /\ DOMAIN decided' = {} /\ IsFiniteSet(DOMAIN decided')
    BY <1>2, <1>3, FS_EmptySet DEF RunInv, AggregatesInv
  <2>2. /\ phase' = "referee" => disputes' # {}
        /\ Sealed' => disputes' = {}
    BY <1>2 DEF Sealed
  <2> QED BY <2>1, <2>2 DEF DecisionsInv
<1> QED BY <1>5, <1>7, <1>8 DEF RunInv

(* What Decide adds to the decisions. *)
LEMMA DecideAdds ==
    ASSUME RunInv, NEW d \in Drivers, Decide(d)
    PROVE  LET n == NextDispute
           IN /\ n \in disputes \ DOMAIN decided
              /\ DOMAIN decided' = DOMAIN decided \cup {n}
              /\ \A e \in DOMAIN decided : decided'[e] = decided[e]
              /\ decided'[n].choice \in Rulings /\ decided'[n].importance \in Importances
              /\ Permitted(review, n, decided'[n])
<1>1. phase = "referee"
  BY DEF Decide
<1>2. NextDispute \in disputes \ DOMAIN decided /\ Request.about = NextDispute
  BY <1>1, NextDisputeIsFirst
<1>3. PICK c \in Decision :
        /\ Permitted(review, NextDispute, c)
        /\ decided' = [e \in DOMAIN decided \cup {NextDispute} |->
                IF e \in DOMAIN decided THEN decided[e]
                ELSE [choice |-> c.choice, importance |-> c.importance,
                      about |-> driver[d].request.about]]
  BY <1>2 DEF Decide
<1>4. c.choice \in Rulings /\ c.importance \in Importances
  BY DEF Decision
<1>5. decided'[NextDispute].choice = c.choice /\ decided'[NextDispute].importance = c.importance
  BY <1>2, <1>3
<1>6. Permitted(review, NextDispute, decided'[NextDispute])
  BY <1>3, <1>5 DEF Permitted
<1> QED BY <1>2, <1>3, <1>4, <1>5, <1>6

LEMMA DecideStep ==
    ASSUME RunInv, NEW d \in Drivers, Decide(d)
    PROVE  RunInv'
<1> DEFINE n == NextDispute
<1>1. /\ phase = "referee"
      /\ UNCHANGED <<reviews, audits, review, disputes>>
      /\ phase' = IF disputes = DOMAIN decided' THEN "sealed" ELSE "referee"
  BY DEF Decide, Seal
<1>2. Reviewed /\ Audited /\ Reviewed' /\ Audited' /\ ~Sealed
  BY <1>1 DEF Reviewed, Audited, Sealed
<1>3. FragmentsInv'
  BY <1>1, <1>2 DEF RunInv, FragmentsInv
<1>4. AggregatesInv'
  BY <1>1, <1>2 DEF RunInv, AggregatesInv
<1>5. DecisionsInv'
  <2>1. \A e \in disputes \ DOMAIN decided : e = n \/ Before(n, e)
    BY <1>1, NextDisputeIsFirst
  <2>2. /\ n \in disputes \ DOMAIN decided
        /\ DOMAIN decided' = DOMAIN decided \cup {n}
        /\ \A e \in DOMAIN decided : decided'[e] = decided[e]
        /\ decided'[n].choice \in Rulings /\ decided'[n].importance \in Importances
        /\ Permitted(review, n, decided'[n])
    BY DecideAdds
  <2> HIDE DEF n
  <2>3. DOMAIN decided' \subseteq disputes' /\ IsFiniteSet(DOMAIN decided')
    BY <1>1, <2>2, FS_AddElement DEF RunInv, DecisionsInv
  <2>4. \A e \in DOMAIN decided' :
            /\ decided'[e].choice \in Rulings /\ decided'[e].importance \in Importances
            /\ Permitted(review', e, decided'[e])
    BY <1>1, <2>2 DEF RunInv, DecisionsInv
  <2>5. \A e \in DOMAIN decided', f \in disputes' \ DOMAIN decided' : Before(e, f)
    BY <1>1, <2>1, <2>2 DEF RunInv, DecisionsInv
  <2>6. /\ phase' = "referee" => disputes' # DOMAIN decided'
        /\ Sealed' => disputes' = DOMAIN decided'
    BY <1>1 DEF Sealed
  <2> QED BY <2>3, <2>4, <2>5, <2>6 DEF DecisionsInv
<1> QED BY <1>3, <1>4, <1>5 DEF RunInv

LEMMA CompleteStep ==
    ASSUME RunInv, Complete
    PROVE  RunInv'
<1>1. /\ phase' = IF phase = "sealed" THEN "completed" ELSE phase
      /\ UNCHANGED <<reviews, audits, decided, review, disputes>>
  BY DEF Complete
<1>2. /\ Reviewed' <=> Reviewed
      /\ Audited' <=> Audited
      /\ Sealed' <=> Sealed
      /\ phase' = "referee" <=> phase = "referee"
  BY <1>1 DEF Reviewed, Audited, Sealed
<1>3. FragmentsInv'
  BY <1>1, <1>2 DEF RunInv, FragmentsInv
<1>4. AggregatesInv'
  BY <1>1, <1>2 DEF RunInv, AggregatesInv
<1>5. DecisionsInv'
  BY <1>1, <1>2 DEF RunInv, DecisionsInv
<1> QED BY <1>3, <1>4, <1>5 DEF RunInv

(* What the other steps leave alone. *)
LEMMA RunUnchanged ==
    ASSUME RunInv, UNCHANGED run
    PROVE  RunInv'
<1>1. UNCHANGED <<reviews, audits, decided, review, disputes, phase>>
  BY DEF run
<1> QED BY <1>1 DEF RunInv, FragmentsInv, AggregatesInv, DecisionsInv, Reviewed, Audited, Sealed

(* A step moves the run, completes it, corrects it or leaves it alone. *)
LEMMA StepKinds ==
    ASSUME [Next]_vars
    PROVE  \/ UNCHANGED <<run, editions>>
           \/ \E d \in Drivers : ReviewGoesOn(d) \/ ReviewEnds(d) \/ AuditGoesOn(d) \/ AuditEnds(d) \/ Decide(d)
           \/ Complete
           \/ Correct
<1>1. ASSUME NEW d \in Drivers, Start(d) \/ Leave(d) PROVE UNCHANGED <<run, editions>>
  BY <1>1 DEF Start, Leave
<1>2. ASSUME NEW d \in Drivers, Ask(d) \/ Refused(d) PROVE UNCHANGED <<run, editions>>
  BY <1>2 DEF Ask, Refused
<1>3. ASSUME NEW d \in Drivers, Return(d) \/ ProviderFails(d) PROVE Complete
  BY <1>3 DEF Return, ProviderFails
<1>4. CASE UNCHANGED vars
  BY <1>4 DEF vars, run
<1> QED BY <1>1, <1>2, <1>3, <1>4 DEF Next, Move, Submit

LEMMA RunStep ==
    ASSUME RunInv, [Next]_vars
    PROVE  RunInv'
<1>1. CASE UNCHANGED run \/ Correct
  BY <1>1, RunUnchanged DEF Correct
<1>2. CASE \E d \in Drivers : ReviewGoesOn(d) \/ ReviewEnds(d) \/ AuditGoesOn(d) \/ AuditEnds(d) \/ Decide(d)
  BY <1>2, ReviewGoesOnStep, ReviewEndsStep, AuditGoesOnStep, AuditEndsStep, DecideStep
<1>3. CASE Complete
  BY <1>3, CompleteStep
<1> QED BY <1>1, <1>2, <1>3, StepKinds

(***************************************************************************)
(* What the decisions make of each proposal.                               *)
(***************************************************************************)
(* Decisions on some of the disputes of an audit. *)
Adjudicated(reviewed, concerns, findings, D) ==
    /\ Aggregated(reviewed, concerns, findings)
    /\ DOMAIN D \subseteq Disputes(reviewed, concerns, findings)
    /\ \A d \in DOMAIN D :
        /\ D[d].choice \in Rulings /\ D[d].importance \in Importances
        /\ Permitted(reviewed, d, D[d])

(* A dispute that was decided: what it is about, and what may be decided. *)
LEMMA RuledDispute ==
    ASSUME NEW reviewed, NEW concerns, NEW findings, NEW D,
           Adjudicated(reviewed, concerns, findings, D), NEW d \in DOMAIN D
    PROVE  /\ DisputeShape(d)
           /\ D[d].choice \in Rulings /\ D[d].importance \in Importances
           /\ d.target # None => /\ d.target \in Targets(reviewed)
                                 /\ Proposed(reviewed, d.target) \in Proposal
                                 /\ Proposed(reviewed, d.target).statement = d.target
           /\ d.target = None => Proposed(reviewed, d.target) = NoProposal
           /\ D[d].choice = "accept_auditor" =>
                d.auditor \in Proposal /\ D[d].importance = d.auditor.importance
           /\ D[d].choice = "accept_reviewer" =>
                d.target # None /\ D[d].importance = Proposed(reviewed, d.target).importance
           /\ d.kind = "importance" =>
                /\ d.auditor = Rated(Proposed(reviewed, d.target), d.auditor.importance)
                /\ D[d].importance \in {Proposed(reviewed, d.target).importance, d.auditor.importance}
<1>1. d \in Disputes(reviewed, concerns, findings) /\ Aggregated(reviewed, concerns, findings)
  BY DEF Adjudicated
<1>2. DisputeShape(d)
  BY <1>1, DisputesApart
<1>3. D[d].choice \in Rulings /\ D[d].importance \in Importances /\ Permitted(reviewed, d, D[d])
  BY DEF Adjudicated
<1>4. reviewed \in SUBSET Proposal
  BY <1>1 DEF Aggregated
<1>5. d.target # None => d.target \in Targets(reviewed)
  <2>1. CASE \E c \in concerns : d = Semantic(c)
    BY <1>1, <2>1 DEF Aggregated, Semantic
  <2>2. CASE \E f \in findings : d = Importance(reviewed, f)
    BY <1>1, <2>2 DEF Aggregated, Importance
  <2> QED BY <1>1, <2>1, <2>2 DEF Disputes
<1>6. d.target # None => Proposed(reviewed, d.target) \in Proposal
                         /\ Proposed(reviewed, d.target).statement = d.target
  BY <1>4, <1>5, ProposedIsThere
<1>7. d.target = None => Proposed(reviewed, d.target) = NoProposal
  BY <1>4, ProposedIsThere, ProposalFields
<1>8. ASSUME D[d].choice = "accept_auditor"
      PROVE  d.auditor \in Proposal /\ D[d].importance = d.auditor.importance
  <2>1. D[d].importance = d.auditor.importance
    BY <1>3, <1>8 DEF Permitted
  <2> QED BY <1>2, <1>3, <2>1, ProposalFields DEF DisputeShape
<1>9. ASSUME D[d].choice = "accept_reviewer"
      PROVE  d.target # None /\ D[d].importance = Proposed(reviewed, d.target).importance
  <2>1. D[d].importance = Proposed(reviewed, d.target).importance
    BY <1>3, <1>9 DEF Permitted
  <2> QED BY <1>3, <1>7, <2>1, ProposalFields
<1>10. ASSUME d.kind = "importance"
       PROVE  /\ d.auditor = Rated(Proposed(reviewed, d.target), d.auditor.importance)
              /\ D[d].importance \in {Proposed(reviewed, d.target).importance, d.auditor.importance}
  <2>1. PICK f \in findings : d = Importance(reviewed, f)
    BY <1>1, <1>10 DEF Disputes, Semantic
  <2>2. d.target = f.target /\ d.auditor = Rated(Proposed(reviewed, f.target), f.importance)
    BY <2>1 DEF Importance
  <2>3. Proposed(reviewed, d.target) \in Proposal /\ f.importance \in Importances
    BY <1>2, <1>1, <1>6, <1>10 DEF DisputeShape, Aggregated, Finding
  <2>4. d.auditor = Rated(Proposed(reviewed, d.target), d.auditor.importance)
    BY <2>2, <2>3, RatedProposal
  <2>5. D[d].importance \in {Proposed(reviewed, d.target).importance, d.auditor.importance}
    BY <1>3, <1>8, <1>9, <1>10 DEF Permitted, Rulings
  <2> QED BY <2>4, <2>5
<1> QED BY <1>2, <1>3, <1>5, <1>6, <1>7, <1>8, <1>9, <1>10

(* There is one decision of a kind about a proposal, or none. *)
LEMMA OneRuling ==
    ASSUME NEW reviewed, NEW concerns, NEW findings, NEW D,
           Adjudicated(reviewed, concerns, findings, D), NEW kind, NEW t, t # None,
           NEW d \in About(D, kind, t)
    PROVE  /\ d \in DOMAIN D /\ d.kind = kind /\ d.target = t
           /\ About(D, kind, t) = {d}
<1>1. d \in DOMAIN D /\ d.kind = kind /\ d.target = t
  BY DEF About
<1>2. \A e \in About(D, kind, t) : e = d
  BY <1>1, DisputesApart DEF About, Adjudicated
<1> QED BY <1>1, <1>2

(* After its semantic dispute a proposal is as it was, as its concern
   corrects it, or open. *)
LEMMA AfterConcernIs ==
    ASSUME NEW reviewed, NEW concerns, NEW findings, NEW D,
           Adjudicated(reviewed, concerns, findings, D), NEW t \in Targets(reviewed)
    PROVE  /\ About(D, "semantic", t) = {} => AfterConcern(reviewed, D, t) = {Proposed(reviewed, t)}
           /\ \A d \in About(D, "semantic", t) :
                AfterConcern(reviewed, D, t) =
                    CASE D[d].choice = "accept_reviewer" -> {Proposed(reviewed, t)}
                      [] D[d].choice = "accept_auditor" -> {d.auditor}
                      [] OTHER -> {}
<1>1. t # None /\ Proposed(reviewed, t) \in Proposal
  BY ProposedIsThere, ProposalFields DEF Adjudicated, Aggregated
<1>2. About(D, "semantic", t) = {} => AfterConcern(reviewed, D, t) = {Proposed(reviewed, t)}
  BY DEF AfterConcern
<1>3. ASSUME NEW d \in About(D, "semantic", t)
      PROVE  AfterConcern(reviewed, D, t) =
                    CASE D[d].choice = "accept_reviewer" -> {Proposed(reviewed, t)}
                      [] D[d].choice = "accept_auditor" -> {d.auditor}
                      [] OTHER -> {}
  <2>1. d \in DOMAIN D /\ d.target = t /\ About(D, "semantic", t) = {d}
    BY <1>1, OneRuling
  <2>2. D[d].choice \in Rulings
    BY <2>1, RuledDispute
  <2>3. AfterConcern(reviewed, D, t) =
            {IF D[e].choice = "accept_auditor" THEN Rated(e.auditor, D[e].importance)
             ELSE Rated(Proposed(reviewed, t), D[e].importance)
               : e \in {s \in {d} : D[s].choice # "unresolved"}}
    BY <2>1 DEF AfterConcern
  <2>4. CASE D[d].choice = "accept_reviewer"
    <3>1. Rated(Proposed(reviewed, t), D[d].importance) = Proposed(reviewed, t)
      BY <1>1, <2>1, <2>4, RuledDispute, RatedProposal, ProposalFields
    <3> QED BY <2>3, <2>4, <3>1
  <2>5. CASE D[d].choice = "accept_auditor"
    <3>1. Rated(d.auditor, D[d].importance) = d.auditor
      BY <2>1, <2>5, RuledDispute, RatedProposal, ProposalFields
    <3> QED BY <2>3, <2>5, <3>1
  <2>6. CASE D[d].choice = "unresolved"
    BY <2>3, <2>6
  <2> QED BY <2>2, <2>4, <2>5, <2>6 DEF Rulings
<1> QED BY <1>2, <1>3

(* After its importance dispute it is rated as decided, or open. *)
LEMMA OrdinaryIs ==
    ASSUME NEW reviewed, NEW concerns, NEW findings, NEW D,
           Adjudicated(reviewed, concerns, findings, D), NEW t \in Targets(reviewed)
    PROVE  /\ About(D, "importance", t) = {} => Ordinary(reviewed, D, t) = AfterConcern(reviewed, D, t)
           /\ \A d \in About(D, "importance", t) :
                Ordinary(reviewed, D, t) =
                    IF D[d].choice = "unresolved" THEN {}
                    ELSE {Rated(p, D[d].importance) : p \in AfterConcern(reviewed, D, t)}
<1>1. t # None
  BY ProposedIsThere, ProposalFields DEF Adjudicated, Aggregated
<1>2. About(D, "importance", t) = {} => Ordinary(reviewed, D, t) = AfterConcern(reviewed, D, t)
  BY DEF Ordinary
<1>3. ASSUME NEW d \in About(D, "importance", t)
      PROVE  Ordinary(reviewed, D, t) =
                    IF D[d].choice = "unresolved" THEN {}
                    ELSE {Rated(p, D[d].importance) : p \in AfterConcern(reviewed, D, t)}
  <2>1. About(D, "importance", t) = {d}
    BY <1>1, OneRuling
  <2>2. Ordinary(reviewed, D, t) = {Rated(p, D[e].importance) :
            p \in AfterConcern(reviewed, D, t), e \in {i \in {d} : D[i].choice # "unresolved"}}
    BY <2>1 DEF Ordinary
  <2> QED BY <2>2
<1> QED BY <1>2, <1>3

(* An accepted omission is added as the auditor has it. *)
LEMMA AdditionsAre ==
    ASSUME NEW reviewed, NEW concerns, NEW findings, NEW D,
           Adjudicated(reviewed, concerns, findings, D)
    PROVE  Additions(D) =
             {d.auditor : d \in {s \in About(D, "semantic", None) : D[s].choice = "accept_auditor"}}
<1>1. \A d \in {s \in About(D, "semantic", None) : D[s].choice = "accept_auditor"} :
        Rated(d.auditor, D[d].importance) = d.auditor
  BY RuledDispute, RatedProposal, ProposalFields DEF About
<1> QED BY <1>1 DEF Additions

(* Where a requirement comes from. *)
LEMMA RequirementOrigins ==
    ASSUME NEW reviewed, NEW D, NEW p
    PROVE  /\ p \in Requirements(reviewed, D) <=>
                \/ \E t \in Targets(reviewed) : p \in Ordinary(reviewed, D, t)
                \/ p \in Additions(D)
           /\ \A t \in Targets(reviewed) :
                p \in Ordinary(reviewed, D, t) => <<t, p>> \in ByOrigin(reviewed, D)
           /\ p \in Additions(D) => <<None, p>> \in ByOrigin(reviewed, D)
<1>1. p \in Requirements(reviewed, D) <=>
        p \in UNION {Ordinary(reviewed, D, t) : t \in Targets(reviewed)} \/ p \in Additions(D)
  BY DEF Requirements
<1>2. ASSUME NEW t \in Targets(reviewed), p \in Ordinary(reviewed, D, t)
      PROVE  <<t, p>> \in ByOrigin(reviewed, D)
  <2> DEFINE Pairs(u) == {<<u, q>> : q \in Ordinary(reviewed, D, u)}
  <2>1. <<t, p>> \in Pairs(t)
    BY <1>2
  <2>2. Pairs(t) \subseteq ByOrigin(reviewed, D)
    BY DEF ByOrigin
  <2> QED BY <2>1, <2>2
<1>3. ASSUME p \in Additions(D) PROVE <<None, p>> \in ByOrigin(reviewed, D)
  BY <1>3 DEF ByOrigin
<1> QED BY <1>1, <1>2, <1>3

(* The requirements of the baseline are proposals, each under a statement
   somebody made. *)
LEMMA RequirementsAre ==
    ASSUME NEW reviewed, NEW concerns, NEW findings, NEW D,
           Adjudicated(reviewed, concerns, findings, D), NEW p \in Requirements(reviewed, D)
    PROVE  /\ p \in Proposal
           /\ p.statement \in Targets(reviewed) \cup {d.auditor.statement : d \in DOMAIN D}
<1> DEFINE S == Targets(reviewed) \cup {d.auditor.statement : d \in DOMAIN D}
           Fit(q) == q \in Proposal /\ q.statement \in S
<1>1. ASSUME NEW t \in Targets(reviewed), NEW q \in AfterConcern(reviewed, D, t) PROVE Fit(q)
  <2>1. Proposed(reviewed, t) \in Proposal /\ Proposed(reviewed, t).statement = t
    BY ProposedIsThere DEF Adjudicated, Aggregated
  <2>2. CASE About(D, "semantic", t) = {}
    BY <1>1, <2>1, <2>2, AfterConcernIs
  <2>3. ASSUME NEW d \in About(D, "semantic", t) PROVE Fit(q)
    <3>1. d \in DOMAIN D
      BY DEF About
    <3>2. \/ D[d].choice = "accept_reviewer" /\ q = Proposed(reviewed, t)
          \/ D[d].choice = "accept_auditor" /\ q = d.auditor
      BY <1>1, <2>3, AfterConcernIs
    <3> QED BY <2>1, <3>1, <3>2, RuledDispute
  <2> QED BY <2>2, <2>3
<1>2. ASSUME NEW t \in Targets(reviewed), NEW q \in Ordinary(reviewed, D, t) PROVE Fit(q)
  <2>1. CASE About(D, "importance", t) = {}
    BY <1>1, <1>2, <2>1, OrdinaryIs
  <2>2. ASSUME NEW d \in About(D, "importance", t) PROVE Fit(q)
    <3>1. d \in DOMAIN D
      BY DEF About
    <3>2. PICK o \in AfterConcern(reviewed, D, t) : q = Rated(o, D[d].importance)
      BY <1>2, <2>2, OrdinaryIs
    <3>3. Fit(o)
      BY <1>1
    <3> QED BY <3>1, <3>2, <3>3, RuledDispute, RatedProposal
  <2> QED BY <2>1, <2>2
<1>3. ASSUME p \in Additions(D) PROVE Fit(p)
  BY <1>3, AdditionsAre, RuledDispute DEF About
<1>4. Fit(p)
  <2> HIDE DEF Fit
  <2> QED BY <1>2, <1>3, RequirementOrigins
<1> QED BY <1>4

(***************************************************************************)
(* Editions.                                                               *)
(***************************************************************************)
(* The decisions on disputes that finite sets gave. *)
Closed(reviewed, concerns, findings, D) ==
    /\ Adjudicated(reviewed, concerns, findings, D)
    /\ IsFiniteSet(reviewed) /\ IsFiniteSet(DOMAIN D)

(* Different requirements have different statements, and come from different
   origins, in an edition that compiles. *)
LEMMA CompiledApart ==
    ASSUME NEW reviewed, NEW D, NEW edition \in Compiled(reviewed, D)
    PROVE  /\ edition.requirements = Requirements(reviewed, D)
           /\ edition.contests = Contests(reviewed, D)
           /\ \A p, q \in edition.requirements : p.statement = q.statement => p = q
<1>1. /\ edition.requirements = Requirements(reviewed, D)
      /\ edition.contests = Contests(reviewed, D)
      /\ StatementsDiffer(ByOrigin(reviewed, D))
  BY DEF Compiled, Numbered
<1>2. \A p \in Requirements(reviewed, D) : \E o \in ByOrigin(reviewed, D) : o[2] = p
  <2> SUFFICES ASSUME NEW p \in Requirements(reviewed, D) PROVE \E o \in ByOrigin(reviewed, D) : o[2] = p
    OBVIOUS
  <2>1. \E t : <<t, p>> \in ByOrigin(reviewed, D)
    BY RequirementOrigins
  <2>2. \A t : <<t, p>>[2] = p
    OBVIOUS
  <2> QED BY <2>1, <2>2
<1> QED BY <1>1, <1>2 DEF StatementsDiffer

(* The alternatives of a contest are proposals, where there are any. *)
LEMMA SidesAre ==
    ASSUME NEW reviewed, NEW concerns, NEW findings, NEW D,
           Adjudicated(reviewed, concerns, findings, D), NEW d \in DOMAIN D
    PROVE  /\ ReviewerSide(reviewed, D, d.target) \in Proposal \cup {NoProposal}
           /\ d.target = None => ReviewerSide(reviewed, D, d.target) = NoProposal
           /\ d.target # None => /\ ReviewerSide(reviewed, D, d.target) \in Proposal
                                 /\ ReviewerSide(reviewed, D, d.target).statement = d.target
                                 /\ RatedSide(reviewed, D, d.target) \in Proposal
           /\ d.kind = "importance" => Rated(RatedSide(reviewed, D, d.target), d.auditor.importance) \in Proposal
<1> DEFINE t == d.target
           settled == {e \in About(D, "importance", t) : D[e].choice # "unresolved"}
<1>1. CASE t = None
  BY <1>1, RuledDispute DEF ReviewerSide, DisputeShape
<1>2. CASE t # None
  <2>1. Proposed(reviewed, t) \in Proposal /\ Proposed(reviewed, t).statement = t /\ t \in Targets(reviewed)
    BY <1>2, RuledDispute
  <2>2. ReviewerSide(reviewed, D, t) \in Proposal /\ ReviewerSide(reviewed, D, t).statement = t
    <3>1. CASE settled = {}
      BY <2>1, <3>1 DEF ReviewerSide
    <3>2. CASE settled # {}
      <4> DEFINE e == CHOOSE e \in settled : TRUE
      <4>1. e \in settled /\ e \in DOMAIN D
        BY <3>2 DEF About
      <4>2. ReviewerSide(reviewed, D, t) = Rated(Proposed(reviewed, t), D[e].importance)
        BY <1>2, <3>2 DEF ReviewerSide
      <4> HIDE DEF e
      <4> QED BY <2>1, <4>1, <4>2, RuledDispute, RatedProposal
    <3> QED BY <3>1, <3>2
  <2>3. RatedSide(reviewed, D, t) \in Proposal
    <3>1. CASE AfterConcern(reviewed, D, t) = {}
      BY <2>1, <3>1 DEF RatedSide
    <3>2. CASE AfterConcern(reviewed, D, t) # {}
      <4>1. RatedSide(reviewed, D, t) \in AfterConcern(reviewed, D, t)
        BY <3>2 DEF RatedSide
      <4>2. \A q \in AfterConcern(reviewed, D, t) : q \in Proposal
        <5>1. CASE About(D, "semantic", t) = {}
          BY <2>1, <5>1, AfterConcernIs
        <5>2. ASSUME NEW s \in About(D, "semantic", t), NEW q \in AfterConcern(reviewed, D, t) PROVE q \in Proposal
          <6>1. s \in DOMAIN D
            BY DEF About
          <6>2. \/ D[s].choice = "accept_reviewer" /\ q = Proposed(reviewed, t)
                \/ D[s].choice = "accept_auditor" /\ q = s.auditor
            BY <2>1, <5>2, AfterConcernIs
          <6> QED BY <2>1, <6>1, <6>2, RuledDispute
        <5> QED BY <5>1, <5>2
      <4> QED BY <4>1, <4>2
    <3> QED BY <3>1, <3>2
  <2>4. ASSUME d.kind = "importance" PROVE Rated(RatedSide(reviewed, D, t), d.auditor.importance) \in Proposal
    BY <2>3, <2>4, RuledDispute, RatedProposal, ProposalFields DEF DisputeShape
  <2> QED BY <1>2, <2>2, <2>3, <2>4
<1>3. d.kind = "importance" => t # None
  BY RuledDispute DEF DisputeShape
<1> QED BY <1>1, <1>2, <1>3

(* The baseline that decisions compile to has the shape of an edition. *)
LEMMA CompiledShape ==
    ASSUME NEW reviewed, NEW concerns, NEW findings, NEW D,
           Closed(reviewed, concerns, findings, D), NEW edition \in Compiled(reviewed, D)
    PROVE  EditionShape(edition)
<1> DEFINE R == edition.requirements
<1>1. /\ R = Requirements(reviewed, D) /\ edition.contests = Contests(reviewed, D)
      /\ \A p, q \in R : p.statement = q.statement => p = q
  BY CompiledApart
<1>2. R \subseteq Proposal
  BY <1>1, RequirementsAre DEF Closed
<1>3. IsFiniteSet(R)
  <2> DEFINE A == {d.auditor.statement : d \in DOMAIN D}
             f == [d \in DOMAIN D |-> d.auditor.statement]
             g == [p \in reviewed |-> p.statement]
             h == [p \in R |-> p.statement]
  <2>1. IsFiniteSet(A)
    <3>1. f \in Surjection(DOMAIN D, A)
      BY DEF Surjection
    <3> HIDE DEF f, A
    <3> QED BY <3>1, FS_Surjection DEF Closed
  <2>2. IsFiniteSet(Targets(reviewed))
    <3>1. g \in Surjection(reviewed, Targets(reviewed))
      BY DEF Surjection, Targets
    <3> HIDE DEF g
    <3> QED BY <3>1, FS_Surjection DEF Closed
  <2>3. IsFiniteSet(Targets(reviewed) \cup A)
    <3> HIDE DEF A
    <3> QED BY <2>1, <2>2, FS_Union
  <2>4. h \in Injection(R, Targets(reviewed) \cup A)
    <3>1. \A p \in R : p.statement \in Targets(reviewed) \cup A
      BY <1>1, RequirementsAre DEF Closed
    <3> HIDE DEF R, A
    <3> QED BY <1>1, <3>1 DEF Injection, IsInjective
  <2> HIDE DEF A, h, R
  <2> QED BY <2>3, <2>4, FS_Injection
<1>4. IsFiniteSet(edition.contests)
  <2> DEFINE U == Unresolved(D)
             f == [d \in U |-> Contested(reviewed, D, d)]
  <2>1. f \in Surjection(U, edition.contests)
    BY <1>1 DEF Surjection, Contests
  <2>2. U \in SUBSET DOMAIN D
    BY DEF Unresolved
  <2> HIDE DEF f, U
  <2> QED BY <2>1, <2>2, FS_Subset, FS_Surjection DEF Closed
<1>5. \A k \in edition.contests : Alternatives(k) \subseteq Proposal /\ DisputeShape(k.dispute)
  <2> SUFFICES ASSUME NEW k \in edition.contests
               PROVE  Alternatives(k) \subseteq Proposal /\ DisputeShape(k.dispute)
    OBVIOUS
  <2>1. PICK d \in Unresolved(D) : k = Contested(reviewed, D, d)
    BY <1>1 DEF Contests
  <2>2. d \in DOMAIN D /\ DisputeShape(d)
    BY RuledDispute DEF Unresolved, Closed
  <2>3. k.reviewer \in Proposal \cup {NoProposal} /\ k.auditor \in Proposal \cup {NoProposal}
    <3>1. CASE d.kind = "semantic"
      BY <2>1, <2>2, <3>1, SidesAre DEF Contested, Contest, DisputeShape, Closed
    <3>2. CASE d.kind = "importance"
      BY <2>1, <2>2, <3>2, SidesAre DEF Contested, Contest, DisputeShape, Closed
    <3> QED BY <2>2, <3>1, <3>2 DEF DisputeShape
  <2>4. k.dispute = d
    BY <2>1 DEF Contested, Contest
  <2> QED BY <2>2, <2>3, <2>4 DEF Alternatives
<1> QED BY <1>1, <1>2, <1>3, <1>4, <1>5 DEF EditionShape

(***************************************************************************)
(* Numbers of requirements.                                                *)
(***************************************************************************)
LEMMA Numbering ==
    ASSUME NEW R \in SUBSET Proposal, IsFiniteSet(R),
           \A p, q \in R : p.statement = q.statement => p = q
    PROVE  /\ Cardinality(R) \in Nat
           /\ \A p \in R : Number(R, p) \in 1..Cardinality(R)
           /\ \A p, q \in R : Number(R, p) = Number(R, q) => p = q
           /\ \A n \in 1..Cardinality(R) : \E p \in R : Number(R, p) = n
<1> DEFINE Upto(p) == {q \in R : q.statement <= p.statement}
           N == 1..Cardinality(R)
           f == [p \in R |-> Number(R, p)]
<1>1. Cardinality(R) \in Nat
  BY FS_CardinalityType
<1>2. ASSUME NEW p \in R
      PROVE  /\ IsFiniteSet(Upto(p)) /\ Cardinality(Upto(p)) \in Nat
             /\ Cardinality(Upto(p)) <= Cardinality(R) /\ p \in Upto(p)
             /\ Number(R, p) = Cardinality(Upto(p)) /\ Cardinality(Upto(p)) # 0
  <2>1. Upto(p) \in SUBSET R /\ p \in Upto(p)
    <3>1. p.statement \in Nat
      BY ProposalFields
    <3> QED BY <3>1
  <2>2. Number(R, p) = Cardinality(Upto(p))
    BY DEF Number
  <2> HIDE DEF Upto
  <2>3. IsFiniteSet(Upto(p)) /\ Cardinality(Upto(p)) <= Cardinality(R)
    BY <2>1, FS_Subset
  <2>4. Cardinality(Upto(p)) \in Nat /\ Cardinality(Upto(p)) # 0
    BY <2>1, <2>3, FS_CardinalityType, FS_EmptySet
  <2> QED BY <2>1, <2>2, <2>3, <2>4
<1>3. ASSUME NEW p \in R, NEW q \in R, Number(R, p) = Number(R, q) PROVE p = q
  <2>1. p.statement \in Nat /\ q.statement \in Nat
    BY ProposalFields
  <2>2. ASSUME NEW x \in R, NEW y \in R, x.statement \in Nat, y.statement \in Nat,
               x.statement < y.statement, Number(R, x) = Number(R, y)
        PROVE  FALSE
    <3>1. Upto(x) \in SUBSET Upto(y)
      <4> SUFFICES ASSUME NEW z \in Upto(x) PROVE z \in Upto(y)
        OBVIOUS
      <4>1. z.statement \in Nat
        BY ProposalFields
      <4> QED BY <2>2, <4>1
    <3>2. y \notin Upto(x)
      BY <2>2
    <3> HIDE DEF Upto
    <3>3. Upto(x) = Upto(y)
      BY <1>2, <2>2, <3>1, FS_Subset
    <3> QED BY <1>2, <3>2, <3>3
  <2> HIDE DEF Upto
  <2>3. p.statement = q.statement
    BY <1>3, <2>1, <2>2
  <2> QED BY <2>3
<1>4. \A p \in R : Number(R, p) \in N
  <2> HIDE DEF Upto
  <2> QED BY <1>1, <1>2
<1>5. f \in Injection(R, N)
  BY <1>3, <1>4 DEF Injection, IsInjective
<1>6. IsFiniteSet(N) /\ Cardinality(N) = Cardinality(R)
  BY <1>1, FS_Interval
<1>7. f \in Surjection(R, N)
  <2> HIDE DEF f, N
  <2> QED BY <1>5, <1>6, FS_Injection
<1>8. \A n \in N : \E p \in R : Number(R, p) = n
  BY <1>7 DEF Surjection
<1> QED BY <1>1, <1>3, <1>4, <1>8

(* The requirement under a number is the one with that number. *)
LEMMA RequirementNumbered ==
    ASSUME NEW edition, EditionShape(edition)
    PROVE  /\ \A n \in 1..Cardinality(edition.requirements) :
                Requirement(edition, n) \in edition.requirements
           /\ \A p \in edition.requirements :
                /\ Number(edition.requirements, p) \in 1..Cardinality(edition.requirements)
                /\ Requirement(edition, Number(edition.requirements, p)) = p
           /\ Cardinality(edition.requirements) \in Nat
<1> DEFINE R == edition.requirements
<1>1. R \in SUBSET Proposal /\ IsFiniteSet(R) /\ \A p, q \in R : p.statement = q.statement => p = q
  BY DEF EditionShape
<1> HIDE DEF R
<1>2. /\ Cardinality(R) \in Nat
      /\ \A p \in R : Number(R, p) \in 1..Cardinality(R)
      /\ \A p, q \in R : Number(R, p) = Number(R, q) => p = q
      /\ \A n \in 1..Cardinality(R) : \E p \in R : Number(R, p) = n
  BY <1>1, Numbering
<1>3. \A n : Requirement(edition, n) = CHOOSE p \in R : Number(R, p) = n
  BY DEF Requirement, R
<1> QED BY <1>2, <1>3 DEF R

(***************************************************************************)
(* Corrections.                                                            *)
(***************************************************************************)
(* The requirements a correction works with. *)
LEMMA LabelledAre ==
    ASSUME NEW edition, EditionShape(edition), NEW c, WellFormed(c)
    PROVE  /\ IsFiniteSet(DOMAIN Labelled(edition, c))
           /\ \A n \in DOMAIN Labelled(edition, c) : Labelled(edition, c)[n] \in Proposal
<1> DEFINE L == Labelled(edition, c)
           I == 1..Cardinality(edition.requirements)
<1>1. Cardinality(edition.requirements) \in Nat
  BY RequirementNumbered
<1>2. IsFiniteSet(DOMAIN L)
  <2>1. DOMAIN L \in SUBSET (I \cup DOMAIN c.added)
    BY DEF Labelled
  <2>2. IsFiniteSet(I) /\ IsFiniteSet(DOMAIN c.added)
    BY <1>1, FS_Interval DEF WellFormed
  <2> HIDE DEF L, I
  <2> QED BY <2>1, <2>2, FS_Union, FS_Subset
<1>3. ASSUME NEW n \in DOMAIN L PROVE L[n] \in Proposal
  <2>1. CASE n \in DOMAIN c.added
    BY <2>1 DEF Labelled, WellFormed
  <2>2. CASE n \notin DOMAIN c.added /\ n \in DOMAIN c.changed
    BY <2>2 DEF Labelled, WellFormed
  <2>3. CASE n \notin DOMAIN c.added /\ n \notin DOMAIN c.changed
    <3>1. n \in I /\ L[n] = Requirement(edition, n)
      BY <2>3 DEF Labelled
    <3> QED BY <3>1, RequirementNumbered DEF EditionShape
  <2> QED BY <2>1, <2>2, <2>3
<1> QED BY <1>2, <1>3

(* What a correction makes of an edition. *)
LEMMA CorrectedIs ==
    ASSUME NEW edition, EditionShape(edition), NEW c, WellFormed(c),
           NEW after \in Corrected(edition, c)
    PROVE  LET labelled == Labelled(edition, c)
           IN /\ after.requirements = {labelled[n] : n \in DOMAIN labelled}
              /\ after.contests = edition.contests
              /\ after.links = {<<Renumbered(edition, labelled, l[1]), Renumbered(edition, labelled, l[2])>>
                                  : l \in LabelledLinks(edition, c)}
              /\ \A m, n \in DOMAIN labelled : labelled[m].statement = labelled[n].statement => m = n
              /\ \A l \in LabelledLinks(edition, c) :
                    {l[1], l[2]} \subseteq DOMAIN labelled \cup ContestNumbers(edition)
<1> DEFINE labelled == Labelled(edition, c)
<1>1. /\ after = Relabelled(edition, labelled, LabelledLinks(edition, c))
      /\ Joinable(edition, labelled, LabelledLinks(edition, c))
  BY DEF Corrected
<1> QED BY <1>1 DEF Relabelled, Joinable

LEMMA CorrectedShape ==
    ASSUME NEW edition, EditionShape(edition), NEW c, WellFormed(c),
           NEW after \in Corrected(edition, c)
    PROVE  EditionShape(after)
<1> DEFINE L == Labelled(edition, c)
           R == after.requirements
<1>1. /\ R = {L[n] : n \in DOMAIN L} /\ after.contests = edition.contests
      /\ \A m, n \in DOMAIN L : L[m].statement = L[n].statement => m = n
  BY CorrectedIs
<1>2. IsFiniteSet(DOMAIN L) /\ \A n \in DOMAIN L : L[n] \in Proposal
  BY LabelledAre
<1>3. IsFiniteSet(R)
  <2> DEFINE f == [n \in DOMAIN L |-> L[n]]
  <2>1. f \in Surjection(DOMAIN L, R)
    BY <1>1 DEF Surjection
  <2> HIDE DEF f, L, R
  <2> QED BY <1>2, <2>1, FS_Surjection
<1> HIDE DEF L
<1> QED BY <1>1, <1>2, <1>3 DEF EditionShape

(* A requirement's new number is its number in the corrected edition. *)
LEMMA RenumberedRequirement ==
    ASSUME NEW edition, EditionShape(edition), NEW c, WellFormed(c),
           NEW after \in Corrected(edition, c), NEW n \in DOMAIN Labelled(edition, c)
    PROVE  /\ Labelled(edition, c)[n] \in after.requirements
           /\ Renumbered(edition, Labelled(edition, c), n)
                = Number(after.requirements, Labelled(edition, c)[n])
           /\ Cardinality(DOMAIN Labelled(edition, c)) = Cardinality(after.requirements)
<1> DEFINE L == Labelled(edition, c)
           R == after.requirements
           M == {m \in DOMAIN L : L[m].statement <= L[n].statement}
           Q == {q \in R : q.statement <= L[n].statement}
           f == [m \in DOMAIN L |-> L[m]]
           g == [m \in M |-> L[m]]
<1>1. /\ R = {L[m] : m \in DOMAIN L}
      /\ \A m, k \in DOMAIN L : L[m].statement = L[k].statement => m = k
  BY CorrectedIs
<1>2. IsFiniteSet(DOMAIN L)
  BY LabelledAre
<1>3. M \in SUBSET DOMAIN L
  OBVIOUS
<1>4. g \in Surjection(M, Q) /\ g \in Injection(M, Q)
  <2> HIDE DEF L
  <2>1. \A m \in M : L[m] \in Q
    BY <1>1
  <2>2. \A q \in Q : \E m \in M : L[m] = q
    BY <1>1
  <2>3. \A m, k \in M : L[m] = L[k] => m = k
    BY <1>1
  <2> HIDE DEF M, Q
  <2> QED BY <2>1, <2>2, <2>3 DEF Surjection, Injection, IsInjective
<1>5. f \in Surjection(DOMAIN L, R) /\ f \in Injection(DOMAIN L, R)
  <2> HIDE DEF L
  <2>1. \A m, k \in DOMAIN L : L[m] = L[k] => m = k
    BY <1>1
  <2> QED BY <1>1, <2>1 DEF Surjection, Injection, IsInjective
<1>6. Renumbered(edition, L, n) = Cardinality(M)
  BY DEF Renumbered
<1>7. Number(R, L[n]) = Cardinality(Q)
  BY DEF Number
<1>8. L[n] \in R
  BY <1>1
<1> HIDE DEF L, R, M, Q, f, g
<1>9. IsFiniteSet(M)
  BY <1>2, <1>3, FS_Subset
<1>10. Cardinality(Q) = Cardinality(M)
  BY <1>4, <1>9, FS_Surjection
<1>11. Cardinality(R) = Cardinality(DOMAIN L)
  BY <1>2, <1>5, FS_Surjection
<1> QED BY <1>6, <1>7, <1>8, <1>10, <1>11 DEF L, R

(* A contest's number in an edition: its place after the requirements. *)
Place(contests, k) == Cardinality({j \in contests : ~Before(k.dispute, j.dispute)})

LEMMA ContestPlaces ==
    ASSUME NEW edition, EditionShape(edition), NEW k \in edition.contests
    PROVE  /\ ContestNumber(edition, k) = Cardinality(edition.requirements) + Place(edition.contests, k)
           /\ Place(edition.contests, k) \in Nat /\ Place(edition.contests, k) >= 1
<1> DEFINE C == {j \in edition.contests : ~Before(k.dispute, j.dispute)}
<1>1. k \in C
  <2>1. DisputeShape(k.dispute)
    BY DEF EditionShape
  <2>2. ~Before(k.dispute, k.dispute)
    <3> DEFINE D == {k.dispute}
    <3>1. \A d \in D : DisputeShape(d)
      BY <2>1
    <3> QED BY <3>1, BeforeOrders
  <2> QED BY <2>2
<1>2. C \in SUBSET edition.contests
  OBVIOUS
<1>3. ContestNumber(edition, k) = Cardinality(edition.requirements) + Cardinality(C)
      /\ Place(edition.contests, k) = Cardinality(C)
  BY DEF ContestNumber, Place
<1> HIDE DEF C
<1>4. IsFiniteSet(C)
  BY <1>2, FS_Subset DEF EditionShape
<1>5. Cardinality(C) \in Nat /\ Cardinality(C) # 0
  BY <1>1, <1>4, FS_CardinalityType, FS_EmptySet
<1> QED BY <1>3, <1>5

(* What a correction means by a number stands under its new number. *)
LEMMA StandsForMeant ==
    ASSUME NEW edition, EditionShape(edition), NEW c, WellFormed(c),
           NEW after \in Corrected(edition, c),
           NEW n \in DOMAIN Labelled(edition, c) \cup ContestNumbers(edition)
    PROVE  Standing(after, Renumbered(edition, Labelled(edition, c), n)) = Meant(edition, c, n)
<1> DEFINE L == Labelled(edition, c)
           R == after.requirements
           new == Renumbered(edition, L, n)
<1>1. EditionShape(after)
  BY CorrectedShape
<1>2. CASE n \in DOMAIN L
  <2>1. L[n] \in R /\ new = Number(R, L[n])
    BY <1>2, RenumberedRequirement
  <2>2. /\ new \in 1..Cardinality(R) /\ Requirement(after, new) = L[n]
        /\ Cardinality(R) \in Nat
    BY <1>1, <2>1, RequirementNumbered
  <2>3. new <= Cardinality(R)
    <3> HIDE DEF new, R
    <3> QED BY <2>2
  <2>4. Standing(after, new) = Requirement(after, new)
    BY <2>3 DEF Standing
  <2>5. Meant(edition, c, n) = L[n]
    BY <1>2 DEF Meant
  <2> QED BY <2>2, <2>4, <2>5
<1>3. CASE n \notin DOMAIN L
  <2> DEFINE K == edition.contests
             old == Cardinality(edition.requirements)
  <2>1. after.contests = K
    BY CorrectedIs
  <2>2. old \in Nat /\ Cardinality(R) \in Nat
    BY <1>1, RequirementNumbered
  <2>3. \A k \in K : /\ ContestNumber(edition, k) = old + Place(K, k)
                     /\ ContestNumber(after, k) = Cardinality(R) + Place(K, k)
                     /\ Place(K, k) \in Nat /\ Place(K, k) >= 1
    BY <1>1, <2>1, ContestPlaces
  <2>4. PICK k \in K : n = ContestNumber(edition, k)
    BY <1>3 DEF ContestNumbers
  <2>5. Cardinality(DOMAIN L) = Cardinality(R)
    <3>1. CASE DOMAIN L = {}
      <4>1. R = {}
        BY <3>1, CorrectedIs
      <4> QED BY <3>1, <4>1
    <3>2. CASE DOMAIN L # {}
      BY <3>2, RenumberedRequirement
    <3> QED BY <3>1, <3>2
  <2>6. new = n - old + Cardinality(DOMAIN L)
    BY <1>3 DEF Renumbered
  <2>7. new = Cardinality(R) + Place(K, k)
    <3> HIDE DEF K, old, R, L, new
    <3> QED BY <2>2, <2>3, <2>4, <2>5, <2>6
  <2>8. ~(new <= Cardinality(R))
    <3> HIDE DEF K, R, new
    <3> QED BY <2>2, <2>3, <2>7
  <2>9. \A j \in K : ContestNumber(after, j) = new <=> ContestNumber(edition, j) = n
    <3> HIDE DEF K, old, R, new
    <3> QED BY <2>2, <2>3, <2>4, <2>7
  <2>10. Standing(after, new) = CHOOSE j \in K : ContestNumber(after, j) = new
    BY <2>1, <2>8 DEF Standing
  <2>11. Meant(edition, c, n) = CHOOSE j \in K : ContestNumber(edition, j) = n
    BY <1>3 DEF Meant
  <2>12. (CHOOSE j \in K : ContestNumber(after, j) = new) = (CHOOSE j \in K : ContestNumber(edition, j) = n)
    <3> HIDE DEF K, new
    <3> QED BY <2>9
  <2> QED BY <2>10, <2>11, <2>12
<1> QED BY <1>2, <1>3

(* So the relationships of a corrected edition join what the correction meant. *)
LEMMA LinksFollow ==
    ASSUME NEW edition, EditionShape(edition), NEW c, WellFormed(c),
           NEW after \in Corrected(edition, c)
    PROVE  {<<Standing(after, l[1]), Standing(after, l[2])>> : l \in after.links}
             = {<<Meant(edition, c, l[1]), Meant(edition, c, l[2])>> : l \in LabelledLinks(edition, c)}
<1> DEFINE L == Labelled(edition, c)
           K == LabelledLinks(edition, c)
           New(n) == Renumbered(edition, L, n)
           S(n) == Standing(after, n)
           M(n) == Meant(edition, c, n)
<1>1. /\ after.links = {<<New(l[1]), New(l[2])>> : l \in K}
      /\ \A l \in K : {l[1], l[2]} \subseteq DOMAIN L \cup ContestNumbers(edition)
  BY CorrectedIs
<1>2. \A n \in DOMAIN L \cup ContestNumbers(edition) : S(New(n)) = M(n)
  BY StandsForMeant
<1> HIDE DEF L, K, New, S, M
<1>3. \A l \in K : S(New(l[1])) = M(l[1]) /\ S(New(l[2])) = M(l[2])
  BY <1>1, <1>2
<1> DEFINE To(l) == <<New(l[1]), New(l[2])>>
           From(l) == <<S(l[1]), S(l[2])>>
           Means(l) == <<M(l[1]), M(l[2])>>
<1>4. \A l \in K : From(To(l)) = Means(l)
  BY <1>3
<1>5. after.links = {To(l) : l \in K}
  BY <1>1
<1> HIDE DEF To, From, Means
<1>6. {From(l) : l \in after.links} = {Means(l) : l \in K}
  BY <1>4, <1>5
<1> QED BY <1>6 DEF From, Means, S, M, K

(***************************************************************************)
(* Editions and drivers, step by step.                                     *)
(***************************************************************************)
LEMMA GatheredFinite ==
    ASSUME NEW T, NEW part, \A x \in T : IsFiniteSet(x[part]), NEW s \in Seq(T)
    PROVE  IsFiniteSet(Gathered(s, part))
<1> DEFINE parts == {s[i][part] : i \in DOMAIN s}
           f == [i \in 1..Len(s) |-> s[i][part]]
<1>1. DOMAIN s = 1..Len(s) /\ Len(s) \in Nat /\ \A i \in DOMAIN s : s[i] \in T
  BY ElementOfSeq, LenProperties
<1>2. f \in Surjection(1..Len(s), parts)
  BY <1>1 DEF Surjection
<1>3. \A X \in parts : IsFiniteSet(X)
  BY <1>1
<1>4. IsFiniteSet(1..Len(s))
  BY <1>1, FS_Interval
<1>5. Gathered(s, part) = UNION parts
  BY DEF Gathered
<1> HIDE DEF parts, f
<1> QED BY <1>2, <1>3, <1>4, <1>5, FS_Surjection, FS_UNION

(* From the audit on, the decisions are decisions on finitely many disputes
   of what was aggregated. *)
LEMMA RunClosed ==
    RunInv /\ Audited =>
        Closed(review, Gathered(audits, "concerns"), Gathered(audits, "findings"), decided)
<1> SUFFICES ASSUME RunInv, Audited
             PROVE  Closed(review, Gathered(audits, "concerns"), Gathered(audits, "findings"), decided)
  OBVIOUS
<1>1. Aggregated(review, Gathered(audits, "concerns"), Gathered(audits, "findings"))
  BY DisputesKnown DEF RunInv
<1>2. disputes = Disputes(review, Gathered(audits, "concerns"), Gathered(audits, "findings"))
  BY DEF RunInv, AggregatesInv
<1>3. IsFiniteSet(review)
  <2>1. review = Gathered(reviews, "proposals")
    BY DEF RunInv, AggregatesInv, Audited, Reviewed
  <2>2. \A r \in ReviewDrafts : IsFiniteSet(r["proposals"])
    BY DraftsAssumption
  <2> QED BY <2>1, <2>2, GatheredFinite DEF RunInv, FragmentsInv
<1> QED BY <1>1, <1>2, <1>3 DEF Closed, Adjudicated, RunInv, DecisionsInv

LEMMA RunClosedAfter ==
    RunInv' /\ Audited' =>
        Closed(review, Gathered(audits, "concerns"), Gathered(audits, "findings"), decided)'
BY RunClosed, PTL

LEMMA ItsItems ==
    ASSUME NEW T, NEW s \in Seq(T)
    PROVE  s \in Seq({s[i] : i \in DOMAIN s})
<1>1. DOMAIN s = 1..Len(s) /\ Len(s) \in Nat /\ s = [i \in 1..Len(s) |-> s[i]]
  BY LenProperties
<1>2. s \in [1..Len(s) -> {s[i] : i \in DOMAIN s}]
  BY <1>1
<1> QED BY <1>1, <1>2, IsASeq

LEMMA OneMoreItem ==
    ASSUME NEW s, s \in Seq({s[i] : i \in DOMAIN s}), NEW x
    PROVE  /\ Append(s, x) \in Seq({Append(s, x)[i] : i \in DOMAIN Append(s, x)})
           /\ Len(s) \in Nat /\ DOMAIN s = 1..Len(s)
           /\ DOMAIN Append(s, x) = 1..(Len(s) + 1) /\ Len(Append(s, x)) = Len(s) + 1
           /\ \A i \in 1..Len(s) : Append(s, x)[i] = s[i]
           /\ Append(s, x)[Len(s) + 1] = x
<1> DEFINE S == {s[i] : i \in DOMAIN s}
           T == S \cup {x}
<1>1. s \in Seq(S)
  OBVIOUS
<1> HIDE DEF S
<1>2. s \in Seq(T)
  BY <1>1
<1>3. x \in T
  OBVIOUS
<1> HIDE DEF T
<1>4. /\ Append(s, x) \in Seq(T) /\ Len(Append(s, x)) = Len(s) + 1 /\ Len(s) \in Nat
      /\ DOMAIN s = 1..Len(s) /\ DOMAIN Append(s, x) = 1..(Len(s) + 1)
      /\ \A i \in 1..Len(s) : Append(s, x)[i] = s[i]
      /\ Append(s, x)[Len(s) + 1] = x
  BY <1>2, <1>3, AppendProperties, LenProperties
<1> QED BY <1>4, ItsItems

LEMMA EditionsStay ==
    ASSUME EditionsInv, UNCHANGED editions, Sealed' <=> Sealed,
           Sealed => UNCHANGED <<review, decided>>
    PROVE  EditionsInv'
BY DEF EditionsInv

LEMMA EditionsSealed ==
    ASSUME RunInv', UNCHANGED review, Seal
    PROVE  EditionsInv'
<1>1. PICK e \in Compiled(review, decided') : editions' = <<[edition |-> e, of |-> 0]>>
  BY DEF Seal
<1>2. phase' = "sealed"
  BY DEF Seal
<1>3. Sealed' /\ Audited'
  BY <1>2 DEF Sealed, Audited
<1>4. EditionShape(e)
  <2>1. PICK concerns, findings : Closed(review', concerns, findings, decided')
    BY <1>3, RunClosedAfter
  <2> QED BY <2>1, CompiledShape
<1>5. /\ DOMAIN editions' = {1} /\ Len(editions') = 1
      /\ editions'[1].edition = e /\ editions'[1].of = 0
  BY <1>1
<1>6. editions' \in Seq({editions'[i] : i \in DOMAIN editions'})
  <2>1. editions' \in Seq({[edition |-> e, of |-> 0]})
    BY <1>1
  <2> QED BY <2>1, ItsItems
<1>7. \A i \in DOMAIN editions' :
        /\ EditionShape(editions'[i].edition)
        /\ editions'[i].of \in 0..(i - 1) /\ editions'[i].of = 0 /\ i = 1
  BY <1>4, <1>5
<1> QED BY <1>1, <1>3, <1>5, <1>6, <1>7 DEF EditionsInv

LEMMA EditionsCorrected ==
    ASSUME EditionsInv, Correct
    PROVE  EditionsInv'
<1>1. PICK i, c, after :
        /\ i \in DOMAIN editions /\ WellFormed(c) /\ after \in Corrected(editions[i].edition, c)
        /\ editions' = Append(editions, [edition |-> after, of |-> i, by |-> c])
  BY DEF Correct
<1> DEFINE new == [edition |-> after, of |-> i, by |-> c]
           n == Len(editions)
<1>2. phase = "completed" /\ UNCHANGED <<phase, review, decided>>
  BY DEF Correct, run
<1>3. Sealed /\ Sealed'
  BY <1>2 DEF Sealed
<1>4. /\ editions' \in Seq({editions'[j] : j \in DOMAIN editions'})
      /\ n \in Nat /\ DOMAIN editions = 1..n /\ DOMAIN editions' = 1..(n + 1) /\ Len(editions') = n + 1
      /\ \A j \in 1..n : editions'[j] = editions[j]
      /\ editions'[n + 1] = new
  <2>1. editions \in Seq({editions[j] : j \in DOMAIN editions}) /\ editions' = Append(editions, new)
    BY <1>1 DEF EditionsInv
  <2> HIDE DEF new
  <2> QED BY <2>1, OneMoreItem
<1>5. EditionShape(after)
  BY <1>1, CorrectedShape DEF EditionsInv
<1>6. /\ editions'[n + 1].edition = after /\ editions'[n + 1].of = i /\ editions'[n + 1].by = c
      /\ i \in 1..n /\ editions'[i] = editions[i] /\ WellFormed(c)
      /\ after \in Corrected(editions[i].edition, c)
  BY <1>1, <1>4
<1>7. ASSUME NEW j \in DOMAIN editions'
      PROVE  /\ EditionShape(editions'[j].edition)
             /\ editions'[j].of \in 0..(j - 1)
             /\ editions'[j].of = 0 => j = 1
             /\ editions'[j].of # 0 => /\ WellFormed(editions'[j].by)
                                       /\ editions'[j].edition
                                            \in Corrected(editions'[editions'[j].of].edition, editions'[j].by)
  <2> HIDE DEF n, new
  <2>1. CASE j = n + 1
    <3>1. i \in 0..(j - 1) /\ i # 0
      BY <1>4, <1>6, <2>1
    <3> QED BY <1>5, <1>6, <2>1, <3>1
  <2>2. CASE j \in 1..n
    <3>1. editions'[j] = editions[j] /\ j \in DOMAIN editions
      BY <1>4, <2>2
    <3>2. editions[j].of \in 0..(j - 1)
      BY <3>1 DEF EditionsInv
    <3>3. editions[j].of # 0 => editions'[editions[j].of] = editions[editions[j].of]
      <4>1. editions[j].of # 0 => editions[j].of \in 1..n
        BY <1>4, <2>2, <3>2
      <4> QED BY <1>4, <4>1
    <3> QED BY <3>1, <3>3 DEF EditionsInv
  <2> QED BY <1>4, <2>1, <2>2
<1>8. editions'[1] = editions[1] /\ Len(editions') >= 1
  <2>1. n >= 1
    BY <1>3 DEF EditionsInv
  <2> HIDE DEF n
  <2> QED BY <1>4, <2>1
<1> QED BY <1>2, <1>3, <1>4, <1>7, <1>8 DEF EditionsInv

LEMMA EditionsStep ==
    ASSUME RunInv, RunInv', EditionsInv, [Next]_vars
    PROVE  EditionsInv'
<1>1. CASE UNCHANGED <<run, editions>>
  <2>1. UNCHANGED <<phase, review, decided, editions>>
    BY <1>1 DEF run
  <2> QED BY <2>1, EditionsStay DEF Sealed
<1>2. ASSUME NEW d \in Drivers, ReviewGoesOn(d) \/ ReviewEnds(d) \/ AuditGoesOn(d) PROVE EditionsInv'
  <2>1. UNCHANGED editions /\ ~Sealed /\ ~Sealed'
    BY <1>2 DEF ReviewGoesOn, ReviewEnds, AuditGoesOn, Sealed
  <2> QED BY <2>1, EditionsStay
<1>3. ASSUME NEW d \in Drivers, AuditEnds(d) \/ Decide(d) PROVE EditionsInv'
  <2>1. /\ UNCHANGED review /\ ~Sealed
        /\ Seal \/ (phase' = "referee" /\ UNCHANGED editions) \/ UNCHANGED <<phase, editions>>
    BY <1>3 DEF AuditEnds, Decide, Sealed
  <2>2. CASE Seal
    BY <2>1, <2>2, EditionsSealed
  <2>3. CASE ~Seal
    <3>1. ~Sealed' /\ UNCHANGED editions
      BY <2>1, <2>3 DEF Sealed
    <3> QED BY <2>1, <3>1, EditionsStay
  <2> QED BY <2>2, <2>3
<1>4. CASE Complete
  <2>1. UNCHANGED <<review, decided, editions>> /\ (Sealed' <=> Sealed)
    BY <1>4 DEF Complete, Sealed
  <2> QED BY <2>1, EditionsStay
<1>5. CASE Correct
  BY <1>5, EditionsCorrected
<1> QED BY <1>1, <1>2, <1>3, <1>4, <1>5, StepKinds

(***************************************************************************)
(* Drivers.                                                                *)
(***************************************************************************)
(* A request is never numbered lower than an earlier one. *)
LEMMA RequestsGrow ==
    ASSUME RunInv, RunInv', [Next]_vars
    PROVE  Request.number \in Nat /\ Request.number' \in Nat /\ Request.number <= Request.number'
<1>1. /\ Request.number = Len(reviews) + Len(audits) + Cardinality(DOMAIN decided) + 1
      /\ Request.number' = Len(reviews') + Len(audits') + Cardinality(DOMAIN decided') + 1
  BY DEF Request
<1>2. /\ Len(reviews) \in Nat /\ Len(audits) \in Nat /\ Cardinality(DOMAIN decided) \in Nat
      /\ Len(reviews') \in Nat /\ Len(audits') \in Nat /\ Cardinality(DOMAIN decided') \in Nat
  BY FS_CardinalityType, LenProperties DEF RunInv, FragmentsInv, DecisionsInv
<1>3. /\ reviews' = reviews \/ Len(reviews') = Len(reviews) + 1
      /\ audits' = audits \/ Len(audits') = Len(audits) + 1
      /\ DOMAIN decided \subseteq DOMAIN decided'
  <2>1. CASE UNCHANGED run \/ Correct
    BY <2>1 DEF Correct, run
  <2>2. ASSUME NEW d \in Drivers, ReviewGoesOn(d) \/ ReviewEnds(d) PROVE <1>3
    <3>1. /\ \E x \in ReviewDrafts : reviews' = Append(reviews, x)
          /\ UNCHANGED <<audits, decided>>
      BY <2>2 DEF ReviewGoesOn, ReviewEnds
    <3> QED BY <3>1, AppendProperties DEF RunInv, FragmentsInv
  <2>3. ASSUME NEW d \in Drivers, AuditGoesOn(d) \/ AuditEnds(d) PROVE <1>3
    <3>1. /\ \E x \in AuditDrafts : audits' = Append(audits, x)
          /\ UNCHANGED <<reviews, decided>>
      BY <2>3 DEF AuditGoesOn, AuditEnds
    <3> QED BY <3>1, AppendProperties DEF RunInv, FragmentsInv
  <2>4. ASSUME NEW d \in Drivers, Decide(d) PROVE <1>3
    BY <2>4, DecideAdds DEF Decide
  <2>5. CASE Complete
    BY <2>5 DEF Complete
  <2> QED BY <2>1, <2>2, <2>3, <2>4, <2>5, StepKinds
<1>4. Cardinality(DOMAIN decided) <= Cardinality(DOMAIN decided')
  BY <1>3, FS_Subset DEF RunInv, DecisionsInv
<1> QED BY <1>1, <1>2, <1>3, <1>4

Placed(p, bound) ==
    /\ p = [at |-> p.at, request |-> p.request, attempt |-> p.attempt]
    /\ p.at \in {"out", "top", "asking"} /\ p.attempt \in {1, 2}
    /\ p.request.number \in 0..bound

LEMMA DriverMoves ==
    ASSUME RunInv, RunInv', [Next]_vars, DriversInv, NEW d \in Drivers, NEW p,
           Placed(p, Request.number'), driver' = [driver EXCEPT ![d] = p]
    PROVE  DriversInv'
<1>1. DOMAIN driver = Drivers /\ \A e \in Drivers : Placed(driver[e], Request.number)
  BY DEF DriversInv, Placed
<1>2. \A e \in Drivers : Placed(driver[e], Request.number')
  BY <1>1, RequestsGrow DEF Placed
<1>3. DOMAIN driver' = Drivers /\ driver' = [e \in Drivers |-> driver'[e]]
  BY <1>1
<1>4. \A e \in Drivers : Placed(driver'[e], Request.number')
  BY <1>1, <1>2
<1> QED BY <1>3, <1>4 DEF DriversInv, Placed

LEMMA DriversStep ==
    ASSUME RunInv, RunInv', DriversInv, [Next]_vars
    PROVE  DriversInv'
<1> DEFINE bound == Request.number'
<1>1. Request.number \in Nat /\ bound \in Nat /\ Request.number <= bound
  BY RequestsGrow
<1>2. Placed(Nowhere, bound) /\ Placed(Top, bound)
  <2>1. 0 \in 0..bound
    BY <1>1
  <2> HIDE DEF bound
  <2> QED BY <2>1 DEF Nowhere, Top, Placed, NoRequest
<1>3. ASSUME NEW d \in Drivers PROVE Placed(driver[d], Request.number)
  BY DEF DriversInv, Placed
<1>4. ASSUME NEW d \in Drivers, Start(d) \/ Leave(d) \/ Return(d) \/ ProviderFails(d) \/ Submit(d)
      PROVE  DriversInv'
  <2>1. driver' = [driver EXCEPT ![d] = Nowhere] \/ driver' = [driver EXCEPT ![d] = Top]
    BY <1>4 DEF Start, Leave, Return, ProviderFails, Submit, ReviewGoesOn, ReviewEnds,
        AuditGoesOn, AuditEnds, Decide, Accepted
  <2> HIDE DEF bound
  <2> QED BY <1>2, <2>1, DriverMoves DEF bound
<1>5. ASSUME NEW d \in Drivers, Ask(d) PROVE DriversInv'
  <2> DEFINE p == [at |-> "asking", request |-> Request, attempt |-> 1]
  <2>1. driver' = [driver EXCEPT ![d] = p]
    BY <1>5 DEF Ask
  <2>2. Request.number \in 0..bound
    <3> HIDE DEF bound
    <3> QED BY <1>1
  <2>3. Placed(p, bound)
    <3> HIDE DEF bound
    <3> QED BY <2>2 DEF Placed
  <2> HIDE DEF p
  <2> QED BY <2>1, <2>3, DriverMoves
<1>6. ASSUME NEW d \in Drivers, Refused(d) PROVE DriversInv'
  <2> DEFINE again == [driver[d] EXCEPT !.attempt = 2]
  <2>1. \/ driver' = [driver EXCEPT ![d] = Nowhere] \/ driver' = [driver EXCEPT ![d] = Top]
        \/ driver' = [driver EXCEPT ![d] = again]
    BY <1>6 DEF Refused
  <2>2. Placed(again, bound)
    <3>1. Placed(driver[d], bound)
      <4> HIDE DEF bound
      <4> QED BY <1>1, <1>3 DEF Placed
    <3> HIDE DEF bound
    <3> QED BY <3>1 DEF Placed
  <2> HIDE DEF again
  <2> QED BY <1>2, <2>1, <2>2, DriverMoves
<1>7. CASE UNCHANGED driver
  BY <1>1, <1>7 DEF DriversInv
<1> QED BY <1>4, <1>5, <1>6, <1>7 DEF Next, Move, Correct, vars

(***************************************************************************)
(* Theorems.                                                               *)
(***************************************************************************)
(* The invariant: with it the run verifies after every step, whoever takes
   the step (_replay_review, _replay_audit, _replay_referees). *)
THEOREM Invariant == Spec => []IInv
<1>1. Init => IInv
  <2> SUFFICES ASSUME Init PROVE IInv
    OBVIOUS
  <2>1. RunInv
    BY RunBegins
  <2>2. EditionsInv
    <3>1. editions = <<>> /\ ~Sealed
      BY DEF Init, Sealed
    <3>2. editions \in Seq({editions[i] : i \in DOMAIN editions}) /\ DOMAIN editions = {}
      BY <3>1
    <3> QED BY <3>1, <3>2 DEF EditionsInv
  <2>3. DriversInv
    <3>1. Request.number \in Nat
      BY <2>1, FS_CardinalityType, LenProperties DEF Request, RunInv, FragmentsInv, DecisionsInv
    <3>2. 0 \in 0..Request.number
      BY <3>1
    <3> QED BY <3>2 DEF Init, DriversInv, Nowhere, NoRequest
  <2> QED BY <2>1, <2>2, <2>3 DEF IInv
<1>2. IInv /\ [Next]_vars => IInv'
  <2> SUFFICES ASSUME IInv, [Next]_vars PROVE IInv'
    OBVIOUS
  <2>1. RunInv /\ EditionsInv /\ DriversInv
    BY DEF IInv
  <2>2. RunInv'
    BY <2>1, RunStep
  <2>3. EditionsInv'
    BY <2>1, <2>2, EditionsStep
  <2>4. DriversInv'
    BY <2>1, <2>2, DriversStep
  <2> QED BY <2>2, <2>3, <2>4 DEF IInv
<1> QED BY <1>1, <1>2, PTL DEF Spec

(* Fragments, decisions, editions and drivers are of their types. *)
THEOREM TypesHold == Spec => []TypeOK
<1>1. IInv => TypeOK
  <2> SUFFICES ASSUME IInv PROVE TypeOK
    OBVIOUS
  <2>1. FragmentsInv /\ AggregatesInv /\ DecisionsInv /\ EditionsInv /\ DriversInv
    BY DEF IInv, RunInv
  <2>2. review \subseteq Proposal
    BY <2>1, DisputesKnown
  <2>3. \A i \in DOMAIN editions :
          /\ editions[i].of \in 0..(i - 1)
          /\ editions[i].edition.requirements \subseteq Proposal
          /\ \A k \in editions[i].edition.contests : Alternatives(k) \subseteq Proposal
    BY <2>1 DEF EditionsInv, EditionShape
  <2> QED BY <2>1, <2>2, <2>3 DEF TypeOK, FragmentsInv, DecisionsInv, DriversInv
<1> QED BY <1>1, Invariant, PTL

(* Every commit leaves a run that verifies, whatever order the drivers'
   answers land in (_phase_requires). *)
THEOREM RunsVerify == Spec => []RunVerifies
<1>1. IInv => RunVerifies
  <2> SUFFICES ASSUME IInv PROVE RunVerifies
    OBVIOUS
  <2>1. FragmentsInv /\ AggregatesInv /\ DecisionsInv /\ EditionsInv
    BY DEF IInv, RunInv
  <2>2. OneFinal(reviews, Reviewed) /\ OneFinal(audits, Audited)
    <3>1. CASE Reviewed /\ Audited
      <4>1. OneFinal(reviews, TRUE) /\ OneFinal(audits, TRUE)
        BY <2>1, <3>1 DEF FragmentsInv
      <4>2. Reviewed = TRUE /\ Audited = TRUE
        BY <3>1 DEF Reviewed, Audited
      <4> QED BY <4>1, <4>2
    <3>2. CASE Reviewed /\ ~Audited
      <4>1. OneFinal(reviews, TRUE) /\ OneFinal(audits, FALSE)
        BY <2>1, <3>2 DEF FragmentsInv
      <4>2. Reviewed = TRUE /\ Audited = FALSE
        BY <3>2 DEF Reviewed, Audited
      <4> QED BY <4>1, <4>2
    <3>3. CASE ~Reviewed
      <4>1. OneFinal(reviews, FALSE) /\ OneFinal(audits, FALSE)
        BY <2>1, <3>3 DEF FragmentsInv, Reviewed, Audited
      <4>2. Reviewed = FALSE /\ Audited = FALSE
        BY <3>3 DEF Reviewed, Audited
      <4> QED BY <4>1, <4>2
    <3> QED BY <3>1, <3>2, <3>3
  <2>3. Sealed => Audited /\ Reviewed
    BY DEF Sealed, Audited, Reviewed
  <2>4. Sealed =>
          /\ DOMAIN decided = Disputes(review, Gathered(audits, "concerns"), Gathered(audits, "findings"))
          /\ \A d \in DOMAIN decided : Permitted(review, d, decided[d])
          /\ editions[1].edition \in Compiled(review, decided)
    BY <2>1, <2>3 DEF AggregatesInv, DecisionsInv, EditionsInv
  <2>5. /\ Reviewed => ReviewAggregates(reviews) /\ review = Gathered(reviews, "proposals")
        /\ Reviewed => AuditProgresses(review, audits)
        /\ Audited => AuditAggregates(review, audits)
    BY <2>1 DEF AggregatesInv
  <2>6. /\ \A d \in DOMAIN decided, e \in disputes \ DOMAIN decided : Before(d, e)
        /\ phase = "referee" => disputes # DOMAIN decided
        /\ ~Sealed => editions = <<>>
    BY <2>1 DEF DecisionsInv, EditionsInv
  <2> QED BY <2>2, <2>4, <2>5, <2>6 DEF RunVerifies
<1> QED BY <1>1, Invariant, PTL

(* The relationships of a corrected edition join what the correction meant,
   and there are no others (apply_baseline_correction_v1, identifier_map). *)
THEOREM RelationshipsFollowCorrections == Spec => []RelationshipsFollow
<1>1. IInv => RelationshipsFollow
  <2> SUFFICES ASSUME IInv, NEW i \in DOMAIN editions, editions[i].of # 0
               PROVE  {<<Standing(editions[i].edition, l[1]), Standing(editions[i].edition, l[2])>>
                          : l \in editions[i].edition.links}
                      = {<<Meant(editions[editions[i].of].edition, editions[i].by, l[1]),
                           Meant(editions[editions[i].of].edition, editions[i].by, l[2])>>
                          : l \in LabelledLinks(editions[editions[i].of].edition, editions[i].by)}
    BY DEF RelationshipsFollow
  <2> DEFINE j == editions[i].of
  <2>1. EditionsInv
    BY DEF IInv
  <2>2. j \in DOMAIN editions
    <3>1. DOMAIN editions = 1..Len(editions) /\ Len(editions) \in Nat
      BY <2>1, LenProperties DEF EditionsInv
    <3>2. j \in 0..(i - 1) /\ j # 0
      BY <2>1 DEF EditionsInv
    <3> HIDE DEF j
    <3> QED BY <3>1, <3>2
  <2>3. /\ EditionShape(editions[j].edition) /\ WellFormed(editions[i].by)
        /\ editions[i].edition \in Corrected(editions[j].edition, editions[i].by)
    BY <2>1, <2>2 DEF EditionsInv
  <2> QED BY <2>3, LinksFollow
<1> QED BY <1>1, Invariant, PTL

(***************************************************************************)
(* What a sealed baseline says of each proposal.                           *)
(***************************************************************************)
(* Decisions on the disputes of the audit have been made. *)
Adjudicating(concerns, findings) == Adjudicated(review, concerns, findings, decided)

(* The tier a ruling gives a proposal: a settled dispute about its importance
   decides it, otherwise what the proposal says after the concern about it. *)
LEMMA RuledTierIs ==
    ASSUME NEW concerns, NEW findings, Adjudicating(concerns, findings), NEW t \in Targets(review)
    PROVE  /\ About(decided, "importance", t) = {} => RuledTier(t) = SaidTier(t)
           /\ \A i \in About(decided, "importance", t) :
                RuledTier(t) = IF decided[i].choice = "unresolved" THEN SaidTier(t)
                               ELSE decided[i].importance
<1>1. /\ t # None
      /\ \A d : d \in Regraded(t) <=> d \in About(decided, "importance", t) /\ decided[d].choice = "accept_auditor"
      /\ \A d : d \in Kept(t) <=> d \in About(decided, "importance", t) /\ decided[d].choice = "accept_reviewer"
  BY ProposedIsThere, ProposalFields DEF Adjudicating, Adjudicated, Aggregated, Regraded, Kept, Ruled, About
<1>2. ASSUME About(decided, "importance", t) = {} PROVE RuledTier(t) = SaidTier(t)
  BY <1>1, <1>2 DEF RuledTier
<1>3. ASSUME NEW i \in About(decided, "importance", t)
      PROVE  RuledTier(t) = IF decided[i].choice = "unresolved" THEN SaidTier(t)
                            ELSE decided[i].importance
  <2>1. i \in DOMAIN decided /\ i.target = t /\ About(decided, "importance", t) = {i}
    BY <1>1, OneRuling DEF Adjudicating
  <2>2. /\ decided[i].choice \in Rulings
        /\ decided[i].choice = "accept_auditor" => decided[i].importance = i.auditor.importance
        /\ decided[i].choice = "accept_reviewer" => decided[i].importance = Proposed(review, t).importance
    BY <2>1, RuledDispute DEF Adjudicating
  <2>3. CASE decided[i].choice = "accept_auditor"
    <3>1. Regraded(t) = {i}
      BY <1>1, <2>1, <2>3
    <3> QED BY <2>2, <2>3, <3>1 DEF RuledTier
  <2>4. CASE decided[i].choice = "accept_reviewer"
    <3>1. Regraded(t) = {} /\ Kept(t) = {i}
      BY <1>1, <2>1, <2>4
    <3> QED BY <2>2, <2>4, <3>1 DEF RuledTier
  <2>5. CASE decided[i].choice = "unresolved"
    <3>1. Regraded(t) = {} /\ Kept(t) = {}
      BY <1>1, <2>1, <2>5
    <3> QED BY <2>5, <3>1 DEF RuledTier
  <2> QED BY <2>2, <2>3, <2>4, <2>5 DEF Rulings
<1> QED BY <1>2, <1>3

(* After its semantic dispute a proposal is open, and as the reviewer said it,
   or says what it is said to say at the tier of whoever said it. *)
LEMMA AfterConcernSaid ==
    ASSUME NEW concerns, NEW findings, Adjudicating(concerns, findings), NEW t \in Targets(review)
    PROVE  \/ /\ \E s \in About(decided, "semantic", t) : decided[s].choice = "unresolved"
              /\ AfterConcern(review, decided, t) = {}
              /\ Said(t) = t /\ SaidTier(t) = Proposed(review, t).importance
           \/ \E q \in Proposal : /\ AfterConcern(review, decided, t) = {q}
                                  /\ q.statement = Said(t) /\ q.importance = SaidTier(t)
<1>1. t # None /\ Proposed(review, t) \in Proposal /\ Proposed(review, t).statement = t
  BY ProposedIsThere, ProposalFields DEF Adjudicating, Adjudicated, Aggregated
<1>2. \A d : d \in Replacements(t) <=> d \in About(decided, "semantic", t) /\ decided[d].choice = "accept_auditor"
  BY DEF Replacements, Ruled, About
<1>3. CASE About(decided, "semantic", t) = {}
  <2>1. AfterConcern(review, decided, t) = {Proposed(review, t)}
    BY <1>3, AfterConcernIs DEF Adjudicating
  <2>2. Said(t) = t /\ SaidTier(t) = Proposed(review, t).importance
    BY <1>2, <1>3 DEF Said, SaidTier
  <2> QED BY <1>1, <2>1, <2>2
<1>4. ASSUME NEW d \in About(decided, "semantic", t)
      PROVE  \/ /\ \E s \in About(decided, "semantic", t) : decided[s].choice = "unresolved"
                /\ AfterConcern(review, decided, t) = {}
                /\ Said(t) = t /\ SaidTier(t) = Proposed(review, t).importance
             \/ \E q \in Proposal : /\ AfterConcern(review, decided, t) = {q}
                                    /\ q.statement = Said(t) /\ q.importance = SaidTier(t)
  <2>1. d \in DOMAIN decided /\ d.target = t /\ About(decided, "semantic", t) = {d}
    BY <1>1, OneRuling DEF Adjudicating
  <2>2. decided[d].choice \in Rulings
    BY <2>1, RuledDispute DEF Adjudicating
  <2>3. CASE decided[d].choice = "accept_reviewer"
    <3>1. AfterConcern(review, decided, t) = {Proposed(review, t)}
      BY <1>4, <2>3, AfterConcernIs DEF Adjudicating
    <3>2. Said(t) = t /\ SaidTier(t) = Proposed(review, t).importance
      BY <1>2, <2>1, <2>3 DEF Said, SaidTier
    <3> QED BY <1>1, <3>1, <3>2
  <2>4. CASE decided[d].choice = "accept_auditor"
    <3>1. AfterConcern(review, decided, t) = {d.auditor}
      BY <1>4, <2>4, AfterConcernIs DEF Adjudicating
    <3>2. Replacements(t) = {d}
      BY <1>2, <2>1, <2>4
    <3>3. Said(t) = d.auditor.statement /\ SaidTier(t) = d.auditor.importance
      BY <3>2 DEF Said, SaidTier
    <3>4. d.auditor \in Proposal
      BY <2>1, <2>4, RuledDispute DEF Adjudicating
    <3> QED BY <3>1, <3>3, <3>4
  <2>5. CASE decided[d].choice = "unresolved"
    <3>1. AfterConcern(review, decided, t) = {}
      BY <1>4, <2>5, AfterConcernIs DEF Adjudicating
    <3>2. Said(t) = t /\ SaidTier(t) = Proposed(review, t).importance
      BY <1>2, <2>1, <2>5 DEF Said, SaidTier
    <3> QED BY <1>4, <2>5, <3>1, <3>2
  <2> QED BY <2>2, <2>3, <2>4, <2>5 DEF Rulings
<1> QED BY <1>3, <1>4

(* A proposal that is a requirement says what it is said to say, at the tier
   of the ruling, and no dispute about it is open. *)
LEMMA OrdinarySaid ==
    ASSUME NEW concerns, NEW findings, Adjudicating(concerns, findings), NEW t \in Targets(review)
    PROVE  \/ /\ Ordinary(review, decided, t) = {}
              /\ \E d \in DOMAIN decided : d.target = t /\ decided[d].choice = "unresolved"
           \/ /\ \E p \in Proposal : /\ Ordinary(review, decided, t) = {p}
                                     /\ p.statement = Said(t) /\ p.importance = RuledTier(t)
              /\ \A d \in DOMAIN decided : d.target = t => decided[d].choice # "unresolved"
<1> DEFINE open == \E d \in DOMAIN decided : d.target = t /\ decided[d].choice = "unresolved"
           shown(p) == p.statement = Said(t) /\ p.importance = RuledTier(t)
<1>1. t # None
  BY ProposedIsThere, ProposalFields DEF Adjudicating, Adjudicated, Aggregated
<1>2. \A d \in DOMAIN decided : d.target = t =>
          d \in About(decided, "semantic", t) \/ d \in About(decided, "importance", t)
  BY RuledDispute DEF Adjudicating, DisputeShape, About
<1>3. \A d : d \in About(decided, "semantic", t) \/ d \in About(decided, "importance", t) =>
          d \in DOMAIN decided /\ d.target = t
  BY DEF About
<1>4. ASSUME NEW s \in About(decided, "semantic", t), decided[s].choice = "unresolved",
             AfterConcern(review, decided, t) = {}
      PROVE  Ordinary(review, decided, t) = {} /\ open
  <2>1. open
    BY <1>3, <1>4
  <2>2. Ordinary(review, decided, t) = {}
    BY <1>4, OrdinaryIs DEF Adjudicating
  <2> QED BY <2>1, <2>2
<1>5. ASSUME NEW q \in Proposal, AfterConcern(review, decided, t) = {q},
             q.statement = Said(t), q.importance = SaidTier(t)
      PROVE  \/ Ordinary(review, decided, t) = {} /\ open
             \/ ~open /\ \E p \in Proposal : Ordinary(review, decided, t) = {p} /\ shown(p)
  <2>1. \A s \in About(decided, "semantic", t) : decided[s].choice # "unresolved"
    <3> SUFFICES ASSUME NEW s \in About(decided, "semantic", t), decided[s].choice = "unresolved" PROVE FALSE
      OBVIOUS
    <3>1. AfterConcern(review, decided, t) = {}
      BY AfterConcernIs DEF Adjudicating
    <3> QED BY <1>5, <3>1
  <2>2. CASE About(decided, "importance", t) = {}
    <3>1. ~open
      BY <1>2, <2>1, <2>2
    <3>2. Ordinary(review, decided, t) = {q}
      BY <1>5, <2>2, OrdinaryIs DEF Adjudicating
    <3>3. RuledTier(t) = SaidTier(t)
      BY <2>2, RuledTierIs
    <3> QED BY <1>5, <3>1, <3>2, <3>3
  <2>3. ASSUME NEW i \in About(decided, "importance", t)
        PROVE  \/ Ordinary(review, decided, t) = {} /\ open
               \/ ~open /\ \E p \in Proposal : Ordinary(review, decided, t) = {p} /\ shown(p)
    <3>1. i \in DOMAIN decided /\ i.target = t /\ About(decided, "importance", t) = {i}
      BY <1>1, OneRuling DEF Adjudicating
    <3>2. CASE decided[i].choice = "unresolved"
      <4>1. Ordinary(review, decided, t) = {}
        BY <3>2, OrdinaryIs DEF Adjudicating
      <4> QED BY <3>1, <3>2, <4>1
    <3>3. CASE decided[i].choice # "unresolved"
      <4> DEFINE p == Rated(q, decided[i].importance)
      <4>1. ~open
        BY <1>2, <2>1, <3>1, <3>3
      <4>2. Ordinary(review, decided, t) = {Rated(r, decided[i].importance) : r \in {q}}
        BY <1>5, <3>3, OrdinaryIs DEF Adjudicating
      <4>3. Ordinary(review, decided, t) = {p}
        BY <4>2
      <4>4. decided[i].importance \in Importances
        BY <3>1, RuledDispute DEF Adjudicating
      <4>5. RuledTier(t) = decided[i].importance
        BY <3>3, RuledTierIs
      <4>6. p \in Proposal /\ p.statement = Said(t) /\ p.importance = RuledTier(t)
        BY <1>5, <4>4, <4>5, RatedProposal
      <4> QED BY <4>1, <4>3, <4>6
    <3> QED BY <3>2, <3>3
  <2> QED BY <2>2, <2>3
<1> QED BY <1>4, <1>5, AfterConcernSaid

(* The compiled decisions, as the run holds them once sealed. *)
Compiling(concerns, findings) ==
    /\ Adjudicating(concerns, findings)
    /\ Outcome.requirements = Requirements(review, decided)
    /\ Outcome.contests = Contests(review, decided)
    /\ \A p, q \in Outcome.requirements : p.statement = q.statement => p = q

LEMMA SealedCompiles ==
    ASSUME IInv, Sealed
    PROVE  \E concerns, findings : Compiling(concerns, findings)
<1>1. Audited
  BY DEF Sealed, Audited
<1>2. Closed(review, Gathered(audits, "concerns"), Gathered(audits, "findings"), decided)
  BY <1>1, RunClosed DEF IInv
<1>3. Outcome \in Compiled(review, decided)
  BY DEF IInv, EditionsInv, Outcome
<1> QED BY <1>2, <1>3, CompiledApart DEF Compiling, Adjudicating, Closed

(* A dispute left open is a contest, and its sides are shown. *)
LEMMA OpenIsShown ==
    ASSUME NEW concerns, NEW findings, Compiling(concerns, findings),
           NEW d \in DOMAIN decided, decided[d].choice = "unresolved"
    PROVE  LET k == Contested(review, decided, d)
           IN /\ k \in Outcome.contests /\ k.dispute = d
              /\ k.reviewer \in Proposal => k.reviewer \in Shown
              /\ k.auditor \in Proposal => k.auditor \in Shown
<1> DEFINE k == Contested(review, decided, d)
<1>1. k \in Outcome.contests /\ k.dispute = d
  BY DEF Compiling, Contests, Unresolved, Contested, Contest
<1>2. \A p \in Proposal : p # NoProposal
  BY ProposalFields
<1>3. \A a : a \in Alternatives(k) => a \in Shown
  <2> HIDE DEF k
  <2> QED BY <1>1 DEF Shown
<1> HIDE DEF k
<1>4. \A a \in {k.reviewer, k.auditor} : a \in Proposal => a \in Alternatives(k)
  BY <1>2 DEF Alternatives
<1> QED BY <1>1, <1>3, <1>4 DEF k

(* The side a referee left open shows what the proposal is said to say, at
   the tier of the rulings. *)
LEMMA OpenSideSaid ==
    ASSUME NEW concerns, NEW findings, Adjudicating(concerns, findings), NEW d \in DOMAIN decided,
           decided[d].choice = "unresolved", d.target # None
    PROVE  LET side == Contested(review, decided, d).reviewer
           IN side \in Proposal /\ side.statement = Said(d.target) /\ side.importance = RuledTier(d.target)
<1> DEFINE t == d.target
           side == Contested(review, decided, d).reviewer
           proposed == Proposed(review, t)
<1>1. t \in Targets(review) /\ proposed \in Proposal /\ proposed.statement = t /\ DisputeShape(d)
  BY RuledDispute DEF Adjudicating
<1>2. CASE d.kind = "semantic"
  <2>1. d \in About(decided, "semantic", t)
    BY <1>2 DEF About
  <2>2. AfterConcern(review, decided, t) = {}
    BY <1>1, <2>1, AfterConcernIs DEF Adjudicating
  <2>3. Said(t) = t /\ SaidTier(t) = proposed.importance
    <3>1. \A q : AfterConcern(review, decided, t) # {q}
      BY <2>2
    <3> QED BY <1>1, <3>1, AfterConcernSaid
  <2>4. side = ReviewerSide(review, decided, t)
    BY <1>2 DEF Contested, Contest
  <2> DEFINE settled == {e \in About(decided, "importance", t) : decided[e].choice # "unresolved"}
  <2>5. CASE settled = {}
    <3>1. side = proposed
      BY <2>4, <2>5 DEF ReviewerSide
    <3>2. RuledTier(t) = SaidTier(t)
      <4>1. \A i \in About(decided, "importance", t) : decided[i].choice = "unresolved"
        BY <2>5
      <4> QED BY <1>1, <4>1, RuledTierIs
    <3> QED BY <1>1, <2>3, <3>1, <3>2
  <2>6. CASE settled # {}
    <3> DEFINE e == CHOOSE x \in settled : TRUE
    <3>1. e \in settled
      BY <2>6
    <3>2. side = Rated(proposed, decided[e].importance)
      BY <2>4, <2>6 DEF ReviewerSide
    <3>3. e \in About(decided, "importance", t) /\ decided[e].choice # "unresolved"
      BY <3>1
    <3> HIDE DEF e
    <3>4. decided[e].importance \in Importances
      BY <3>3, RuledDispute DEF Adjudicating, About
    <3>5. RuledTier(t) = decided[e].importance
      BY <1>1, <3>3, RuledTierIs
    <3> QED BY <1>1, <2>3, <3>2, <3>4, <3>5, RatedProposal
  <2> QED BY <2>5, <2>6
<1>3. CASE d.kind = "importance"
  <2>1. d \in About(decided, "importance", t)
    BY <1>3 DEF About
  <2>2. RuledTier(t) = SaidTier(t)
    BY <1>1, <2>1, RuledTierIs
  <2>3. side = RatedSide(review, decided, t)
    BY <1>3 DEF Contested, Contest
  <2>4. CASE AfterConcern(review, decided, t) = {} /\ Said(t) = t /\ SaidTier(t) = proposed.importance
    BY <1>1, <2>2, <2>3, <2>4 DEF RatedSide
  <2>5. ASSUME NEW q \in Proposal, AfterConcern(review, decided, t) = {q},
               q.statement = Said(t), q.importance = SaidTier(t)
        PROVE  side \in Proposal /\ side.statement = Said(t) /\ side.importance = RuledTier(t)
    <3>1. side = q
      BY <2>3, <2>5 DEF RatedSide
    <3> QED BY <2>2, <2>5, <3>1
  <2> QED BY <1>1, <2>4, <2>5, AfterConcernSaid
<1> QED BY <1>1, <1>2, <1>3 DEF DisputeShape

(* A proposal is open, or it is a requirement at the tier of the rulings. *)
LEMMA ProposalIsShown ==
    ASSUME NEW concerns, NEW findings, Compiling(concerns, findings), NEW t \in Targets(review)
    PROVE  \/ \E d \in DOMAIN decided :
                /\ d.target = t /\ decided[d].choice = "unresolved"
                /\ Contested(review, decided, d).reviewer \in Proposal
                /\ Contested(review, decided, d).reviewer.statement = Said(t)
           \/ \E p \in Outcome.requirements :
                p.statement = Said(t) /\ p.importance = RuledTier(t)
<1>1. t # None
  BY ProposedIsThere, ProposalFields DEF Compiling, Adjudicating, Adjudicated, Aggregated
<1>2. ASSUME NEW d \in DOMAIN decided, d.target = t, decided[d].choice = "unresolved"
      PROVE  /\ Contested(review, decided, d).reviewer \in Proposal
             /\ Contested(review, decided, d).reviewer.statement = Said(t)
  BY <1>1, <1>2, OpenSideSaid DEF Compiling
<1>3. ASSUME NEW p, Ordinary(review, decided, t) = {p},
             p.statement = Said(t), p.importance = RuledTier(t)
      PROVE  \E q \in Outcome.requirements : q.statement = Said(t) /\ q.importance = RuledTier(t)
  <2>1. p \in Requirements(review, decided)
    BY <1>3, RequirementOrigins
  <2> QED BY <1>3, <2>1 DEF Compiling
<1> QED BY <1>2, <1>3, OrdinarySaid DEF Compiling

(* Nothing a reviewer or an auditor stated is lost on the way to the
   baseline (compile_canonical_baseline_v1). *)
THEOREM NothingIsLost == Spec => []NothingDisappears
<1>1. IInv => NothingDisappears
  <2> SUFFICES ASSUME IInv, Sealed
               PROVE  /\ \A t \in Targets(review) : \E p \in Shown : p.statement = Said(t)
                      /\ \A d \in {e \in Ruled({"accept_auditor", "unresolved"}) : e.kind = "semantic"} :
                            d.auditor = NoProposal \/ \E p \in Shown : p.statement = d.auditor.statement
    BY DEF NothingDisappears
  <2>1. PICK concerns, findings : Compiling(concerns, findings)
    BY SealedCompiles
  <2>2. \A p \in Outcome.requirements : p \in Shown
    BY DEF Shown
  <2>3. ASSUME NEW t \in Targets(review) PROVE \E p \in Shown : p.statement = Said(t)
    <3>1. CASE \E p \in Outcome.requirements : p.statement = Said(t)
      BY <2>2, <3>1
    <3>2. ASSUME NEW d \in DOMAIN decided, decided[d].choice = "unresolved",
                 Contested(review, decided, d).reviewer \in Proposal,
                 Contested(review, decided, d).reviewer.statement = Said(t)
          PROVE  \E p \in Shown : p.statement = Said(t)
      BY <2>1, <3>2, OpenIsShown
    <3> QED BY <2>1, <3>1, <3>2, ProposalIsShown
  <2>4. ASSUME NEW d \in DOMAIN decided, decided[d].choice \in {"accept_auditor", "unresolved"},
               d.kind = "semantic", d.auditor # NoProposal
        PROVE  \E p \in Shown : p.statement = d.auditor.statement
    <3>1. DisputeShape(d)
      BY <2>1, RuledDispute DEF Compiling, Adjudicating
    <3>2. CASE decided[d].choice = "unresolved"
      <4>1. Contested(review, decided, d).auditor = d.auditor
        BY <2>4 DEF Contested, Contest
      <4>2. d.auditor \in Proposal
        BY <2>4, <3>1 DEF DisputeShape
      <4> QED BY <2>1, <3>2, <4>1, <4>2, OpenIsShown
    <3>3. CASE decided[d].choice = "accept_auditor" /\ d.target = None
      <4>1. d.auditor \in Additions(decided)
        BY <2>1, <2>4, <3>3, AdditionsAre DEF About, Compiling, Adjudicating
      <4> QED BY <2>1, <2>2, <4>1, RequirementOrigins DEF Compiling
    <3>4. CASE decided[d].choice = "accept_auditor" /\ d.target # None
      <4>1. d.target \in Targets(review)
        BY <2>1, <3>4, RuledDispute DEF Compiling, Adjudicating
      <4>2. d \in Replacements(d.target) /\ d \in About(decided, "semantic", d.target)
        BY <2>4, <3>4 DEF Replacements, Ruled, About
      <4>3. About(decided, "semantic", d.target) = {d}
        BY <2>1, <3>4, <4>2, OneRuling DEF Compiling, Adjudicating
      <4>4. Replacements(d.target) = {d}
        BY <4>2, <4>3 DEF Replacements, Ruled, About
      <4>5. Said(d.target) = d.auditor.statement
        BY <4>4 DEF Said
      <4> QED BY <2>3, <4>1, <4>5
    <3> QED BY <2>4, <3>2, <3>3, <3>4
  <2> QED BY <2>3, <2>4 DEF Ruled
<1> QED BY <1>1, Invariant, PTL

(* Every tier of a sealed baseline is the one its ruling gives it, and the
   tier of a contest its referee's, held to the two sides when the contest is
   about importance (compile_canonical_baseline_v1, _contest_requirement). *)
THEOREM TiersAreRuled == Spec => []TiersFollowRulings
<1>1. IInv => TiersFollowRulings
  <2> DEFINE graded == {<<p.statement, p.importance>> : p \in Outcome.requirements}
             settled == {u \in Targets(review) : Contesting(u) = {}}
             ruled == {<<Said(t), RuledTier(t)>> : t \in settled}
             omitted == {<<d.auditor.statement, d.auditor.importance>> : d \in AcceptedOmissions}
  <2> SUFFICES ASSUME IInv, Sealed
               PROVE  /\ graded = ruled \cup omitted
                      /\ \A k \in Outcome.contests :
                          /\ k.reviewer # NoProposal => k.reviewer.importance = RuledTier(k.dispute.target)
                          /\ k.auditor # NoProposal => k.auditor.importance = k.dispute.auditor.importance
                          /\ k.importance = decided[k.dispute].importance
                          /\ k.dispute.kind = "importance" =>
                                k.importance \in {Proposed(review, k.dispute.target).importance,
                                                  k.dispute.auditor.importance}
    BY DEF TiersFollowRulings
  <2>1. PICK concerns, findings : Compiling(concerns, findings)
    BY SealedCompiles
  <2>2. \A t : t \in settled <=>
          t \in Targets(review) /\ \A d \in DOMAIN decided : d.target = t => decided[d].choice # "unresolved"
    <3> SUFFICES ASSUME NEW t \in Targets(review)
                 PROVE  Contesting(t) = {} <=>
                          \A d \in DOMAIN decided : d.target = t => decided[d].choice # "unresolved"
      OBVIOUS
    <3>1. ASSUME NEW d \in DOMAIN decided, d.target = t, decided[d].choice = "unresolved"
          PROVE  Contesting(t) # {}
      <4>1. Contested(review, decided, d) \in Outcome.contests /\ Contested(review, decided, d).dispute = d
        BY <2>1, <3>1, OpenIsShown
      <4> QED BY <3>1, <4>1 DEF Contesting
    <3>2. ASSUME NEW k \in Contesting(t)
          PROVE  \E d \in DOMAIN decided : d.target = t /\ decided[d].choice = "unresolved"
      <4>1. PICK e \in Unresolved(decided) : k = Contested(review, decided, e)
        BY <2>1 DEF Contesting, Compiling, Contests
      <4>2. k.dispute = e
        BY <4>1 DEF Contested, Contest
      <4> QED BY <4>1, <4>2 DEF Contesting, Unresolved
    <3> QED BY <3>1, <3>2
  <2>3. \A d : d \in AcceptedOmissions <=> d \in About(decided, "semantic", None) /\ decided[d].choice = "accept_auditor"
    BY DEF AcceptedOmissions, Ruled, About
  <2>4. \A p : p \in Outcome.requirements <=>
          (\E t \in Targets(review) : p \in Ordinary(review, decided, t)) \/ p \in Additions(decided)
    <3>1. Outcome.requirements = Requirements(review, decided)
      BY <2>1 DEF Compiling
    <3>2. \A p : p \in Requirements(review, decided) <=>
            (\E t \in Targets(review) : p \in Ordinary(review, decided, t)) \/ p \in Additions(decided)
      BY RequirementOrigins
    <3> QED BY <3>1, <3>2
  <2>5. \A p : p \in Additions(decided) <=> \E d \in AcceptedOmissions : p = d.auditor
    <3>1. Additions(decided) =
            {d.auditor : d \in {s \in About(decided, "semantic", None) : decided[s].choice = "accept_auditor"}}
      BY <2>1, AdditionsAre DEF Compiling, Adjudicating
    <3>2. {s \in About(decided, "semantic", None) : decided[s].choice = "accept_auditor"} = AcceptedOmissions
      BY <2>3
    <3> QED BY <3>1, <3>2
  <2>6. ASSUME NEW t \in settled
        PROVE  \E p : Ordinary(review, decided, t) = {p} /\ p.statement = Said(t) /\ p.importance = RuledTier(t)
    BY <2>1, <2>2, OrdinarySaid DEF Compiling
  <2>7. ASSUME NEW t \in Targets(review), NEW p \in Ordinary(review, decided, t)
        PROVE  t \in settled /\ p.statement = Said(t) /\ p.importance = RuledTier(t)
    <3>1. Ordinary(review, decided, t) # {}
      BY <2>7
    <3>2. \A d \in DOMAIN decided : d.target = t => decided[d].choice # "unresolved"
      BY <2>1, <3>1, OrdinarySaid DEF Compiling
    <3>3. t \in settled
      BY <2>2, <3>2
    <3> QED BY <2>6, <3>3
  <2>8. ASSUME NEW x \in graded PROVE x \in ruled \cup omitted
    <3>1. PICK p \in Outcome.requirements : x = <<p.statement, p.importance>>
      OBVIOUS
    <3>2. ASSUME NEW t \in Targets(review), p \in Ordinary(review, decided, t) PROVE x \in ruled
      <4>1. t \in settled /\ x = <<Said(t), RuledTier(t)>>
        BY <2>7, <3>1, <3>2
      <4> HIDE DEF settled
      <4> QED BY <4>1
    <3>3. ASSUME NEW d \in AcceptedOmissions, p = d.auditor PROVE x \in omitted
      BY <3>1, <3>3
    <3> QED BY <2>4, <2>5, <3>2, <3>3
  <2>9. ASSUME NEW x \in ruled PROVE x \in graded
    <3>1. PICK t \in settled : x = <<Said(t), RuledTier(t)>>
      OBVIOUS
    <3>2. PICK p : Ordinary(review, decided, t) = {p} /\ p.statement = Said(t) /\ p.importance = RuledTier(t)
      BY <2>6
    <3>3. p \in Outcome.requirements /\ x = <<p.statement, p.importance>>
      BY <2>4, <3>1, <3>2
    <3> QED BY <3>3
  <2>10. ASSUME NEW x \in omitted PROVE x \in graded
    <3>1. PICK d \in AcceptedOmissions : x = <<d.auditor.statement, d.auditor.importance>>
      OBVIOUS
    <3>2. d.auditor \in Outcome.requirements
      BY <2>4, <2>5
    <3> QED BY <3>1, <3>2
  <2>11. graded = ruled \cup omitted
    <3> HIDE DEF graded, ruled, omitted
    <3> QED BY <2>8, <2>9, <2>10
  <2>12. ASSUME NEW k \in Outcome.contests
         PROVE  /\ k.reviewer # NoProposal => k.reviewer.importance = RuledTier(k.dispute.target)
                /\ k.auditor # NoProposal => k.auditor.importance = k.dispute.auditor.importance
                /\ k.importance = decided[k.dispute].importance
                /\ k.dispute.kind = "importance" =>
                      k.importance \in {Proposed(review, k.dispute.target).importance,
                                        k.dispute.auditor.importance}
    <3>1. PICK d \in Unresolved(decided) : k = Contested(review, decided, d)
      BY <2>1 DEF Compiling, Contests
    <3>2. d \in DOMAIN decided /\ decided[d].choice = "unresolved" /\ DisputeShape(d)
      BY <2>1, <3>1, RuledDispute DEF Unresolved, Compiling, Adjudicating
    <3>3. k.dispute = d /\ k.importance = decided[d].importance
      BY <3>1 DEF Contested, Contest
    <3>4. d.kind = "importance" =>
            decided[d].importance \in {Proposed(review, d.target).importance, d.auditor.importance}
      BY <2>1, <3>2, RuledDispute DEF Compiling, Adjudicating
    <3>5. d.target # None => k.reviewer.importance = RuledTier(d.target)
      BY <2>1, <3>1, <3>2, OpenSideSaid DEF Compiling
    <3>6. d.target = None => k.reviewer = NoProposal
      <4>1. d.target = None => d.kind = "semantic"
        BY <3>2 DEF DisputeShape
      <4>2. d.kind = "semantic" => k.reviewer = ReviewerSide(review, decided, d.target)
        BY <3>1 DEF Contested, Contest
      <4> QED BY <2>1, <3>2, <4>1, <4>2, SidesAre DEF Compiling, Adjudicating
    <3>7. k.auditor # NoProposal => k.auditor.importance = d.auditor.importance
      <4>1. CASE d.kind = "semantic"
        BY <3>1, <4>1 DEF Contested, Contest
      <4>2. CASE d.kind = "importance"
        <5>1. k.auditor = Rated(RatedSide(review, decided, d.target), d.auditor.importance)
          BY <3>1, <4>2 DEF Contested, Contest
        <5>2. d.target # None /\ d.auditor.importance \in Importances
          BY <3>2, <4>2, ProposalFields DEF DisputeShape
        <5>3. RatedSide(review, decided, d.target) \in Proposal
          BY <2>1, <3>2, <5>2, SidesAre DEF Compiling, Adjudicating
        <5> QED BY <5>1, <5>2, <5>3, RatedProposal
      <4> QED BY <3>2, <4>1, <4>2 DEF DisputeShape
    <3> QED BY <3>3, <3>4, <3>5, <3>6, <3>7
  <2> QED BY <2>11, <2>12
<1> QED BY <1>1, Invariant, PTL
================================================================================
