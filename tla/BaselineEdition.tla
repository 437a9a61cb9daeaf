---------------------------- MODULE BaselineEdition ----------------------------
(***************************************************************************)
(* The canonical baseline as it is published: requirements numbered in the *)
(* order of their passages, contested requirements numbered after them,    *)
(* and relationships between numbers; and the corrected editions made from *)
(* it (attorney_baseline_compiler.py).                                     *)
(*                                                                         *)
(* Contests are numbered in the order of their disputes, where the code    *)
(* sorts their text.  A relationship is its two ends; its kind             *)
(* (depends_on, exception_to, ...) is left out.                            *)
(***************************************************************************)
EXTENDS BaselineOutcome

(* build_baseline_disputes_v1 sorts canonical JSON, in which an importance
   dispute, having no concern, comes before every semantic one; within a kind
   the order is that of the text, here of targets and corrections. *)
Before(d, e) ==
    \/ d.kind = "importance" /\ e.kind = "semantic"
    \/ /\ d.kind = e.kind
       /\ \/ d.target < e.target
          \/ d.target = e.target /\ d.auditor.statement < e.auditor.statement

(***************************************************************************)
(* Compilation: what each requirement comes from, and their statements     *)
(* told apart (BASELINE_COMPILED_SEMANTICS).                               *)
(***************************************************************************)
ByOrigin(review, decided) ==
    (UNION {{<<t, p>> : p \in Ordinary(review, decided, t)} : t \in Targets(review)})
    \cup {<<None, p>> : p \in Additions(decided)}

StatementsDiffer(origins) ==
    \A o, u \in origins : o[2].statement = u[2].statement => o = u

Number(requirements, p) == Cardinality({q \in requirements : q.statement <= p.statement})

ContestNumber(edition, contest) ==
    Cardinality(edition.requirements)
        + Cardinality({k \in edition.contests : ~Before(contest.dispute, k.dispute)})
ContestNumbers(edition) == {ContestNumber(edition, k) : k \in edition.contests}

(* Every requirement and alternative with its number; the two alternatives of
   a contest share one. *)
Entries(edition) ==
    {<<Number(edition.requirements, p), p>> : p \in edition.requirements}
    \cup UNION {{<<ContestNumber(edition, k), a>> : a \in Alternatives(k)} : k \in edition.contests}

(* _dependency_edges: a dependency names exactly one other number. *)
Holders(entries, statement) == {e[1] : e \in {x \in entries : x[2].statement = statement}}
Dependents(entries) == {e \in entries : e[2].dependency # None}
Resolved(entries) ==
    \A e \in Dependents(entries) : \E n \in Holders(entries, e[2].dependency) :
        Holders(entries, e[2].dependency) = {n} /\ n # e[1]
DependencyEdges(entries) ==
    UNION {{<<e[1], n>> : n \in Holders(entries, e[2].dependency)} : e \in Dependents(entries)}

Numbered(review, decided) ==
    [requirements |-> Requirements(review, decided),
     contests |-> Contests(review, decided),
     links |-> {}]

(* compile_canonical_baseline_v1: the editions the accepted answers compile
   to, one or none. *)
Compiled(review, decided) ==
    {[numbered EXCEPT !.links = DependencyEdges(Entries(numbered))] :
        numbered \in {n \in {Numbered(review, decided)} :
                        StatementsDiffer(ByOrigin(review, decided)) /\ Resolved(Entries(n))}}

(***************************************************************************)
(* Corrections (apply_baseline_correction_v1).  A record touches each      *)
(* number once, so its actions are a set: requirements replaced or         *)
(* removed, requirements added under fresh numbers, relationships dropped  *)
(* and added.  Contested requirements are kept.                            *)
(***************************************************************************)
(* What the schema of a record admits (BaselineCorrectionActionV1). *)
WellFormed(c) ==
    /\ \A n \in DOMAIN c.changed : c.changed[n] \in Proposal \cup {NoProposal}
    /\ \A n \in DOMAIN c.added : c.added[n] \in Proposal
    /\ IsFiniteSet(DOMAIN c.added)

Requirement(edition, n) == CHOOSE p \in edition.requirements : Number(edition.requirements, p) = n

Touchable(edition, c) ==
    /\ DOMAIN c.changed \subseteq 1..Cardinality(edition.requirements)
    /\ DOMAIN c.added \cap (1..Cardinality(edition.requirements) \cup ContestNumbers(edition)) = {}
    /\ c.dropped \subseteq edition.links
    /\ c.linked \cap (edition.links \ c.dropped) = {}

(* The requirements under the numbers the record speaks of. *)
Labelled(edition, c) ==
    [n \in {m \in 1..Cardinality(edition.requirements) : m \in DOMAIN c.changed => c.changed[m] # NoProposal}
           \cup DOMAIN c.added |->
        IF n \in DOMAIN c.added THEN c.added[n]
        ELSE IF n \in DOMAIN c.changed THEN c.changed[n]
        ELSE Requirement(edition, n)]
LabelledLinks(edition, c) == (edition.links \ c.dropped) \cup c.linked

(* identifier_map. *)
RenumberedContestsStay(edition, labelled, n) ==
    IF n \in DOMAIN labelled
    THEN Cardinality({m \in DOMAIN labelled : labelled[m].statement <= labelled[n].statement})
    ELSE n

Renumbered(edition, labelled, n) ==
    IF n \in DOMAIN labelled
    THEN Cardinality({m \in DOMAIN labelled : labelled[m].statement <= labelled[n].statement})
    ELSE n - Cardinality(edition.requirements) + Cardinality(DOMAIN labelled)

Relabelled(edition, labelled, links) ==
    [requirements |-> {labelled[n] : n \in DOMAIN labelled},
     contests |-> edition.contests,
     links |-> {<<Renumbered(edition, labelled, l[1]), Renumbered(edition, labelled, l[2])>> : l \in links}]

(* The checks on what the record makes, before it is renumbered ... *)
Joinable(edition, labelled, links) ==
    /\ \A m, n \in DOMAIN labelled : labelled[m].statement = labelled[n].statement => m = n
    /\ \A l \in links :
        /\ {l[1], l[2]} \subseteq DOMAIN labelled \cup ContestNumbers(edition)
        /\ l[1] # l[2]

(* ... and after (_validate_relationship_inventory). *)
LinksCover(entries, links) == Resolved(entries) /\ DependencyEdges(entries) \subseteq links

(* The editions a correction makes of an edition, one or none. *)
Corrected(edition, c) ==
    {after \in {Relabelled(edition, labelled, LabelledLinks(edition, c)) :
                    labelled \in {l \in {Labelled(edition, c)} :
                                    Touchable(edition, c) /\ Joinable(edition, l, LabelledLinks(edition, c))}} :
        LinksCover(Entries(after), after.links)}
================================================================================
