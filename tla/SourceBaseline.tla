----------------------------- MODULE SourceBaseline -----------------------------
(***************************************************************************)
(* From the accepted source fragments to the sealed baseline: the          *)
(* duplicate checks of attorney_v22_compiler.py and the decision           *)
(* application, canonical order and dependency resolution of               *)
(* attorney_v21_compiler.py that compile_baseline_v22 delegates to.        *)
(*                                                                         *)
(* A proposal is a positive number standing for its whole content; the     *)
(* numbers are in the order of _requirement_sort_key.  What the compiler   *)
(* compares besides the content, the statement and the statement the       *)
(* dependency names, is given by functions.  Quotations that resolve to    *)
(* one place in the sources are taken for granted.                         *)
(***************************************************************************)
EXTENDS Integers, Sequences, FiniteSets

CONSTANTS
    Proposals,      \* the proposals roles may author
    Statement,      \* Statement[p]: what p asserts, whitespace normalized
    Dependency,     \* Dependency[p]: the statement p depends on, or NoStatement
    Importance,     \* Importance[p]
    NoStatement,
    Grounds,        \* a concern's type and passages
    BatchSize       \* five in the code

ASSUME ProposalsAssumption ==
    /\ Proposals \subseteq Nat \ {0} /\ IsFiniteSet(Proposals)
    /\ DOMAIN Statement = Proposals /\ DOMAIN Dependency = Proposals
    /\ Importance \in [Proposals -> {"critical", "material", "supporting"}]
    /\ \A p \in Proposals : Statement[p] # NoStatement
ASSUME BatchAssumption == BatchSize \in Nat \ {0}

NoProposal == 0
NoTarget == 0

(* A concern names a proposal by its place in the review, unless it is an
   omission, and offers a correction, unless it is a bare ambiguity. *)
Concern == [target : Nat, correction : Proposals \cup {NoProposal}, grounds : Grounds]
Decision == {"accept_reviewer", "accept_auditor", "unresolved"}

(***************************************************************************)
(* Duplicates and conflicts over the complete prefix of fragments.         *)
(***************************************************************************)
SameStatement(p, q) ==
    IF NoProposal \in {p, q} THEN p = q ELSE Statement[p] = Statement[q]

ProposalsDistinct(proposals) ==
    \A i, j \in DOMAIN proposals : SameStatement(proposals[i], proposals[j]) => i = j

SameConcern(c, d) ==
    /\ c.target = d.target
    /\ c.grounds = d.grounds
    /\ SameStatement(c.correction, d.correction)

ConcernsDistinct(concerns) ==
    \A i, j \in DOMAIN concerns : SameConcern(concerns[i], concerns[j]) => i = j

(***************************************************************************)
(* The referee's decisions, one per concern in the concerns' order.        *)
(***************************************************************************)
Decided(decisions, decision) == {i \in DOMAIN decisions : decisions[i] = decision}

ReplacementsRejectedToo(concerns, decisions, t) ==
    {i \in DOMAIN decisions \ Decided(decisions, "unresolved") :
        concerns[i].target = t /\ concerns[i].correction # NoProposal}

(* The accepted concerns that replace the t-th proposal. *)
Replacements(concerns, decisions, t) ==
    {i \in Decided(decisions, "accept_auditor") :
        concerns[i].target = t /\ concerns[i].correction # NoProposal}

(* The proposals left out: disputed openly, or omitted for the auditor. *)
Withdrawn(concerns, decisions) ==
    {concerns[i].target : i \in Decided(decisions, "unresolved")}
    \cup {concerns[i].target : i \in {k \in Decided(decisions, "accept_auditor") :
                                        concerns[k].correction = NoProposal}}

(* The common requirements before canonical order: what each kept proposal
   became, and the accepted omissions.  An item carries its origin, for two
   origins of one content are refused. *)
CommonItems(proposals, concerns, decisions) ==
    {<<"proposal", t,
       IF Replacements(concerns, decisions, t) = {} THEN proposals[t]
       ELSE concerns[CHOOSE i \in Replacements(concerns, decisions, t) : TRUE].correction>>
        : t \in DOMAIN proposals \ Withdrawn(concerns, decisions)}
    \cup {<<"omission", i, concerns[i].correction>>
        : i \in {k \in Decided(decisions, "accept_auditor") : concerns[k].target = NoTarget}}

Requirements(proposals, concerns, decisions) ==
    {item[3] : item \in CommonItems(proposals, concerns, decisions)}

(* One contested requirement per unresolved dispute. *)
Contested(proposals, concerns, decisions) ==
    [i \in Decided(decisions, "unresolved") |->
        [reviewer |-> IF concerns[i].target = NoTarget THEN NoProposal
                      ELSE proposals[concerns[i].target],
         auditor |-> concerns[i].correction]]

AlternativesNamed(contested, statement) ==
    {a \in (DOMAIN contested) \X {"reviewer", "auditor"} :
        contested[a[1]][a[2]] # NoProposal /\ Statement[contested[a[1]][a[2]]] = statement}

Targets(requirements, r) == {q \in requirements : Statement[q] = Dependency[r]}

(* _relationships: a dependency names one requirement or one alternative,
   and not the requirement that has it. *)
DependencyResolves(requirements, contested, r) ==
    \/ Dependency[r] = NoStatement
    \/ /\ Cardinality(Targets(requirements, r))
            + Cardinality(AlternativesNamed(contested, Dependency[r])) = 1
       /\ r \notin Targets(requirements, r)

Compiles(proposals, concerns, decisions) ==
    /\ \A t \in DOMAIN proposals : Cardinality(Replacements(concerns, decisions, t)) <= 1
    /\ Cardinality(CommonItems(proposals, concerns, decisions))
        = Cardinality(Requirements(proposals, concerns, decisions))
    /\ \A r \in Requirements(proposals, concerns, decisions) :
        DependencyResolves(Requirements(proposals, concerns, decisions),
                           Contested(proposals, concerns, decisions), r)

Baseline(proposals, concerns, decisions) ==
    LET requirements == Requirements(proposals, concerns, decisions)
    IN [requirements |-> requirements,
        relationships |-> {pair \in requirements \X requirements :
                                pair[2] \in Targets(requirements, pair[1])},
        contested |-> Contested(proposals, concerns, decisions)]

(***************************************************************************)
(* Ordinary grade batches: the requirements in canonical order, BatchSize  *)
(* at a time.                                                              *)
(***************************************************************************)
BatchOverlapping(requirements, b) ==
    {r \in requirements :
        Cardinality({q \in requirements : q <= r}) \in (b - 1) * BatchSize .. b * BatchSize}

Batch(requirements, b) ==
    {r \in requirements :
        Cardinality({q \in requirements : q <= r}) \in (b - 1) * BatchSize + 1 .. b * BatchSize}

BatchCount(requirements) == (Cardinality(requirements) + BatchSize - 1) \div BatchSize
================================================================================
