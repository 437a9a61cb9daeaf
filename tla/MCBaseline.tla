------------------------------ MODULE MCBaseline ------------------------------
(* Three statements and two tiers.  Reviews state the first two, in one or
   two fragments, the second sometimes depending on another; audits rate them
   and raise concerns of every shape, also ones that clash; corrections add,
   reword or remove a requirement and add or drop a relationship. *)
EXTENDS BaselineRun

Says(s, i, d) == [statement |-> s, importance |-> i, dependency |-> d]
One == Says(1, "critical", None)
TwoOnOne == Says(2, "material", 1)
Three == Says(3, "critical", None)

MCReviewDrafts ==
    {[proposals |-> {One}, final |-> FALSE],
     [proposals |-> {One}, final |-> TRUE],
     [proposals |-> {TwoOnOne}, final |-> TRUE],
     [proposals |-> {One, TwoOnOne}, final |-> TRUE]}

About1 == [target |-> 1, correction |-> NoProposal]
Reword2 == [target |-> 2, correction |-> Three]
Omitted == [target |-> None, correction |-> Says(3, "material", 2)]
Rates(targets) == {[target |-> t, importance |-> "critical"] : t \in targets}
MCAuditDrafts ==
    {[concerns |-> c, findings |-> Rates({1}), final |-> FALSE] : c \in {{}, {About1}}}
    \cup {[concerns |-> c, findings |-> Rates(f), final |-> TRUE] :
            c \in {{}, {About1}, {Reword2, Omitted}}, f \in {{1}, {2}, {1, 2}}}

NoCorrection == [changed |-> <<>>, added |-> <<>>, dropped |-> {}, linked |-> {}]
MCCorrections(edition) ==
    {[NoCorrection EXCEPT !.added = a, !.changed = c, !.dropped = x, !.linked = y] :
            a \in {<<>>} \cup {[k \in {99} |-> Three]},
            c \in {<<>>} \cup {[k \in {1} |-> p] : p \in {NoProposal, Says(2, "material", None)}},
            x \in {{}, edition.links},
            y \in {{}, {<<99, Cardinality(edition.requirements) + 1>>}}}
================================================================================
