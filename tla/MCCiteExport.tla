------------------------------ MODULE MCCiteExport ------------------------------
(* Two citations, the first cited by two claims. *)
EXTENDS CiteExport
MCCitations == <<"c1">>
MCClaims == <<"p1", "p2">>
MCCitationOf == [p1 |-> "c1", p2 |-> "c1"]
================================================================================
