--------------------------- MODULE MCEvaluatorDrivers ---------------------------
EXTENDS EvaluatorDrivers

(* Two proposals, the second of which depends on the first. *)
GradedStatement == <<"s1", "s2", "s3">>
GradedDependency == <<"none", "s1", "none">>
GradedImportance == <<"critical", "supporting", "material">>
DriverReview == {<<>>, <<1>>, <<2>>}
DriverAudit == {<<>>, <<[target |-> 0, correction |-> 3, grounds |-> "g"]>>}
OneReport == <<"A">>
TwoReports == <<"A", "B">>
================================================================================
