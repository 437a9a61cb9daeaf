----------------------------- MODULE MCEvaluatorRun -----------------------------
EXTENDS EvaluatorRun

(* Proposals 1 and 2 are independent; 3 corrects 1; 4 states what 2 states
   on other evidence; 5 depends on what 1 states. *)
MCStatement == <<"s1", "s2", "s3", "s2", "s5">>
MCDependency == <<"none", "none", "none", "none", "s1">>
MCImportance == <<"critical", "supporting", "material", "supporting", "material">>

C(target, correction) == [target |-> target, correction |-> correction, grounds |-> "g"]

ReviewFragments == {<<>>, <<1>>, <<1, 2>>, <<2>>, <<5>>}
AuditFragments == {<<>>} \cup ({<<C(t, c)>> : t \in 0..2, c \in {0, 3, 4}} \ {<<C(0, 0)>>})

(* Proposals that depend on nothing. *)
PlainFragments == {<<>>, <<1>>, <<2>>}

OneReport == <<"A">>
================================================================================
