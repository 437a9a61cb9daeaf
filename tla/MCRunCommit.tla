------------------------------ MODULE MCRunCommit ------------------------------
EXTENDS RunCommit, TLC

Symmetry == {f @@ g : f \in Permutations(Answers), g \in Permutations(Writers)}
================================================================================
