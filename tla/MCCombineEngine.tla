---------------------------- MODULE MCCombineEngine ----------------------------
EXTENDS CombineEngine, TLC

FourStages == <<"collect", "organize", "map", "export">>
ThreeStages == <<"collect", "map", "export">>
Offline == [search |-> "fetch", model |-> "none"]
WithModel == [search |-> "fetch", model |-> "m1"]
OneConfig == {Offline}
TwoConfigs == {Offline, WithModel}
Symmetry == Permutations(Requests)
AllSymmetry == Permutations(Requests) \cup Permutations(Writers)
================================================================================
