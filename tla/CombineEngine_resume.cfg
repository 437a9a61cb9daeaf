SPECIFICATION Spec
CONSTANTS
  Writers = {w1}
  Stages <- FourStages
  Requests = {r1, r2}
  Configs <- TwoConfigs
  Forced = {0, 1, 3, 4}
  MayFail = TRUE
  MayStop = TRUE
  MayClear = TRUE
  MaxCalls = 3
  NoRequest = NoRequest
  Free = Free
  Stale = Stale
INVARIANTS TypeOK PrefixIsDerived CompletedWorkIsKept NamesItsModel
SYMMETRY Symmetry
CHECK_DEADLOCK FALSE
