SPECIFICATION Spec
CONSTANTS
  Writers = {w1, w2}
  Stages <- ThreeStages
  Requests = {r1, r2}
  Configs <- OneConfig
  Forced = {0, 1, 2}
  MayFail = TRUE
  MayStop = TRUE
  MayClear = FALSE
  MaxCalls = 3
  NoRequest = NoRequest
  Free = Free
  Stale = Stale
INVARIANTS ReturnsItsBundle OneWriter
SYMMETRY AllSymmetry
CHECK_DEADLOCK FALSE
