SPECIFICATION Spec
CONSTANTS
  Writers = {w1}
  Stages <- FourStages
  Requests = {r1, r2}
  Configs <- OneConfig
  Forced = {0, 1, 2}
  MayFail = TRUE
  MayStop = FALSE
  MayClear = FALSE
  MaxCalls = 3
  NoRequest = NoRequest
  Free = Free
  Stale = Stale
INVARIANT ReturnsItsRequest

CHECK_DEADLOCK FALSE
