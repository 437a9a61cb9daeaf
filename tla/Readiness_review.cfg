SPECIFICATION Spec
CONSTANTS
  Cases <- ReviewCases
INVARIANTS  BlockersFallOnlyToReferees TierIgnoresLaneOrder StrictIsRetained   DeliveredMeansCovered RefusalsAreKnown
CHECK_DEADLOCK FALSE
