SPECIFICATION Spec
CONSTANTS
  Baselines <- SmallBaselines
  GradeChoices = {"met", "partially_met", "not_met", "uncertain"}
INVARIANTS  PassMeansCriticalsMet LanesInterchangeable BetterGradesNeverFail NamedDisputesDecide
CHECK_DEADLOCK FALSE
