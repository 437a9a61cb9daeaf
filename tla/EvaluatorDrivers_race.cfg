SPECIFICATION FairSpec
CONSTANTS
  Proposals = {1, 2, 3}
  Statement <- GradedStatement
  Dependency <- GradedDependency
  Importance <- GradedImportance
  NoStatement = "none"
  Grounds = {"g"}
  BatchSize = 2
  Labels <- TwoReports
  Candidate = "A"
  MaxFragmentItems = 2
  MaxFragments = 2
  MaxItems = 3
  LegacyItems = 3
  ReviewItems <- DriverReview
  AuditItems <- DriverAudit
  GradeChoices = {"not_met"}
  Drivers = {d1}
  ExternalWriter = TRUE
INVARIANTS TypeOK CallsUnique EndedMeansCovered
PROPERTIES StaleDraftChangesNothing DisagreementIsReal InvocationReturns
CHECK_DEADLOCK FALSE
