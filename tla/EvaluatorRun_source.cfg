SPECIFICATION RunSpec
CONSTANTS
  Proposals = {1, 2, 3, 4, 5}
  Statement <- MCStatement
  Dependency <- MCDependency
  Importance <- MCImportance
  NoStatement = "none"
  Grounds = {"g"}
  BatchSize = 2
  Labels <- OneReport
  Candidate = "A"
  MaxFragmentItems = 2
  MaxFragments = 3
  MaxItems = 3
  LegacyItems = 2
  ReviewItems <- ReviewFragments
  AuditItems <- AuditFragments
  GradeChoices = {"met"}
INVARIANTS RulingsShow
CHECK_DEADLOCK FALSE
