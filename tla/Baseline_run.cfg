CONSTANTS
    Statements = {1, 2, 3}
    Importances = {"critical", "material"}
    Drivers = {d1, d2}
    MaxFragments = 2
    ReviewDrafts <- MCReviewDrafts
    AuditDrafts <- MCAuditDrafts
    Corrections <- MCCorrections
    MaxEditions = 2
SPECIFICATION Spec
INVARIANTS
    TypeOK
    RunVerifies
    DecisionsAnswerTheirDispute
    NothingDisappears
    TiersFollowRulings
    RelationshipsFollow
PROPERTY
    InvocationReturns
CHECK_DEADLOCK FALSE
