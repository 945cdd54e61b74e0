CONSTANTS
    build = build  rebuild = rebuild  check = check
    StepId <- Steps
    Kind <- StepKind
    Gated <- Approved
    Routes <- TwoRoutes
    FirstRoutes <- OneRoute
    MaxAttempts = 1
    RetryBatch = 2
    AttemptBound = 2
    CrashBound = 0
    ReviseBound = 1
    TornBound = 3
    InProcessControl = FALSE
SPECIFICATION Spec
PROPERTIES AcceptedAnswerIsCurrent
