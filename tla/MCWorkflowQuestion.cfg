CONSTANTS
    build = build  rebuild = rebuild  check = check
    StepId <- Steps
    Kind <- StepKind
    Gated <- Ungated
    Routes <- TwoRoutes
    FirstRoutes <- OneRoute
    MaxAttempts = 1
    RetryBatch = 2
    AttemptBound = 2
    CrashBound = 1
    ReviseBound = 0
    TornBound = 3
    InProcessControl = FALSE
SPECIFICATION Spec
INVARIANTS AgentQuestionsAreAsked
