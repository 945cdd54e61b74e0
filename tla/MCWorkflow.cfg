CONSTANTS
    build = build  rebuild = rebuild  check = check
    StepId <- Steps
    Kind <- StepKind
    Gated <- Approved
    Routes <- TwoRoutes
    FirstRoutes <- OneRoute
    MaxAttempts = 1
    RetryBatch = 2
    AttemptBound = 2
    CrashBound = 1
    ReviseBound = 1
    TornBound = 3
    InProcessControl = TRUE
SPECIFICATION FairSpec
INVARIANTS TypeOK WaitingIsOneQuestion PassedStepsAreDone
PROPERTIES GatesArePassedByApproval PauseIsKept ActiveRunComesToRest
