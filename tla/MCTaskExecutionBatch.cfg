CONSTANTS
    t1 = t1  e1 = e1  e2 = e2
    Task <- OneTask
    Execution <- TwoCalls
    LeaseSeconds = 1
    MaxAttempts = 2
    RetryBatch = 2
    MaxJsonRegenerations = 1
    AttemptBound = 5
SPECIFICATION Spec
PROPERTIES GrantGivesFullBatch
