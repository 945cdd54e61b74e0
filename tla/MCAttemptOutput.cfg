\* Two attempts on one host, each with the sandbox on or off; any agent may outlive its
\* process and write to what the next attempt stages.
SPECIFICATION Spec
CHECK_DEADLOCK FALSE
CONSTANTS
    a1 = a1
    a2 = a2
    None = None
    Attempts <- MCAttempts
    Texts = {"bare", "prose", "twice"}
    Accepted = {"bare", "prose", "fenced"}
    Strict = {"bare"}
    Ambiguous = {"twice"}
    MaxCommits = 1
INVARIANTS
    TypeOK
    PublishedIsOwn
    ImportedIsVerified
PROPERTIES
    StagingIsGivenBack
